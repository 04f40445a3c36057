------------------------------- MODULE Access -------------------------------
(***************************************************************************)
(* Who gets in: sessions and password resets (auth), users and roles of    *)
(* one tenant (users, roles), the modules of the tenant and of the pages   *)
(* (platform-admin), and the chain of guards that every call of a route    *)
(* passes.  A decision is taken from copies: the roles in the access       *)
(* token, the role in Redis, the marker of a changed password; the copies  *)
(* live for a bounded time.  Time is counted in ticks, and a request lasts *)
(* less than two.                                                          *)
(***************************************************************************)
EXTENDS Routes, FiniteSets

CONSTANTS Requests, Users, Browsers, Roles, Links,
          AccessTTL,    \* ACCESS_TOKEN_TTL, 15 minutes
          MarkerTTL,    \* PASSWORD_CHANGED_MARKER_TTL_SECONDS, 20 minutes
          CacheTTL,     \* CACHE_TTL_SECONDS of a cached role, 5 minutes
          LinkTTL,      \* PASSWORD_RESET_TTL_MS
          TrialTTL,     \* DEMO_ACCOUNT_DURATION_MS
          MaxRequests,
          Grants,       \* the permission sets a role may be given
          Modules,      \* modules that can be switched on and off
          Offers        \* a behaviour's operations (ops), the routes that are
                        \* called (calls), where it begins (starts: users, links
                        \* sent before, roles cached before)
                        \* and its last tick (last)

Admin == "COMPANYADMIN"
Basic == "Temel Kullanici"
AllRoles == Roles \union {Admin, Basic}
Calls == UNION {o.calls : o \in Offers}
Pages == {c.page : c \in Calls} \ {NoPage}

Never == 1000000
None  == "none"

\* moved, off, changed: when the roles, the account, the password last changed;
\* resets: changes of the password by link; unmarked: the last of them is not the
\* one that Redis knows; claims: how often a link has changed the password.
UserRow == [there : BOOLEAN, active : BOOLEAN, roles : SUBSET AllRoles, moved : Nat,
            off : Nat, demo : BOOLEAN, trial : Nat, changed : Nat, resets : Nat,
            unmarked : BOOLEAN]
LinkRow == [user : Users \union {None}, until : Nat,
            used : {"no", "replaced", "reset"}, claims : Nat]

(* Where a behaviour may begin: with an active administrator, and before   *)
(* any password has been reset.                                            *)
Sound(start) ==
  /\ start.users \in [Users -> UserRow]
  /\ \E u \in Users : /\ start.users[u].there /\ start.users[u].active
                       /\ Admin \in start.users[u].roles
  /\ \A u \in Users : /\ start.users[u].changed = 0 /\ start.users[u].resets = 0
                       /\ ~start.users[u].unmarked
  /\ start.links \in [Links -> LinkRow]
  /\ \A l \in Links : start.links[l].claims = 0 /\ start.links[l].used # "reset"
  /\ \A x \in start.cached : x \in Roles /\ \E u \in Users : x \in start.users[u].roles

ASSUME AccessAssumption ==
  /\ AccessTTL \in Nat /\ MarkerTTL \in Nat /\ AccessTTL < MarkerTTL
  /\ CacheTTL \in Nat /\ LinkTTL \in Nat /\ TrialTTL \in Nat
  /\ {Admin, Basic} \intersect Roles = {} /\ None \notin Users \union Browsers
  /\ Calls \subseteq AllRoutes
  /\ \A o \in Offers : o.last \in Nat /\ \A start \in o.starts : Sound(start)

VARIABLES now,
          user,      \* the rows of the users
          role,      \* the rows of the custom roles
          enabled,   \* TenantModule rows that are not disabled
          pages,     \* PageModuleAssignment: per page its modules
          meant,     \* per page the modules it was last given
          torn,      \* pages whose assignment was overlapped or cut short
          link,      \* password reset tokens
          marker,    \* per user, Redis: the change and when it expires
          cache,     \* per role, Redis: what was read and when it expires
          browser,   \* the cookies of each browser
          req, begun, offer,
          outdated   \* whether somebody acted who was no administrator then

tenant == <<enabled, pages, meant, torn>>
redis  == <<marker, cache>>
vars   == <<now, user, role, tenant, link, redis, browser, req, begun, offer, outdated>>

NoMarker  == [at |-> 0, until |-> 0]
NoEntry   == [grants |-> {}, until |-> 0]
NoSession == [user |-> None]
NoLink    == [user |-> None, until |-> 0, used |-> "no", claims |-> 0]
ToLoad    == [grants |-> {}, to_load |-> TRUE, fill |-> FALSE]
Loaded(grants, fill) == [grants |-> grants, to_load |-> FALSE, fill |-> fill]

ActiveAdmins == {u \in Users : /\ user[u].there /\ user[u].active
                               /\ Admin \in user[u].roles}

\* b, u, x: the browser, user and role a request is about; set: what it sets;
\* row: the user as it was read; loads: per role of the token, what was read.
Idle == [pc |-> "idle", b |-> None, u |-> None, x |-> None, set |-> {}, row |-> <<>>,
         token |-> NoSession, route |-> Route, loads |-> <<>>, at |-> 0,
         since |-> 0, lone |-> TRUE, raced |-> FALSE]
Open(r) == req[r].pc \notin {"idle", "in"}

Init ==
  /\ now = 0
  /\ offer \in Offers
  /\ \E start \in offer.starts :
       LET held == {x \in Roles : \E u \in Users : x \in start.users[u].roles} IN
       /\ user = start.users
       /\ link = start.links
       /\ \E grants \in [held -> Grants] :
            /\ role = [x \in Roles |-> IF x \in held
                 THEN [there |-> TRUE, grants |-> grants[x], edited |-> 0]
                 ELSE [there |-> FALSE, grants |-> {}, edited |-> Never]]
            /\ cache = [x \in Roles |-> IF x \in start.cached
                 THEN [grants |-> grants[x], until |-> CacheTTL] ELSE NoEntry]
  /\ enabled = Modules
  /\ pages = [p \in Pages |-> Modules] /\ meant = pages /\ torn = {}
  /\ marker = [u \in Users |-> NoMarker]
  /\ browser = [b \in Browsers |->
       IF b \in Users /\ user[b].there
       THEN [user |-> b, roles |-> user[b].roles, demo |-> FALSE, trial |-> Never,
             iat |-> 0, resets |-> 0, raced |-> FALSE]
       ELSE NoSession]
  /\ req = [r \in Requests |-> Idle]
  /\ begun = 0
  /\ outdated = FALSE

(* A request begins; lone: no other request was under way while it was.    *)
Enter(r, new) ==
  /\ ~Open(r) /\ begun < MaxRequests
  /\ begun' = begun + 1
  /\ LET others == {o \in Requests \ {r} : Open(o)} IN
     req' = [o \in Requests |->
               IF o = r THEN [new EXCEPT !.since = now, !.lone = (others = {})]
               ELSE IF o \in others THEN [req[o] EXCEPT !.lone = FALSE]
               ELSE req[o]]

\* The request goes on, or is over: refused, or let in.
Goto(r, pc) ==
  /\ req' = [req EXCEPT ![r] = IF pc \in {"idle", "in"} THEN [Idle EXCEPT !.pc = pc]
                               ELSE [@ EXCEPT !.pc = pc]]
  /\ UNCHANGED begun
Answer(r) == Goto(r, "idle")
-----------------------------------------------------------------------------
(* Sessions: login, refresh and logout of auth.service.                    *)
BeginLogin(r, b, u) ==
  /\ "login" \in offer.ops
  /\ user[u].there /\ user[u].active
  /\ Enter(r, [Idle EXCEPT !.pc = "stamp", !.b = b, !.u = u, !.row = user[u]])
  /\ UNCHANGED <<now, user, role, tenant, link, redis, browser, offer, outdated>>

(* lastLoginAt; the trial of a demo user begins with the first login.      *)
Stamp(r) ==
  LET u == req[r].u
      trial == IF req[r].row.demo /\ req[r].row.trial = Never THEN now + TrialTTL
               ELSE req[r].row.trial IN
  /\ req[r].pc = "stamp"
  /\ user' = [user EXCEPT ![u].trial = trial]
  /\ req' = [req EXCEPT ![r].pc = "sign", ![r].row.trial = trial]
  /\ UNCHANGED <<now, role, tenant, link, redis, browser, begun, offer, outdated>>

\* isIssuedBeforePasswordChange, to the second: here to the tick.
IssuedBefore(iat, at) == iat < at

(* Mutant of BeginRefresh: does not ask when the password was changed.     *)
RefreshAnyAge(r, b) ==
  LET t == browser[b] IN
  /\ "refresh" \in offer.ops /\ t # NoSession
  /\ user[t.user].there /\ user[t.user].active
  /\ Enter(r, [Idle EXCEPT !.pc = "sign", !.b = b, !.u = t.user, !.row = user[t.user],
                           !.token = t])
  /\ UNCHANGED <<now, user, role, tenant, link, redis, browser, offer, outdated>>

BeginRefresh(r, b) ==
  LET t == browser[b] IN
  /\ "refresh" \in offer.ops /\ t # NoSession
  /\ user[t.user].there /\ user[t.user].active
  /\ ~IssuedBefore(t.iat, user[t.user].changed)
  /\ Enter(r, [Idle EXCEPT !.pc = "sign", !.b = b, !.u = t.user, !.row = user[t.user],
                           !.token = t])
  /\ UNCHANGED <<now, user, role, tenant, link, redis, browser, offer, outdated>>

(* issueTokens, from the row as it was read; resets and raced follow a     *)
(* session from its login through every refresh.                           *)
Sign(r) ==
  LET row == req[r].row  old == req[r].token IN
  /\ req[r].pc = "sign"
  /\ browser' = [browser EXCEPT ![req[r].b] =
       [user |-> req[r].u, roles |-> row.roles, demo |-> row.demo, trial |-> row.trial,
        iat |-> now, resets |-> IF old = NoSession THEN row.resets ELSE old.resets,
        raced |-> req[r].raced \/ (old # NoSession /\ old.raced)]]
  /\ Answer(r)
  /\ UNCHANGED <<now, user, role, tenant, link, redis, offer, outdated>>

Logout(r, b) ==
  /\ "logout" \in offer.ops /\ browser[b] # NoSession
  /\ Enter(r, Idle)
  /\ browser' = [browser EXCEPT ![b] = NoSession]
  /\ UNCHANGED <<now, user, role, tenant, link, redis, offer, outdated>>
-----------------------------------------------------------------------------
(* A forgotten password: processRequest, resetPassword.                    *)
BeginForgot(r, u) ==
  /\ "forgot" \in offer.ops
  /\ user[u].there /\ user[u].active
  /\ Enter(r, [Idle EXCEPT !.pc = "new link", !.u = u])
  /\ UNCHANGED <<now, user, role, tenant, link, redis, browser, offer, outdated>>

(* One batch: the links not yet used are used up, the new one is stored.   *)
NewLink(r, l) ==
  /\ req[r].pc = "new link" /\ link[l].user = None
  /\ link' = [k \in Links |->
       IF k = l THEN [user |-> req[r].u, until |-> now + LinkTTL, used |-> "no", claims |-> 0]
       ELSE IF link[k].user = req[r].u /\ link[k].used = "no"
            THEN [link[k] EXCEPT !.used = "replaced"]
       ELSE link[k]]
  /\ Answer(r)
  /\ UNCHANGED <<now, user, role, tenant, redis, browser, offer, outdated>>

BeginReset(r, l) ==
  /\ "reset" \in offer.ops
  /\ link[l].user # None /\ link[l].used = "no" /\ now <= link[l].until
  /\ user[link[l].user].active
  /\ Enter(r, [Idle EXCEPT !.pc = "hash", !.u = link[l].user, !.x = l])
  /\ UNCHANGED <<now, user, role, tenant, link, redis, browser, offer, outdated>>

(* The new password is hashed; the time of the change is taken after it.   *)
Hash(r) ==
  /\ req[r].pc = "hash"
  /\ req' = [req EXCEPT ![r].pc = "claim", ![r].at = now]
  /\ UNCHANGED <<now, user, role, tenant, link, redis, browser, begun, offer, outdated>>

\* Sessions that are issued while the password changes: from rows read
\* before the commit, or after the time of the change was taken.
Race(r, u) ==
  LET late(t) == IF t # NoSession /\ t.user = u /\ t.iat >= req[r].at
                 THEN [t EXCEPT !.raced = TRUE] ELSE t IN
  /\ browser' = [b \in Browsers |-> late(browser[b])]
  /\ req' = [o \in Requests |->
               IF o = r THEN [req[r] EXCEPT !.pc = "mark"]
               ELSE [req[o] EXCEPT !.raced = @ \/ req[o].u = u, !.token = late(@)]]

(* Mutant of Claim: takes the link by its id alone.                        *)
ClaimAny(r) ==
  LET l == req[r].x  u == req[r].u IN
  /\ req[r].pc = "claim"
  /\ link' = [k \in Links |->
                IF k = l THEN [link[k] EXCEPT !.used = "reset", !.claims = @ + 1]
                ELSE IF link[k].user = u /\ link[k].used = "no"
                     THEN [link[k] EXCEPT !.used = "replaced"]
                ELSE link[k]]
  /\ user' = [user EXCEPT ![u].changed = req[r].at, ![u].resets = @ + 1,
                          ![u].unmarked = TRUE]
  /\ Race(r, u)
  /\ UNCHANGED <<now, role, tenant, redis, begun, offer, outdated>>

(* The transaction: the conditional update decides; then the password and  *)
(* the other links of the user.                                            *)
Claim(r) ==
  LET l == req[r].x  u == req[r].u IN
  /\ req[r].pc = "claim"
  /\ IF link[l].used # "no" THEN Answer(r) /\ UNCHANGED <<link, user, browser>>
     ELSE /\ link' = [k \in Links |->
                IF k = l THEN [link[k] EXCEPT !.used = "reset", !.claims = @ + 1]
                ELSE IF link[k].user = u /\ link[k].used = "no"
                     THEN [link[k] EXCEPT !.used = "replaced"]
                ELSE link[k]]
          /\ user' = [user EXCEPT ![u].changed = req[r].at, ![u].resets = @ + 1,
                                  ![u].unmarked = TRUE]
          /\ Race(r, u)
          /\ UNCHANGED begun
  /\ UNCHANGED <<now, role, tenant, redis, offer, outdated>>

(* markSessionsRevoked: a failure of Redis is only logged; the mark of an  *)
(* earlier change may come last.                                           *)
Mark(r) ==
  LET u == req[r].u IN
  /\ req[r].pc = "mark"
  /\ \/ /\ marker' = [marker EXCEPT ![u] = [at |-> req[r].at, until |-> now + MarkerTTL]]
        /\ user' = [user EXCEPT ![u].unmarked = (req[r].at # user[u].changed)]
     \/ UNCHANGED <<marker, user>>
  /\ Answer(r)
  /\ UNCHANGED <<now, role, tenant, link, cache, browser, offer, outdated>>
-----------------------------------------------------------------------------
(* JwtAuthGuard: the token, and the marker if it can be read.              *)
Unexpired(t) == t # NoSession /\ now < t.iat + AccessTTL
Marked(t)    == now < marker[t.user].until /\ IssuedBefore(t.iat, marker[t.user].at)
Authentic(t) == Unexpired(t) /\ ~Marked(t)

(* The users' and roles' routes: @DemoRestricted, CompanyAdminGuard.  The  *)
(* administrators' role cannot be changed, so its cached copy is right.    *)
AsAdmin(b) == Authentic(browser[b]) /\ ~browser[b].demo /\ Admin \in browser[b].roles

BeginAct(r, b, new) ==
  /\ AsAdmin(b)
  /\ Enter(r, [new EXCEPT !.b = b, !.token = browser[b]])
  /\ UNCHANGED <<now, user, role, tenant, link, redis, browser, offer, outdated>>

Exist(roles) == \A x \in roles \intersect Roles : role[x].there

\* A commit by somebody who is no administrator any more.
Outdate(r) == outdated' = (outdated \/ req[r].token.user \notin ActiveAdmins)

(* updateRole: 400 for oneself, 404, UNKNOWN_ROLE.                         *)
BeginAssign(r, b, u, roles) ==
  /\ "assign" \in offer.ops /\ browser[b] # NoSession /\ u # browser[b].user
  /\ user[u].there /\ Exist(roles)
  /\ BeginAct(r, b, [Idle EXCEPT !.pc = "assign", !.u = u, !.set = roles])

(* Its transaction; the foreign key refuses a role that has gone.          *)
Assign(r) ==
  LET u == req[r].u IN
  /\ req[r].pc = "assign"
  /\ IF Exist(req[r].set)
     THEN user' = [user EXCEPT ![u].roles = req[r].set, ![u].moved = now] /\ Outdate(r)
     ELSE UNCHANGED <<user, outdated>>
  /\ Answer(r)
  /\ UNCHANGED <<now, role, tenant, link, redis, browser, offer>>

(* Mutant of BeginActivate: lets one act on oneself.                       *)
ActivateAnyone(r, b, u, on) ==
  /\ "activate" \in offer.ops /\ browser[b] # NoSession
  /\ user[u].there
  /\ BeginAct(r, b, [Idle EXCEPT !.pc = "activate", !.u = u, !.set = IF on THEN {u} ELSE {}])

(* setActive: 400 for oneself, 404.                                        *)
BeginActivate(r, b, u, on) ==
  /\ "activate" \in offer.ops /\ browser[b] # NoSession /\ u # browser[b].user
  /\ user[u].there
  /\ BeginAct(r, b, [Idle EXCEPT !.pc = "activate", !.u = u, !.set = IF on THEN {u} ELSE {}])

Activate(r) ==
  LET u == req[r].u IN
  /\ req[r].pc = "activate"
  /\ user' = [user EXCEPT ![u].active = (req[r].set # {}),
                          ![u].off = IF req[r].set = {} /\ user[u].active THEN now ELSE @]
  /\ Outdate(r)
  /\ Answer(r)
  /\ UNCHANGED <<now, role, tenant, link, redis, browser, offer>>

(* createUser; and the demo account of the landing page, an administrator  *)
(* of the shared demo tenant.  A taken address is refused by the index.    *)
BeginCreateUser(r, b, u, roles) ==
  /\ "create user" \in offer.ops /\ ~user[u].there /\ Exist(roles)
  /\ \A o \in Requests : Open(o) => req[o].u # u
  /\ BeginAct(r, b, [Idle EXCEPT !.pc = "insert user", !.u = u, !.set = roles])

BeginDemo(r, u) ==
  /\ "demo" \in offer.ops /\ ~user[u].there
  /\ \A o \in Requests : Open(o) => req[o].u # u
  /\ Enter(r, [Idle EXCEPT !.pc = "insert user", !.u = u, !.set = {Admin}])
  /\ UNCHANGED <<now, user, role, tenant, link, redis, browser, offer, outdated>>

InsertUser(r) ==
  LET u == req[r].u IN
  /\ req[r].pc = "insert user"
  /\ user' = IF Exist(req[r].set)
             THEN [user EXCEPT ![u].there = TRUE, ![u].active = TRUE,
                               ![u].roles = req[r].set, ![u].demo = (req[r].b = None)]
             ELSE user
  /\ Answer(r)
  /\ UNCHANGED <<now, role, tenant, link, redis, browser, offer, outdated>>

(* extendDemoUser, deactivateDemoUser.                                     *)
SetTrial(r, u, more) ==
  /\ "trial" \in offer.ops /\ user[u].demo
  /\ Enter(r, Idle)
  /\ user' = IF more THEN [user EXCEPT ![u].trial = now + TrialTTL, ![u].active = TRUE]
             ELSE [user EXCEPT ![u].trial = now]
  /\ UNCHANGED <<now, role, tenant, link, redis, browser, offer, outdated>>
-----------------------------------------------------------------------------
(* Custom roles: create, update, remove of roles.service.                  *)
CreateRole(r, b, x, grants) ==
  /\ "create role" \in offer.ops /\ role[x].edited = Never
  /\ AsAdmin(b)
  /\ Enter(r, Idle)
  /\ role' = [role EXCEPT ![x] = [there |-> TRUE, grants |-> grants, edited |-> now]]
  /\ UNCHANGED <<now, user, tenant, link, redis, browser, offer, outdated>>

BeginEdit(r, b, x, grants) ==
  /\ "edit role" \in offer.ops /\ role[x].there
  /\ BeginAct(r, b, [Idle EXCEPT !.pc = "edit", !.x = x, !.set = grants])

(* The transaction; an update of a row that has gone fails (P2025, P2003). *)
Edit(r) ==
  LET x == req[r].x IN
  /\ req[r].pc = "edit"
  /\ IF role[x].there
     THEN /\ role' = [role EXCEPT ![x].grants = req[r].set, ![x].edited = now]
          /\ Goto(r, "invalidate")
     ELSE UNCHANGED role /\ Answer(r)
  /\ UNCHANGED <<now, user, tenant, link, redis, browser, offer, outdated>>

(* remove: the users of the role are read before the transaction.          *)
BeginRemove(r, b, x) ==
  /\ "remove role" \in offer.ops /\ role[x].there
  /\ BeginAct(r, b, [Idle EXCEPT !.pc = "count", !.x = x,
                                 !.set = {u \in Users : x \in user[u].roles}])

(* Mutant of CountRoles: gives nobody the basic role.                      *)
CountNothing(r) ==
  /\ req[r].pc = "count"
  /\ req' = [req EXCEPT ![r].pc = "delete", ![r].set = {}]
  /\ UNCHANGED <<now, user, role, tenant, link, redis, browser, begun, offer, outdated>>

(* In it, delete (the links go with the role) and the counts see what is   *)
(* committed by now: set becomes those left without a role.                *)
CountRoles(r) ==
  /\ req[r].pc = "count"
  /\ req' = [req EXCEPT ![r].pc = "delete",
                        ![r].set = {u \in @ : user[u].roles \subseteq {req[r].x}}]
  /\ UNCHANGED <<now, user, role, tenant, link, redis, browser, begun, offer, outdated>>

Delete(r) ==
  LET x == req[r].x IN
  /\ req[r].pc = "delete"
  /\ IF role[x].there
     THEN /\ role' = [role EXCEPT ![x] = [there |-> FALSE, grants |-> {}, edited |-> now]]
          /\ user' = [u \in Users |->
               IF x \notin user[u].roles /\ u \notin req[r].set THEN user[u]
               ELSE [user[u] EXCEPT !.moved = now,
                       !.roles = (@ \ {x}) \union (IF u \in req[r].set THEN {Basic} ELSE {})]]
          /\ Goto(r, "invalidate")
     ELSE UNCHANGED <<role, user>> /\ Answer(r)
  /\ UNCHANGED <<now, tenant, link, redis, browser, offer, outdated>>

Invalidate(r) ==
  /\ req[r].pc = "invalidate"
  /\ cache' = [cache EXCEPT ![req[r].x] = NoEntry]
  /\ Answer(r)
  /\ UNCHANGED <<now, user, role, tenant, link, marker, browser, offer, outdated>>
-----------------------------------------------------------------------------
(* Modules of the tenant and of the pages: platform-admin.                 *)
SetModule(r, m, on) ==
  /\ "module" \in offer.ops
  /\ Enter(r, Idle)
  /\ enabled' = IF on THEN enabled \union {m} ELSE enabled \ {m}
  /\ UNCHANGED <<now, user, role, pages, meant, torn, link, redis, browser, offer, outdated>>

(* setAssignment: deleteMany, then createMany; a second request that finds *)
(* rows of the first inserted fails on the key.                            *)
BeginPages(r, p, ms) ==
  /\ "pages" \in offer.ops
  /\ Enter(r, [Idle EXCEPT !.pc = "clear page", !.x = p, !.set = ms])
  /\ UNCHANGED <<now, user, role, tenant, link, redis, browser, offer, outdated>>

ClearPage(r) ==
  LET p == req[r].x IN
  /\ req[r].pc = "clear page"
  /\ pages' = [pages EXCEPT ![p] = {}]
  /\ meant' = [meant EXCEPT ![p] = req[r].set]
  /\ torn' = IF \E o \in Requests \ {r} : req[o].pc = "fill page" /\ req[o].x = p
             THEN torn \union {p} ELSE torn
  /\ Goto(r, "fill page")
  /\ UNCHANGED <<now, user, role, enabled, link, redis, browser, offer, outdated>>

FillPage(r) ==
  LET p == req[r].x IN
  /\ req[r].pc = "fill page"
  /\ pages' = IF pages[p] \intersect req[r].set = {}
              THEN [pages EXCEPT ![p] = @ \union req[r].set] ELSE pages
  /\ Answer(r)
  /\ UNCHANGED <<now, user, role, enabled, meant, torn, link, redis, browser, offer, outdated>>
-----------------------------------------------------------------------------
(* A call of a route: the guards in their order.                           *)
BeginCall(r, b, route) ==
  /\ "call" \in offer.ops /\ browser[b] # NoSession
  /\ Enter(r, [Idle EXCEPT !.pc = "jwt", !.b = b, !.token = browser[b], !.route = route,
                           !.loads = [x \in browser[b].roles \intersect Roles |-> ToLoad]])
  /\ UNCHANGED <<now, user, role, tenant, link, redis, browser, offer, outdated>>

RedisFails == "redis fails" \in offer.ops

\* Where a call goes on: the permission guard loads roles only if it must.
AfterDemo(route) == IF route.need.page = NoPage THEN "module" ELSE "permission"

(* JwtAuthGuard, DemoAccessGuard; lost: Redis does not answer for the      *)
(* marker, which lets the token pass.                                      *)
CheckToken(r) ==
  LET t == req[r].token  route == req[r].route IN
  /\ req[r].pc = "jwt"
  /\ \E lost \in IF RedisFails THEN BOOLEAN ELSE {FALSE} :
     Goto(r, IF route.public THEN "module"
             ELSE IF /\ Unexpired(t) /\ (lost \/ ~Marked(t))
                     /\ t.demo => /\ route.demo
                                  /\ route.expired \/ now < t.trial
                  THEN AfterDemo(route) ELSE "idle")
  /\ UNCHANGED <<now, user, role, tenant, link, redis, browser, offer, outdated>>

(* Mutant of LoadRole: an entry without an expiry.                         *)
LoadForEver(r, x) ==
  /\ req[r].pc = "permission" /\ x \in DOMAIN req[r].loads
  /\ req[r].loads[x] = ToLoad
  /\ req' = [req EXCEPT ![r].loads[x] = IF cache[x] # NoEntry
                                        THEN Loaded(cache[x].grants, FALSE)
                                        ELSE Loaded(role[x].grants, TRUE)]
  /\ UNCHANGED <<now, user, role, tenant, link, redis, browser, begun, offer, outdated>>

(* loadRole: the cached role, or the row, which is then stored.            *)
LoadRole(r, x) ==
  /\ req[r].pc = "permission" /\ x \in DOMAIN req[r].loads
  /\ req[r].loads[x] = ToLoad
  /\ req' = [req EXCEPT ![r].loads[x] = IF now < cache[x].until
                                        THEN Loaded(cache[x].grants, FALSE)
                                        ELSE Loaded(role[x].grants, TRUE)]
  /\ UNCHANGED <<now, user, role, tenant, link, redis, browser, begun, offer, outdated>>

StoreRole(r, x) ==
  /\ req[r].pc = "permission" /\ x \in DOMAIN req[r].loads
  /\ req[r].loads[x].fill
  /\ cache' = [cache EXCEPT ![x] = [grants |-> req[r].loads[x].grants,
                                    until |-> now + CacheTTL]]
  /\ req' = [req EXCEPT ![r].loads[x].fill = FALSE]
  /\ UNCHANGED <<now, user, role, tenant, link, marker, browser, begun, offer, outdated>>

(* PermissionGuard.                                                        *)
CheckPermission(r) ==
  LET loads == req[r].loads IN
  /\ req[r].pc = "permission"
  /\ \A x \in DOMAIN loads : loads[x] # ToLoad /\ ~loads[x].fill
  /\ Goto(r, IF \/ Admin \in req[r].token.roles
                \/ Granted(UNION {loads[x].grants : x \in DOMAIN loads}, req[r].route.need)
             THEN "module" ELSE "idle")
  /\ UNCHANGED <<now, user, role, tenant, link, redis, browser, offer, outdated>>

(* ModuleGuard: the modules of @RequiresModule, or those of the page.  No  *)
(* rows for the page let everybody on.                                     *)
ReadPage(r) ==
  LET route == req[r].route
      wanted == IF route.modules # {} THEN route.modules
                ELSE IF route.page = NoPage THEN {} ELSE pages[route.page] IN
  /\ req[r].pc = "module"
  /\ req' = [req EXCEPT ![r].pc = IF wanted = {} THEN "who" ELSE "enabled", ![r].set = wanted]
  /\ UNCHANGED <<now, user, role, tenant, link, redis, browser, begun, offer, outdated>>

(* Mutant of CheckModule: counts the rows that are disabled too.           *)
CheckAnyModule(r) ==
  /\ req[r].pc = "enabled"
  /\ Goto(r, IF req[r].set \intersect Modules # {} THEN "who" ELSE "idle")
  /\ UNCHANGED <<now, user, role, tenant, link, redis, browser, offer, outdated>>

CheckModule(r) ==
  /\ req[r].pc = "enabled"
  /\ Goto(r, IF req[r].set \intersect enabled # {} THEN "who" ELSE "idle")
  /\ UNCHANGED <<now, user, role, tenant, link, redis, browser, offer, outdated>>

(* The route's own guard; a user of the tenant is no platform admin.       *)
CheckWho(r) ==
  LET route == req[r].route IN
  /\ req[r].pc = "who"
  /\ Goto(r, IF \/ route.who = Anyone
                \/ route.who = CompanyAdmin /\ Admin \in req[r].token.roles
             THEN "in" ELSE "idle")
  /\ UNCHANGED <<now, user, role, tenant, link, redis, browser, offer, outdated>>
-----------------------------------------------------------------------------
(* The server dies in the middle of a request.                             *)
Crash(r) ==
  /\ "crash" \in offer.ops /\ Open(r)
  /\ torn' = IF req[r].pc = "fill page" THEN torn \union {req[r].x} ELSE torn
  /\ Answer(r)
  /\ UNCHANGED <<now, user, role, enabled, pages, meant, link, redis, browser, offer, outdated>>

(* Time passes; no request lasts two ticks.                                *)
Tick ==
  /\ now < offer.last
  /\ \A r \in Requests : Open(r) => req[r].since = now
  /\ now' = now + 1
  /\ UNCHANGED <<user, role, tenant, link, redis, browser, req, begun, offer, outdated>>

Begin(r) ==
  \/ \E b \in Browsers :
       \/ \E u \in Users : BeginLogin(r, b, u)
       \/ BeginRefresh(r, b) \/ Logout(r, b)
       \/ \E u \in Users, roles \in {{x} : x \in AllRoles} :
            BeginAssign(r, b, u, roles) \/ BeginCreateUser(r, b, u, roles)
       \/ \E u \in Users, on \in BOOLEAN : BeginActivate(r, b, u, on)
       \/ \E x \in Roles, g \in Grants : CreateRole(r, b, x, g) \/ BeginEdit(r, b, x, g)
       \/ \E x \in Roles : BeginRemove(r, b, x)
       \/ \E route \in offer.calls : BeginCall(r, b, route)
  \/ \E u \in Users : BeginForgot(r, u) \/ BeginDemo(r, u)
  \/ \E u \in Users, more \in BOOLEAN : SetTrial(r, u, more)
  \/ \E l \in Links : BeginReset(r, l)
  \/ \E p \in Pages, ms \in SUBSET Modules : BeginPages(r, p, ms)
  \/ \E m \in Modules, on \in BOOLEAN : SetModule(r, m, on)

Step(r) ==
  \/ Stamp(r) \/ Sign(r) \/ Hash(r) \/ Claim(r) \/ Mark(r)
  \/ \E l \in Links : NewLink(r, l)
  \/ Assign(r) \/ Activate(r) \/ InsertUser(r) \/ Edit(r) \/ CountRoles(r)
  \/ Delete(r) \/ Invalidate(r) \/ ClearPage(r) \/ FillPage(r)
  \/ CheckToken(r) \/ CheckPermission(r) \/ ReadPage(r) \/ CheckModule(r) \/ CheckWho(r)
  \/ \E x \in Roles : LoadRole(r, x) \/ StoreRole(r, x)

Next == Tick \/ \E r \in Requests : Begin(r) \/ Step(r) \/ Crash(r)

Spec == Init /\ [][Next]_vars
-----------------------------------------------------------------------------
(* Every permission that a route asks for is offered to the administrator  *)
(* of roles and accepted for a role: the decorators of the controllers,    *)
(* the page registry and the schema of a role are three lists that nothing *)
(* but this compares.  One is not: the approval of a quote, which the      *)
(* registry offers and the schema refuses.                                 *)
QuoteApproval == Needs("quotes", "APPROVE", {})
EveryNeedGrantable ==
  \A r \in Requests : req[r].pc = "jwt" =>
    \A route \in AllRoutes :
      \/ route.need \in {NoNeed, QuoteApproval}
      \/ Offered(route.need) /\ CanGrant(route.need)

(* A reset link changes the password once, and not after a newer link has  *)
(* replaced it: resets that run beside each other or beside a new request. *)
OneResetPerLink ==
  \A l \in Links : link[l].claims = IF link[l].used = "reset" THEN 1 ELSE 0

(* After a reset by link the older sessions are over, and so is what they  *)
(* were refreshed to; but for sessions issued while the password changed,  *)
(* and for one life of an access token where the marker was not written to *)
(* Redis, or under that of an earlier reset, or not read from it.          *)
SessionsEndAtReset ==
  [][\A r \in Requests :
       LET t == req[r].token  u == user[t.user] IN
       /\ req[r].pc = "jwt" /\ ~req[r].route.public
       /\ req'[r].pc \in {"module", "permission"}
       => \/ t.resets = u.resets
          \/ t.raced
          \/ (u.unmarked \/ RedisFails) /\ now < u.changed + AccessTTL]_vars

(* Whoever a permission lets in was active, held the role and the role had *)
(* the permission, within the lives of the copies and of the requests.     *)
AccessEnds ==
  [][\A r \in Requests :
       LET t == req[r].token  u == user[t.user]
           past(at, ttl) == now - at <= ttl IN
       req[r].pc = "permission" /\ req'[r].pc = "module"
       => /\ u.active \/ past(u.off, AccessTTL + 1)
          /\ \E x \in t.roles :
               /\ x \in u.roles \/ past(u.moved, AccessTTL + 1)
               /\ \/ x = Admin
                  \/ /\ x \in Roles
                     /\ \/ Granted(role[x].grants, req[r].route.need)
                        \/ past(role[x].edited, CacheTTL + 1)]_vars

(* Removing a role leaves nobody without any, unless another change of     *)
(* somebody's roles ran beside it: the users are read before the           *)
(* transaction, and two removals do not see each other's deletions.        *)
LoneRemovalKeepsRoles ==
  [][\A r \in Requests : req[r].pc = "delete" /\ req[r].lone /\ user' # user
       => \A u \in Users : user[u].roles # {} => user'[u].roles # {}]_vars

(* The tenant keeps an active administrator, unless somebody acted on a    *)
(* token from before he lost the role himself.                             *)
AdminRemains == ActiveAdmins = {} => outdated

(* A call that runs alone is let onto a page only if the tenant has one of *)
(* the modules the page was last given; an assignment that was cut short   *)
(* between its two statements leaves the page open to all.                 *)
PageStaysClosed ==
  [][\A r \in Requests :
       LET p == req[r].route.page IN
       /\ req[r].pc = "who" /\ req'[r].pc = "in" /\ req[r].lone
       /\ req[r].route.modules = {} /\ p # NoPage
       => p \in torn \/ meant[p] = {} \/ meant[p] \intersect enabled # {}]_vars
=============================================================================
