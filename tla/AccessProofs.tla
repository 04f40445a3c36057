---------------------------- MODULE AccessProofs ----------------------------
(***************************************************************************)
(* Theorems about Access, for any users, roles, links, routes and offers,  *)
(* and any number of requests: the types; that a link changes a password   *)
(* once; that a reset ends the sessions from before it; that the tenant    *)
(* keeps an administrator; that a removal of a role that runs alone leaves *)
(* nobody without one; that a page stays closed to a call that runs alone; *)
(* that access ends within the lives of the copies it is decided from; and *)
(* that what any route asks for can be granted.                            *)
(***************************************************************************)
EXTENDS Access, TLAPS

Session == [user : Users, roles : SUBSET AllRoles, demo : BOOLEAN, trial : Nat,
            iat : Nat, resets : Nat, raced : BOOLEAN]
Token   == Session \union {NoSession}
Bound   == Grants \union {{}}
RoleRow == [there : BOOLEAN, grants : Bound, edited : Nat]
Load    == [grants : Bound, to_load : BOOLEAN, fill : BOOLEAN]
Loads   == UNION {[S -> Load] : S \in SUBSET Roles}
Things  == UNION {AllRoles, Users, UNION Grants, Modules, UNION {c.modules : c \in Calls}}
Pcs == {"idle", "in", "stamp", "sign", "new link", "hash", "claim", "mark", "assign",
        "activate", "insert user", "edit", "invalidate", "count", "delete", "clear page",
        "fill page", "jwt", "permission", "module", "enabled", "who"}
Request == [pc : Pcs, b : Browsers \union {None}, u : Users \union {None},
            x : Roles \union Links \union Pages \union {None}, set : SUBSET Things,
            row : UserRow \union {<<>>}, token : Token, route : Calls \union {Route},
            loads : Loads, at : Nat, since : Nat, lone : BOOLEAN, raced : BOOLEAN]

(* What a request carries at each point of its way.                        *)
Fits(q) ==
  /\ q.pc \in {"stamp", "sign"} => q.row \in UserRow /\ q.u \in Users
  /\ q.pc \in {"stamp", "hash", "claim", "mark"} => q.token = NoSession
  /\ q.pc \in {"hash", "claim", "mark", "assign", "activate", "insert user"} => q.u \in Users
  /\ q.pc \in {"assign", "insert user"} => q.set \subseteq AllRoles
  /\ q.pc \in {"edit", "invalidate", "count", "delete"} => q.x \in Roles
  /\ q.pc = "edit" => q.set \in Grants
  /\ q.pc \in {"clear page", "fill page"} => q.x \in Pages /\ q.set \subseteq Modules

RowTypes ==
  /\ now \in Nat /\ outdated \in BOOLEAN /\ offer \in Offers
  /\ user \in [Users -> UserRow]
  /\ role \in [Roles -> RoleRow]
  /\ enabled \in SUBSET Modules
  /\ pages \in [Pages -> SUBSET Modules] /\ meant \in [Pages -> SUBSET Modules]
  /\ torn \in SUBSET Pages
  /\ link \in [Links -> LinkRow]
  /\ marker \in [Users -> [at : Nat, until : Nat]]
  /\ cache \in [Roles -> [grants : Bound, until : Nat]]
  /\ browser \in [Browsers -> Token]

RequestTypes ==
  /\ begun \in Nat
  /\ req \in [Requests -> Request]
  /\ \A r \in Requests : Fits(req[r])

TypeOK == RowTypes /\ RequestTypes

(* A session is from after the last reset of its user, or was issued while *)
(* it committed, or bears an earlier time.                                 *)
Live(t) ==
  t # NoSession => \/ t.resets = user[t.user].resets
                   \/ t.raced
                   \/ t.iat < user[t.user].changed

(* What is signed is such a session: no reset has come between, or it has  *)
(* left its trace.                                                         *)
Signable(q) ==
  \/ q.raced
  \/ q.token = NoSession /\ q.row.resets = user[q.u].resets
  \/ /\ q.token # NoSession /\ q.token.user = q.u
     /\ q.token.raced \/ q.token.resets = user[q.u].resets

(* What a request knows while others act.                                  *)
Knows(q) ==
  /\ Live(q.token)
  /\ q.pc \in {"stamp", "sign"} => Signable(q)
  /\ q.pc \in {"claim", "mark"} => q.at <= now
  /\ q.pc \in {"assign", "activate"} => q.u # q.token.user
  /\ q.pc = "insert user" => ~user[q.u].there

Known == \A r \in Requests : Knows(req[r])

\* No two requests create one user.
Inserts == \A r, o \in Requests :
             r # o /\ req[r].pc = "insert user" /\ req[o].pc = "insert user"
               => req[r].u # req[o].u

Sessions == \A b \in Browsers : Live(browser[b])

(* A mark that is the last reset's outlives the tokens from before it.     *)
Marks == \A u \in Users :
           \/ user[u].unmarked
           \/ user[u].changed = 0
           \/ /\ marker[u].at = user[u].changed
              /\ marker[u].until >= user[u].changed + MarkerTTL

AccessInv ==
  /\ Known /\ Inserts /\ Sessions /\ Marks
  /\ OneResetPerLink /\ AdminRemains
-----------------------------------------------------------------------------
LEMMA IdleIsRequest ==
  /\ <<>> \in Loads /\ {} \in Bound
  /\ \A pc \in {"idle", "in"} : /\ [Idle EXCEPT !.pc = pc] \in Request
                                /\ Fits([Idle EXCEPT !.pc = pc])
  /\ Idle \in Request /\ Fits(Idle) /\ Idle.token = NoSession
<1>1. <<>> \in Loads
  <2>1. <<>> \in [{} -> Load]
    OBVIOUS
  <2> QED
    BY <2>1 DEF Loads
<1>2. Idle \in Request /\ Fits(Idle)
  BY <1>1 DEF Idle, Request, Fits, Token, Pcs
<1>3. \A pc \in {"idle", "in"} : [Idle EXCEPT !.pc = pc] \in Request
  BY <1>2 DEF Request, Pcs
<1>4. \A pc \in {"idle", "in"} : Fits([Idle EXCEPT !.pc = pc])
  BY <1>2 DEF Request, Fits
<1>5. {} \in Bound
  BY DEF Bound
<1>6. Idle.token = NoSession
  BY DEF Idle
<1> QED
  BY <1>1, <1>2, <1>3, <1>4, <1>5, <1>6

\* The fields that a request is about, all but who else is under way.
Same(p, q) ==
  /\ p.pc = q.pc /\ p.b = q.b /\ p.u = q.u /\ p.x = q.x /\ p.set = q.set
  /\ p.row = q.row /\ p.token = q.token /\ p.route = q.route /\ p.loads = q.loads
  /\ p.at = q.at /\ p.raced = q.raced

(* The request r comes to new, and no other to anything.                   *)
Turn(r, new) ==
  /\ RequestTypes'
  /\ Same(req'[r], new)
  /\ \A o \in Requests \ {r} : Same(req'[o], req[o])

(* A request that arrives changes nothing but itself and who is alone.     *)
LEMMA EnterTurns ==
  ASSUME TypeOK, NEW r \in Requests, NEW new \in Request, Fits(new), Enter(r, new)
  PROVE  Turn(r, new)
<1>1. now \in Nat /\ \A o \in Requests : req[o] \in Request /\ Fits(req[o])
  BY DEF TypeOK, RowTypes, RequestTypes
<1>2. ASSUME NEW o \in Requests \ {r}
      PROVE  req'[o] \in Request /\ Same(req'[o], req[o])
  <2>1. CASE req'[o] = req[o]
    BY <1>1, <2>1 DEF Same
  <2>2. CASE req'[o] = [req[o] EXCEPT !.lone = FALSE]
    BY <1>1, <2>2 DEF Request, Same
  <2> QED
    BY <2>1, <2>2 DEF Enter
<1>3. req'[r] \in Request /\ Same(req'[r], new)
  <2>1. PICK alone \in BOOLEAN : req'[r] = [new EXCEPT !.since = now, !.lone = alone]
    BY DEF Enter
  <2> QED
    BY <1>1, <2>1 DEF Request, Same
<1>4. \A o \in Requests : Fits(req'[o])
  <2>1. ASSUME NEW p, NEW q, Same(p, q), Fits(q)
        PROVE  Fits(p)
    BY <2>1 DEF Same, Fits
  <2> QED
    BY <1>1, <1>2, <1>3, <2>1, Zenon
<1>5. req' \in [Requests -> Request]
  <2>1. req' = [o \in Requests |-> req'[o]]
    BY DEF Enter
  <2>2. \A o \in Requests : req'[o] \in Request
    BY <1>2, <1>3
  <2> QED
    BY <2>1, <2>2
<1>6. begun' \in Nat
  <2>1. begun \in Nat
    BY DEF TypeOK, RequestTypes
  <2>2. begun' = begun + 1
    BY DEF Enter
  <2> QED
    BY <2>1, <2>2
<1> QED
  BY <1>2, <1>3, <1>4, <1>5, <1>6 DEF Turn, RequestTypes

(* A step of a request that is under way changes that request alone.       *)
LEMMA StepTurns ==
  ASSUME TypeOK, NEW r \in Requests, NEW new \in Request, Fits(new),
         req' = [req EXCEPT ![r] = new], begun' = begun
  PROVE  Turn(r, new)
<1>1. req \in [Requests -> Request] /\ begun \in Nat /\ \A o \in Requests : Fits(req[o])
  BY DEF TypeOK, RequestTypes
<1>2. req' \in [Requests -> Request]
  BY <1>1
<1>3. req'[r] = new /\ \A o \in Requests \ {r} : req'[o] = req[o]
  BY <1>1
<1>4. \A q : Same(q, q)
  BY DEF Same
<1> QED
  BY <1>1, <1>2, <1>3, <1>4 DEF Turn, RequestTypes

LEMMA AnswerTurns ==
  ASSUME TypeOK, NEW r \in Requests, NEW pc \in {"idle", "in"}, Goto(r, pc)
  PROVE  Turn(r, [Idle EXCEPT !.pc = pc])
<1>1. req' = [req EXCEPT ![r] = [Idle EXCEPT !.pc = pc]] /\ begun' = begun
  BY DEF Goto
<1>2. [Idle EXCEPT !.pc = pc] \in Request /\ Fits([Idle EXCEPT !.pc = pc])
  BY IdleIsRequest
<1> QED
  BY <1>1, <1>2, StepTurns

LEMMA GotoTurns ==
  ASSUME TypeOK, NEW r \in Requests, NEW pc \in Pcs \ {"idle", "in"}, Goto(r, pc),
         Fits([req[r] EXCEPT !.pc = pc])
  PROVE  Turn(r, [req[r] EXCEPT !.pc = pc])
<1>1. req \in [Requests -> Request]
  BY DEF TypeOK, RequestTypes
<1>2. req' = [req EXCEPT ![r] = [req[r] EXCEPT !.pc = pc]] /\ begun' = begun
  BY <1>1 DEF Goto
<1>3. [req[r] EXCEPT !.pc = pc] \in Request
  <2>1. req[r] \in Request
    BY <1>1
  <2> QED
    BY <2>1 DEF Request
<1> QED
  BY <1>2, <1>3, StepTurns
-----------------------------------------------------------------------------
(* What the requests that do not act, and the rest, keep knowing.          *)
RowsKept ==
  /\ now' \in Nat /\ now <= now'
  /\ \A u \in Users : user'[u].resets = user[u].resets /\ user'[u].changed = user[u].changed

LEMMA Order == /\ \A i, j, k \in Nat : i <= j /\ j <= k => i <= k
               /\ \A i \in Nat : i <= i
  OBVIOUS

LEMMA LiveKept ==
  ASSUME TypeOK, RowsKept, NEW t \in Token, Live(t)
  PROVE  t # NoSession => \/ t.resets = user'[t.user].resets
                          \/ t.raced
                          \/ t.iat < user'[t.user].changed
<1>1. t # NoSession => t.user \in Users
  BY DEF Token, Session
<1> QED
  BY <1>1 DEF Live, RowsKept

LEMMA OthersKnow ==
  ASSUME TypeOK, RowsKept, NEW o \in Requests, Knows(req[o]), Same(req'[o], req[o]),
         req[o].pc = "insert user" => user'[req[o].u].there = user[req[o].u].there
  PROVE  Knows(req[o])'
<1>1. req[o] \in Request /\ Fits(req[o])
  BY DEF TypeOK, RequestTypes
<1>2. /\ req'[o].pc = req[o].pc /\ req'[o].u = req[o].u /\ req'[o].row = req[o].row
      /\ req'[o].token = req[o].token /\ req'[o].at = req[o].at
      /\ req'[o].raced = req[o].raced
  BY DEF Same
<1>3. Live(req[o].token)'
  <2>1. req[o].token \in Token /\ Live(req[o].token)
    BY <1>1 DEF Knows, Request
  <2>2. req[o].token # NoSession =>
          \/ req[o].token.resets = user'[req[o].token.user].resets
          \/ req[o].token.raced
          \/ req[o].token.iat < user'[req[o].token.user].changed
    BY <2>1, LiveKept
  <2> QED
    BY <1>2, <2>2 DEF Live
<1>4. (req[o].pc \in {"stamp", "sign"} => Signable(req[o]))'
  <2>1. req[o].pc \in {"stamp", "sign"} =>
          req[o].u \in Users /\ user'[req[o].u].resets = user[req[o].u].resets
    BY <1>1 DEF Fits, RowsKept
  <2>2. req[o].pc \in {"stamp", "sign"} => Signable(req[o])
    BY DEF Knows
  <2> QED
    BY <1>2, <2>1, <2>2 DEF Signable
<1>5. (req[o].pc \in {"claim", "mark"} => req[o].at <= now)'
  <2>1. req[o].at \in Nat /\ now \in Nat /\ now' \in Nat /\ now <= now'
    <3>1. req[o].at \in Nat
      BY <1>1 DEF Request
    <3>2. now \in Nat
      BY DEF TypeOK, RowTypes
    <3> QED
      BY <3>1, <3>2 DEF RowsKept
  <2>2. req[o].pc \in {"claim", "mark"} => req[o].at <= now
    BY DEF Knows
  <2>3. req[o].pc \in {"claim", "mark"} => req[o].at <= now'
    BY <2>1, <2>2, Order
  <2> QED
    BY <1>2, <2>3, Zenon
<1>6. (req[o].pc \in {"assign", "activate"} => req[o].u # req[o].token.user)'
  BY <1>2 DEF Knows
<1>7. (req[o].pc = "insert user" => ~user[req[o].u].there)'
  BY <1>2 DEF Knows
<1> QED
  BY <1>3, <1>4, <1>5, <1>6, <1>7 DEF Knows

(* A turn after which the rows are as they should be.                      *)
LEMMA TurnKnown ==
  ASSUME TypeOK, AccessInv, NEW r \in Requests, NEW new, Turn(r, new), RowsKept,
         \A o \in Requests \ {r} : req[o].pc = "insert user" =>
            /\ user'[req[o].u].there = user[req[o].u].there
            /\ new.pc = "insert user" => req[o].u # new.u,
         Knows(req[r])'
  PROVE  RequestTypes' /\ Known' /\ Inserts'
<1>1. /\ Same(req'[r], new) /\ RequestTypes'
      /\ \A o \in Requests \ {r} : Same(req'[o], req[o])
  BY DEF Turn
<1>2. \A o \in Requests \ {r} : Knows(req[o])'
  BY <1>1, OthersKnow DEF AccessInv, Known
<1>3. Known'
  BY <1>2 DEF Known
<1>4. req'[r].pc = new.pc /\ req'[r].u = new.u
      /\ \A o \in Requests \ {r} : req'[o].pc = req[o].pc /\ req'[o].u = req[o].u
  BY <1>1 DEF Same
<1>5. Inserts'
  <2> SUFFICES ASSUME NEW i \in Requests, NEW o \in Requests, i # o,
                      req'[i].pc = "insert user", req'[o].pc = "insert user"
               PROVE  req'[i].u # req'[o].u
    BY DEF Inserts
  <2>1. CASE i # r /\ o # r
    <3>1. req[i].pc = "insert user" /\ req'[i].u = req[i].u
      BY <1>4, <2>1
    <3>2. req[o].pc = "insert user" /\ req'[o].u = req[o].u
      BY <1>4, <2>1
    <3>3. Inserts
      BY DEF AccessInv
    <3>4. req[i].u # req[o].u
      BY <3>1, <3>2, <3>3, Zenon DEF Inserts
    <3> QED
      BY <3>1, <3>2, <3>4
  <2>2. CASE i = r \/ o = r
    BY <1>4, <2>2
  <2> QED
    BY <2>1, <2>2
<1> QED
  BY <1>1, <1>3, <1>5

(* What has no knowledge that another could disturb.                       *)
Plain == {"idle", "in", "jwt", "permission", "module", "enabled", "who", "new link",
          "edit", "invalidate", "count", "delete", "clear page", "fill page"}

LEMMA PlainKnown ==
  ASSUME TypeOK, AccessInv, NEW r \in Requests, NEW new, Turn(r, new), RowsKept,
         \A o \in Requests \ {r} : req[o].pc = "insert user" =>
            user'[req[o].u].there = user[req[o].u].there,
         new.pc \in Plain, new.token \in Token, Live(new.token)
  PROVE  RequestTypes' /\ Known' /\ Inserts'
<1>1. req'[r].pc = new.pc /\ req'[r].token = new.token
  BY DEF Turn, Same
<1>2. Live(req[r].token)'
  <2>1. new.token # NoSession => \/ new.token.resets = user'[new.token.user].resets
                                \/ new.token.raced
                                \/ new.token.iat < user'[new.token.user].changed
    BY LiveKept
  <2> QED
    BY <1>1, <2>1 DEF Live
<1>3. Knows(req[r])'
  BY <1>1, <1>2 DEF Knows, Plain
<1>4. new.pc # "insert user"
  BY DEF Plain
<1> QED
  BY <1>3, <1>4, TurnKnown

(* A turn that leaves users, links, marks and cookies as they are.         *)
LEMMA TurnKeeps ==
  ASSUME TypeOK, AccessInv, NEW r \in Requests, NEW new, Turn(r, new), RowTypes',
         UNCHANGED <<now, user, link, marker, browser, outdated>>,
         Knows(new),
         new.pc = "insert user" => \A o \in Requests \ {r} :
            req[o].pc = "insert user" => req[o].u # new.u
  PROVE  TypeOK' /\ AccessInv'
<1>1. RowsKept
  <2>1. now \in Nat
    BY DEF TypeOK, RowTypes
  <2> QED
    BY <2>1, Order DEF RowsKept
<1>2. Knows(req[r])'
  <2>1. /\ req'[r].pc = new.pc /\ req'[r].u = new.u /\ req'[r].row = new.row
        /\ req'[r].token = new.token /\ req'[r].at = new.at /\ req'[r].raced = new.raced
    BY DEF Turn, Same
  <2> QED
    BY <2>1 DEF Knows, Live, Signable
<1>3. RequestTypes' /\ Known' /\ Inserts'
  BY <1>1, <1>2, TurnKnown
<1>4. Sessions' /\ Marks' /\ OneResetPerLink' /\ AdminRemains'
  BY DEF AccessInv, Sessions, Live, Marks, OneResetPerLink, AdminRemains, ActiveAdmins
<1> QED
  BY <1>3, <1>4 DEF TypeOK, AccessInv
-----------------------------------------------------------------------------
(* Requests that arrive.                                                   *)
LEMMA UserRows == ASSUME TypeOK, NEW u \in Users PROVE user[u] \in UserRow
  BY DEF TypeOK, RowTypes

LEMMA BrowserTokens ==
  ASSUME TypeOK, AccessInv, NEW b \in Browsers
  PROVE  /\ browser[b] \in Token /\ Live(browser[b])
         /\ browser[b] # NoSession =>
              /\ browser[b] \in Session /\ browser[b].user \in Users
              /\ browser[b].roles \subseteq AllRoles
  BY DEF TypeOK, RowTypes, AccessInv, Sessions, Token, Session

(* A request that changes nothing yet.                                     *)
LEMMA EnterKeeps ==
  ASSUME TypeOK, AccessInv, NEW r \in Requests, NEW new \in Request, Fits(new), Enter(r, new),
         UNCHANGED <<now, user, role, tenant, link, redis, browser, offer, outdated>>,
         Knows(new),
         new.pc = "insert user" => \A o \in Requests \ {r} :
            req[o].pc = "insert user" => req[o].u # new.u
  PROVE  TypeOK' /\ AccessInv'
<1>1. Turn(r, new)
  BY EnterTurns
<1>2. RowTypes'
  BY DEF TypeOK, RowTypes, tenant, redis
<1> QED
  BY <1>1, <1>2, TurnKeeps DEF redis

LEMMA LoginKeeps ==
  ASSUME TypeOK, AccessInv, NEW r \in Requests, NEW b \in Browsers, NEW u \in Users,
         BeginLogin(r, b, u)
  PROVE  TypeOK' /\ AccessInv'
<1> DEFINE new == [Idle EXCEPT !.pc = "stamp", !.b = b, !.u = u, !.row = user[u]]
<1>1. /\ new \in Request
      /\ new.pc = "stamp" /\ new.u = u /\ new.row = user[u] /\ new.token = NoSession
  <2>1. new \in Request
    BY UserRows, IdleIsRequest DEF Request, Pcs
  <2>2. new.pc = "stamp" /\ new.u = u /\ new.row = user[u] /\ new.token = Idle.token
    BY IdleIsRequest DEF Request
  <2> QED
    BY <2>1, <2>2, IdleIsRequest
<1>2. Fits(new)
  BY <1>1, UserRows DEF Fits
<1>3. Knows(new)
  BY <1>1 DEF Knows, Live, Signable
<1>4. Enter(r, new) /\ UNCHANGED <<now, user, role, tenant, link, redis, browser, offer, outdated>>
  BY DEF BeginLogin
<1> HIDE DEF new
<1> QED
  BY <1>1, <1>2, <1>3, <1>4, EnterKeeps

LEMMA RefreshKeeps ==
  ASSUME TypeOK, AccessInv, NEW r \in Requests, NEW b \in Browsers, BeginRefresh(r, b)
  PROVE  TypeOK' /\ AccessInv'
<1> DEFINE t == browser[b]
           new == [Idle EXCEPT !.pc = "sign", !.b = b, !.u = t.user, !.row = user[t.user],
                               !.token = t]
<1>1. t \in Token /\ Live(t) /\ t # NoSession /\ t \in Session /\ t.user \in Users
  BY BrowserTokens DEF BeginRefresh
<1>2. /\ new \in Request
      /\ new.pc = "sign" /\ new.u = t.user /\ new.row = user[t.user] /\ new.token = t
  <2>1. new \in Request
    BY <1>1, UserRows, IdleIsRequest DEF Request, Pcs
  <2>2. new.pc = "sign" /\ new.u = t.user /\ new.row = user[t.user] /\ new.token = t
    BY IdleIsRequest DEF Request
  <2> QED
    BY <2>1, <2>2
<1>3. Fits(new)
  BY <1>1, <1>2, UserRows DEF Fits
<1>4. t.raced \/ t.resets = user[t.user].resets
  <2>1. ~(t.iat < user[t.user].changed)
    BY DEF BeginRefresh, IssuedBefore
  <2> QED
    BY <1>1, <2>1 DEF Live
<1>5. Knows(new)
  BY <1>1, <1>2, <1>4 DEF Knows, Signable
<1>6. Enter(r, new) /\ UNCHANGED <<now, user, role, tenant, link, redis, browser, offer, outdated>>
  BY DEF BeginRefresh
<1>7. new.pc # "insert user"
  BY <1>2
<1> HIDE DEF new
<1> QED
  BY <1>2, <1>3, <1>5, <1>6, <1>7, EnterKeeps

LEMMA ResetBegins ==
  ASSUME TypeOK, AccessInv, NEW r \in Requests
  PROVE  /\ \A u \in Users : BeginForgot(r, u) => TypeOK' /\ AccessInv'
         /\ \A l \in Links : BeginReset(r, l) => TypeOK' /\ AccessInv'
<1>1. ASSUME NEW u \in Users, BeginForgot(r, u)
      PROVE  TypeOK' /\ AccessInv'
  <2> DEFINE new == [Idle EXCEPT !.pc = "new link", !.u = u]
  <2>1. new \in Request /\ new.pc = "new link" /\ new.token = NoSession
    <3>1. new \in Request
      BY IdleIsRequest DEF Request, Pcs
    <3>2. new.pc = "new link" /\ new.token = Idle.token
      BY IdleIsRequest DEF Request
    <3> QED
      BY <3>1, <3>2, IdleIsRequest
  <2>2. Fits(new) /\ Knows(new)
    BY <2>1 DEF Fits, Knows, Live
  <2>3. Enter(r, new) /\ UNCHANGED <<now, user, role, tenant, link, redis, browser, offer, outdated>>
    BY <1>1 DEF BeginForgot
  <2> HIDE DEF new
  <2> QED
    BY <2>1, <2>2, <2>3, EnterKeeps
<1>2. ASSUME NEW l \in Links, BeginReset(r, l)
      PROVE  TypeOK' /\ AccessInv'
  <2> DEFINE new == [Idle EXCEPT !.pc = "hash", !.u = link[l].user, !.x = l]
  <2>1. link[l].user \in Users
    BY <1>2 DEF TypeOK, RowTypes, LinkRow, BeginReset
  <2>2. new \in Request /\ new.pc = "hash" /\ new.token = NoSession /\ new.u = link[l].user
    <3>1. new \in Request
      BY <2>1, IdleIsRequest DEF Request, Pcs
    <3>2. new.pc = "hash" /\ new.token = Idle.token /\ new.u = link[l].user
      BY IdleIsRequest DEF Request
    <3> QED
      BY <3>1, <3>2, IdleIsRequest
  <2>3. Fits(new) /\ Knows(new)
    BY <2>1, <2>2 DEF Fits, Knows, Live
  <2>4. Enter(r, new) /\ UNCHANGED <<now, user, role, tenant, link, redis, browser, offer, outdated>>
    BY <1>2 DEF BeginReset
  <2> HIDE DEF new
  <2> QED
    BY <2>2, <2>3, <2>4, EnterKeeps
<1> QED
  BY <1>1, <1>2

(* What an administrator begins.                                           *)
LEMMA ActKeeps ==
  ASSUME TypeOK, AccessInv, NEW r \in Requests, NEW b \in Browsers, NEW new \in Request,
         Fits(new), new.pc \in {"assign", "activate", "insert user", "edit", "count"},
         BeginAct(r, b, new),
         new.pc \in {"assign", "activate"} => new.u # browser[b].user,
         new.pc = "insert user" =>
            /\ ~user[new.u].there
            /\ \A o \in Requests \ {r} : req[o].pc = "insert user" => req[o].u # new.u
  PROVE  TypeOK' /\ AccessInv'
<1> DEFINE act == [new EXCEPT !.b = b, !.token = browser[b]]
<1>1. browser[b] \in Token /\ Live(browser[b])
  BY BrowserTokens
<1>2. act \in Request
  BY <1>1 DEF Request
<1>3. /\ act.pc = new.pc /\ act.u = new.u /\ act.x = new.x /\ act.set = new.set
      /\ act.token = browser[b]
  BY DEF Request
<1>4. Fits(act)
  BY <1>3 DEF Fits
<1>5. Knows(act)
  BY <1>1, <1>3 DEF Knows
<1>6. Enter(r, act) /\ UNCHANGED <<now, user, role, tenant, link, redis, browser, offer, outdated>>
  BY DEF BeginAct
<1> HIDE DEF act
<1> QED
  BY <1>2, <1>3, <1>4, <1>5, <1>6, EnterKeeps

LEMMA AdminBegins ==
  ASSUME TypeOK, AccessInv, NEW r \in Requests, NEW b \in Browsers
  PROVE  /\ \A u \in Users, roles \in {{x} : x \in AllRoles} :
              BeginAssign(r, b, u, roles) \/ BeginCreateUser(r, b, u, roles)
                => TypeOK' /\ AccessInv'
         /\ \A u \in Users, on \in BOOLEAN : BeginActivate(r, b, u, on) => TypeOK' /\ AccessInv'
         /\ \A x \in Roles, g \in Grants : BeginEdit(r, b, x, g) => TypeOK' /\ AccessInv'
         /\ \A x \in Roles : BeginRemove(r, b, x) => TypeOK' /\ AccessInv'
<1>1. ASSUME NEW u \in Users, NEW roles \in {{x} : x \in AllRoles}, BeginAssign(r, b, u, roles)
      PROVE  TypeOK' /\ AccessInv'
  <2> DEFINE new == [Idle EXCEPT !.pc = "assign", !.u = u, !.set = roles]
  <2>1. roles \subseteq AllRoles /\ roles \in SUBSET Things
    BY DEF Things
  <2>2. new \in Request
    BY <2>1, IdleIsRequest DEF Request, Pcs
  <2>3. new.pc = "assign" /\ new.u = u /\ new.set = roles
    BY IdleIsRequest DEF Request
  <2>4. Fits(new)
    BY <2>1, <2>3 DEF Fits
  <2>5. BeginAct(r, b, new) /\ u # browser[b].user
    BY <1>1 DEF BeginAssign
  <2> HIDE DEF new
  <2> QED
    BY <2>2, <2>3, <2>4, <2>5, ActKeeps
<1>2. ASSUME NEW u \in Users, NEW roles \in {{x} : x \in AllRoles},
             BeginCreateUser(r, b, u, roles)
      PROVE  TypeOK' /\ AccessInv'
  <2> DEFINE new == [Idle EXCEPT !.pc = "insert user", !.u = u, !.set = roles]
  <2>1. roles \subseteq AllRoles /\ roles \in SUBSET Things
    BY DEF Things
  <2>2. new \in Request
    BY <2>1, IdleIsRequest DEF Request, Pcs
  <2>3. new.pc = "insert user" /\ new.u = u /\ new.set = roles
    BY IdleIsRequest DEF Request
  <2>4. Fits(new)
    BY <2>1, <2>3 DEF Fits
  <2>5. BeginAct(r, b, new) /\ ~user[u].there
    BY <1>2 DEF BeginCreateUser
  <2>6. \A o \in Requests \ {r} : req[o].pc = "insert user" => req[o].u # u
    BY <1>2 DEF BeginCreateUser, Open
  <2> HIDE DEF new
  <2> QED
    BY <2>2, <2>3, <2>4, <2>5, <2>6, ActKeeps
<1>3. ASSUME NEW u \in Users, NEW on \in BOOLEAN, BeginActivate(r, b, u, on)
      PROVE  TypeOK' /\ AccessInv'
  <2> DEFINE set == IF on THEN {u} ELSE {}
             new == [Idle EXCEPT !.pc = "activate", !.u = u, !.set = set]
  <2>1. set \in SUBSET Things
    BY DEF Things
  <2> HIDE DEF set
  <2>2. new \in Request
    BY <2>1, IdleIsRequest DEF Request, Pcs
  <2>3. new.pc = "activate" /\ new.u = u
    BY IdleIsRequest DEF Request
  <2>4. Fits(new)
    BY <2>3 DEF Fits
  <2>5. BeginAct(r, b, new) /\ u # browser[b].user
    BY <1>3 DEF BeginActivate, set
  <2> HIDE DEF new
  <2> QED
    BY <2>2, <2>3, <2>4, <2>5, ActKeeps
<1>4. ASSUME NEW x \in Roles, NEW g \in Grants, BeginEdit(r, b, x, g)
      PROVE  TypeOK' /\ AccessInv'
  <2> DEFINE new == [Idle EXCEPT !.pc = "edit", !.x = x, !.set = g]
  <2>1. g \in SUBSET Things
    BY DEF Things
  <2>2. new \in Request
    BY <2>1, IdleIsRequest DEF Request, Pcs
  <2>3. new.pc = "edit" /\ new.x = x /\ new.set = g
    BY IdleIsRequest DEF Request
  <2>4. Fits(new)
    BY <2>3 DEF Fits
  <2>5. BeginAct(r, b, new)
    BY <1>4 DEF BeginEdit
  <2> HIDE DEF new
  <2> QED
    BY <2>2, <2>3, <2>4, <2>5, ActKeeps
<1>5. ASSUME NEW x \in Roles, BeginRemove(r, b, x)
      PROVE  TypeOK' /\ AccessInv'
  <2> DEFINE holders == {u \in Users : x \in user[u].roles}
             new == [Idle EXCEPT !.pc = "count", !.x = x, !.set = holders]
  <2>1. holders \in SUBSET Things
    BY DEF Things
  <2>2. new \in Request
    BY <2>1, IdleIsRequest DEF Request, Pcs
  <2>3. new.pc = "count" /\ new.x = x
    BY IdleIsRequest DEF Request
  <2>4. Fits(new)
    BY <2>3 DEF Fits
  <2>5. BeginAct(r, b, new)
    BY <1>5 DEF BeginRemove
  <2> HIDE DEF new
  <2> QED
    BY <2>2, <2>3, <2>4, <2>5, ActKeeps
<1> QED
  BY <1>1, <1>2, <1>3, <1>4, <1>5

LEMMA OtherBegins ==
  ASSUME TypeOK, AccessInv, NEW r \in Requests
  PROVE  /\ \A u \in Users : BeginDemo(r, u) => TypeOK' /\ AccessInv'
         /\ \A p \in Pages, ms \in SUBSET Modules : BeginPages(r, p, ms) => TypeOK' /\ AccessInv'
         /\ \A b \in Browsers, route \in offer.calls :
              BeginCall(r, b, route) => TypeOK' /\ AccessInv'
<1>1. ASSUME NEW u \in Users, BeginDemo(r, u)
      PROVE  TypeOK' /\ AccessInv'
  <2> DEFINE new == [Idle EXCEPT !.pc = "insert user", !.u = u, !.set = {Admin}]
  <2>1. {Admin} \subseteq AllRoles /\ {Admin} \in SUBSET Things
    <3>1. Admin \in AllRoles
      BY DEF AllRoles
    <3> QED
      BY <3>1 DEF Things
  <2>2. new \in Request
    BY <2>1, IdleIsRequest DEF Request, Pcs
  <2>3. new.pc = "insert user" /\ new.u = u /\ new.set = {Admin} /\ new.token = Idle.token
    BY IdleIsRequest DEF Request
  <2>4. Fits(new)
    BY <2>1, <2>3 DEF Fits
  <2>5. ~user[u].there /\ \A o \in Requests \ {r} : req[o].pc = "insert user" => req[o].u # u
    BY <1>1 DEF BeginDemo, Open
  <2>6. Knows(new)
    BY <2>3, <2>5, IdleIsRequest DEF Knows, Live
  <2>7. Enter(r, new) /\ UNCHANGED <<now, user, role, tenant, link, redis, browser, offer, outdated>>
    BY <1>1 DEF BeginDemo
  <2> HIDE DEF new
  <2> QED
    BY <2>2, <2>3, <2>4, <2>5, <2>6, <2>7, EnterKeeps
<1>2. ASSUME NEW p \in Pages, NEW ms \in SUBSET Modules, BeginPages(r, p, ms)
      PROVE  TypeOK' /\ AccessInv'
  <2> DEFINE new == [Idle EXCEPT !.pc = "clear page", !.x = p, !.set = ms]
  <2>1. ms \in SUBSET Things
    BY DEF Things
  <2>2. new \in Request
    BY <2>1, IdleIsRequest DEF Request, Pcs
  <2>3. new.pc = "clear page" /\ new.x = p /\ new.set = ms /\ new.token = Idle.token
    BY IdleIsRequest DEF Request
  <2>4. Fits(new) /\ Knows(new)
    BY <2>3, IdleIsRequest DEF Fits, Knows, Live
  <2>5. Enter(r, new) /\ UNCHANGED <<now, user, role, tenant, link, redis, browser, offer, outdated>>
    BY <1>2 DEF BeginPages
  <2> HIDE DEF new
  <2> QED
    BY <2>2, <2>3, <2>4, <2>5, EnterKeeps
<1>3. ASSUME NEW b \in Browsers, NEW route \in offer.calls, BeginCall(r, b, route)
      PROVE  TypeOK' /\ AccessInv'
  <2> DEFINE loads == [x \in browser[b].roles \intersect Roles |-> ToLoad]
             new == [Idle EXCEPT !.pc = "jwt", !.b = b, !.token = browser[b], !.route = route,
                                 !.loads = loads]
  <2>1. browser[b] \in Token /\ Live(browser[b])
    BY BrowserTokens
  <2>2. loads \in Loads
    <3>1. ToLoad \in Load
      BY IdleIsRequest DEF ToLoad, Load
    <3>2. loads \in [browser[b].roles \intersect Roles -> Load]
      BY <3>1
    <3> QED
      BY <3>2 DEF Loads
  <2>3. route \in Calls
    BY DEF TypeOK, RowTypes, Calls
  <2> HIDE DEF loads
  <2>4. new \in Request
    BY <2>1, <2>2, <2>3, IdleIsRequest DEF Request, Pcs
  <2>5. new.pc = "jwt" /\ new.token = browser[b]
    BY IdleIsRequest DEF Request
  <2>6. Fits(new) /\ Knows(new)
    BY <2>1, <2>5 DEF Fits, Knows
  <2>7. Enter(r, new) /\ UNCHANGED <<now, user, role, tenant, link, redis, browser, offer, outdated>>
    BY <1>3 DEF BeginCall, loads
  <2> HIDE DEF new
  <2> QED
    BY <2>4, <2>5, <2>6, <2>7, EnterKeeps
<1> QED
  BY <1>1, <1>2, <1>3
-----------------------------------------------------------------------------
(* Steps that leave users, links, marks and cookies as they are.           *)
LEMMA RequestOf ==
  ASSUME TypeOK, AccessInv, NEW r \in Requests
  PROVE  /\ req[r] \in Request /\ Fits(req[r]) /\ Knows(req[r])
         /\ req[r].token \in Token /\ Live(req[r].token)
  BY DEF TypeOK, RequestTypes, AccessInv, Known, Knows, Request

LEMMA GotoKeeps ==
  ASSUME TypeOK, AccessInv, NEW r \in Requests, NEW pc \in Plain, Goto(r, pc),
         pc \in {"edit", "invalidate", "count", "delete"} => req[r].x \in Roles,
         pc = "edit" => req[r].set \in Grants,
         pc \in {"clear page", "fill page"} => req[r].x \in Pages /\ req[r].set \subseteq Modules,
         RowTypes', UNCHANGED <<now, user, link, marker, browser, outdated>>
  PROVE  TypeOK' /\ AccessInv'
<1>1. CASE pc \in {"idle", "in"}
  <2> DEFINE new == [Idle EXCEPT !.pc = pc]
  <2>1. new.pc = pc /\ new.token = Idle.token
    BY IdleIsRequest DEF Request
  <2>2. Turn(r, new)
    BY <1>1, AnswerTurns
  <2>3. Knows(new)
    BY <1>1, <2>1, IdleIsRequest DEF Knows, Live
  <2>4. new.pc # "insert user"
    BY <1>1, <2>1
  <2> HIDE DEF new
  <2> QED
    BY <2>2, <2>3, <2>4, TurnKeeps
<1>2. CASE pc \notin {"idle", "in"}
  <2> DEFINE new == [req[r] EXCEPT !.pc = pc]
  <2>1. /\ new.pc = pc /\ new.token = req[r].token /\ new.x = req[r].x
        /\ new.set = req[r].set
    BY RequestOf DEF Request
  <2>2. Fits(new)
    BY <2>1 DEF Fits, Plain
  <2>3. Turn(r, new)
    <3>1. pc \in Pcs \ {"idle", "in"}
      BY <1>2 DEF Plain, Pcs
    <3> QED
      BY <2>2, <3>1, GotoTurns
  <2>4. Knows(new)
    BY <2>1, RequestOf DEF Knows, Plain
  <2>5. new.pc # "insert user"
    BY <2>1 DEF Plain
  <2> HIDE DEF new
  <2> QED
    BY <2>3, <2>4, <2>5, TurnKeeps
<1> QED
  BY <1>1, <1>2

LEMMA RoleSteps ==
  ASSUME TypeOK, AccessInv, NEW r \in Requests
  PROVE  /\ Edit(r) => TypeOK' /\ AccessInv'
         /\ CountRoles(r) => TypeOK' /\ AccessInv'
         /\ Invalidate(r) => TypeOK' /\ AccessInv'
<1>1. ASSUME Edit(r) PROVE TypeOK' /\ AccessInv'
  <2> DEFINE x == req[r].x
  <2>1. x \in Roles /\ req[r].set \in Grants
    BY <1>1, RequestOf DEF Edit, Fits
  <2>2. role' \in [Roles -> RoleRow]
    <3>1. role \in [Roles -> RoleRow] /\ now \in Nat /\ req[r].set \in Bound
      BY <2>1 DEF TypeOK, RowTypes, Bound
    <3>2. CASE role[x].there
      <4>1. role' = [role EXCEPT ![x].grants = req[r].set, ![x].edited = now]
        BY <1>1, <3>2 DEF Edit
      <4> QED
        BY <2>1, <3>1, <4>1 DEF RoleRow
    <3>3. CASE ~role[x].there
      BY <1>1, <3>1, <3>3 DEF Edit
    <3> QED
      BY <3>2, <3>3
  <2>3. UNCHANGED <<now, user, tenant, link, redis, browser, offer, outdated>>
    BY <1>1 DEF Edit
  <2>4. RowTypes'
    BY <2>2, <2>3 DEF TypeOK, RowTypes, tenant, redis
  <2>5. Goto(r, "invalidate") \/ Goto(r, "idle")
    BY <1>1 DEF Edit, Answer
  <2>6. "invalidate" \in Plain /\ "idle" \in Plain
    BY DEF Plain
  <2> QED
    BY <2>1, <2>3, <2>4, <2>5, <2>6, GotoKeeps DEF redis
<1>2. ASSUME CountRoles(r) PROVE TypeOK' /\ AccessInv'
  <2> DEFINE none == {u \in req[r].set : user[u].roles \subseteq {req[r].x}}
             new == [req[r] EXCEPT !.pc = "delete", !.set = none]
  <2>1. none \in SUBSET Things
    BY RequestOf DEF Request
  <2> HIDE DEF none
  <2>2. new \in Request
    <3>1. req[r] \in Request
      BY RequestOf
    <3> QED
      BY <2>1, <3>1 DEF Request, Pcs
  <2>3. new.pc = "delete" /\ new.token = req[r].token /\ new.x = req[r].x
    BY RequestOf DEF Request
  <2>4. Fits(new)
    BY <1>2, <2>3, RequestOf DEF Fits, CountRoles
  <2>5. Knows(new)
    BY <2>3, RequestOf DEF Knows
  <2>6. req' = [req EXCEPT ![r] = new]
    BY <1>2, RequestOf DEF CountRoles, none, TypeOK, RequestTypes
  <2>7. UNCHANGED <<now, user, role, tenant, link, redis, browser, begun, offer, outdated>>
    BY <1>2 DEF CountRoles
  <2>8. RowTypes'
    BY <2>7 DEF TypeOK, RowTypes, tenant, redis
  <2> HIDE DEF new
  <2>9. Turn(r, new)
    BY <2>2, <2>4, <2>6, <2>7, StepTurns
  <2> QED
    BY <2>3, <2>5, <2>7, <2>8, <2>9, TurnKeeps DEF redis
<1>3. ASSUME Invalidate(r) PROVE TypeOK' /\ AccessInv'
  <2>1. cache' \in [Roles -> [grants : Bound, until : Nat]]
    <3>1. NoEntry \in [grants : Bound, until : Nat]
      BY IdleIsRequest DEF NoEntry
    <3> QED
      BY <1>3, <3>1 DEF Invalidate, TypeOK, RowTypes
  <2>2. UNCHANGED <<now, user, role, tenant, link, marker, browser, offer, outdated>>
    BY <1>3 DEF Invalidate
  <2>3. RowTypes'
    BY <2>1, <2>2 DEF TypeOK, RowTypes, tenant
  <2>4. Goto(r, "idle") /\ "idle" \in Plain
    BY <1>3 DEF Invalidate, Answer, Plain
  <2> QED
    BY <2>2, <2>3, <2>4, GotoKeeps
<1> QED
  BY <1>1, <1>2, <1>3

LEMMA PageSteps ==
  ASSUME TypeOK, AccessInv, NEW r \in Requests
  PROVE  /\ ClearPage(r) => TypeOK' /\ AccessInv'
         /\ FillPage(r) => TypeOK' /\ AccessInv'
<1> DEFINE p == req[r].x
<1>1. ASSUME ClearPage(r) PROVE TypeOK' /\ AccessInv'
  <2>1. p \in Pages /\ req[r].set \subseteq Modules
    BY <1>1, RequestOf DEF ClearPage, Fits
  <2>2. /\ pages' \in [Pages -> SUBSET Modules] /\ meant' \in [Pages -> SUBSET Modules]
        /\ torn' \in SUBSET Pages
    BY <1>1, <2>1 DEF ClearPage, TypeOK, RowTypes
  <2>3. UNCHANGED <<now, user, role, enabled, link, redis, browser, offer, outdated>>
    BY <1>1 DEF ClearPage
  <2>4. RowTypes'
    BY <2>2, <2>3 DEF TypeOK, RowTypes, redis
  <2>5. Goto(r, "fill page") /\ "fill page" \in Plain
    BY <1>1 DEF ClearPage, Plain
  <2> QED
    BY <2>1, <2>3, <2>4, <2>5, GotoKeeps DEF redis
<1>2. ASSUME FillPage(r) PROVE TypeOK' /\ AccessInv'
  <2>1. p \in Pages /\ req[r].set \subseteq Modules
    BY <1>2, RequestOf DEF FillPage, Fits
  <2>2. pages' \in [Pages -> SUBSET Modules]
    BY <1>2, <2>1 DEF FillPage, TypeOK, RowTypes
  <2>3. UNCHANGED <<now, user, role, enabled, meant, torn, link, redis, browser, offer, outdated>>
    BY <1>2 DEF FillPage
  <2>4. RowTypes'
    BY <2>2, <2>3 DEF TypeOK, RowTypes, redis
  <2>5. Goto(r, "idle") /\ "idle" \in Plain
    BY <1>2 DEF FillPage, Answer, Plain
  <2> QED
    BY <2>3, <2>4, <2>5, GotoKeeps DEF redis
<1> QED
  BY <1>1, <1>2

(* The guards of a call.                                                   *)
LEMMA GuardSteps ==
  ASSUME TypeOK, AccessInv, NEW r \in Requests,
         CheckToken(r) \/ CheckPermission(r) \/ CheckModule(r) \/ CheckWho(r)
  PROVE  TypeOK' /\ AccessInv'
<1>1. UNCHANGED <<now, user, role, tenant, link, redis, browser, offer, outdated>>
  BY DEF CheckToken, CheckPermission, CheckModule, CheckWho
<1>2. RowTypes'
  BY <1>1 DEF TypeOK, RowTypes, tenant, redis
<1>3. \E pc \in {"idle", "in", "module", "permission", "who"} : Goto(r, pc)
  <2>1. CASE CheckToken(r)
    BY <2>1 DEF CheckToken, AfterDemo
  <2>2. CASE CheckPermission(r)
    BY <2>2 DEF CheckPermission
  <2>3. CASE CheckModule(r)
    BY <2>3 DEF CheckModule
  <2>4. CASE CheckWho(r)
    BY <2>4 DEF CheckWho
  <2> QED
    BY <2>1, <2>2, <2>3, <2>4
<1>4. PICK pc \in {"idle", "in", "module", "permission", "who"} : Goto(r, pc)
  BY <1>3
<1>5. pc \in Plain
  BY DEF Plain
<1> QED
  BY <1>1, <1>2, <1>4, <1>5, GotoKeeps DEF redis

(* A step of a call that sets only what the call has read.                 *)
LEMMA ReadKeeps ==
  ASSUME TypeOK, AccessInv, NEW r \in Requests, NEW new \in Request,
         req' = [req EXCEPT ![r] = new], begun' = begun,
         new.pc \in {"permission", "who", "enabled"}, new.token = req[r].token,
         RowTypes', UNCHANGED <<now, user, link, marker, browser, outdated>>
  PROVE  TypeOK' /\ AccessInv'
<1>1. Fits(new)
  BY DEF Fits
<1>2. Knows(new)
  BY RequestOf DEF Knows
<1>3. Turn(r, new)
  BY <1>1, StepTurns
<1>4. new.pc # "insert user"
  OBVIOUS
<1> QED
  BY <1>2, <1>3, <1>4, TurnKeeps

LEMMA LoadsKeep ==
  ASSUME NEW loads \in Loads, NEW x \in DOMAIN loads, NEW load \in Load
  PROVE  [loads EXCEPT ![x] = load] \in Loads
<1>1. PICK S \in SUBSET Roles : loads \in [S -> Load]
  BY DEF Loads
<1>2. [loads EXCEPT ![x] = load] \in [S -> Load]
  BY <1>1
<1> QED
  BY <1>2 DEF Loads

LEMMA LoadSteps ==
  ASSUME TypeOK, AccessInv, NEW r \in Requests
  PROVE  /\ \A x \in Roles : LoadRole(r, x) \/ StoreRole(r, x) => TypeOK' /\ AccessInv'
         /\ ReadPage(r) => TypeOK' /\ AccessInv'
<1>1. req \in [Requests -> Request] /\ req[r] \in Request /\ req[r].loads \in Loads
  BY RequestOf DEF TypeOK, RequestTypes, Request
<1>2. ASSUME NEW x \in Roles, LoadRole(r, x) PROVE TypeOK' /\ AccessInv'
  <2> DEFINE load == IF now < cache[x].until THEN Loaded(cache[x].grants, FALSE)
                     ELSE Loaded(role[x].grants, TRUE)
             loads == [req[r].loads EXCEPT ![x] = load]
             new == [req[r] EXCEPT !.loads = loads]
  <2>1. load \in Load
    <3>1. cache[x].grants \in Bound /\ role[x].grants \in Bound
      BY DEF TypeOK, RowTypes, RoleRow
    <3> QED
      BY <3>1 DEF Loaded, Load
  <2>2. x \in DOMAIN req[r].loads /\ req[r].pc = "permission"
    BY <1>2 DEF LoadRole
  <2>3. loads \in Loads
    BY <1>1, <2>1, <2>2, LoadsKeep
  <2>4. req' = [req EXCEPT ![r] = new] /\ begun' = begun
    BY <1>1, <1>2 DEF LoadRole
  <2> HIDE DEF loads
  <2>5. new \in Request /\ new.pc = "permission" /\ new.token = req[r].token
    BY <1>1, <2>2, <2>3 DEF Request
  <2>6. UNCHANGED <<now, user, role, tenant, link, redis, browser, offer, outdated>>
    BY <1>2 DEF LoadRole
  <2>7. RowTypes'
    BY <2>6 DEF TypeOK, RowTypes, tenant, redis
  <2> HIDE DEF new
  <2> QED
    BY <2>4, <2>5, <2>6, <2>7, ReadKeeps DEF redis
<1>3. ASSUME NEW x \in Roles, StoreRole(r, x) PROVE TypeOK' /\ AccessInv'
  <2> DEFINE old == req[r].loads[x]
             load == [old EXCEPT !.fill = FALSE]
             loads == [req[r].loads EXCEPT ![x] = load]
             new == [req[r] EXCEPT !.loads = loads]
  <2>1. x \in DOMAIN req[r].loads /\ req[r].pc = "permission"
    BY <1>3 DEF StoreRole
  <2>2. old \in Load
    BY <1>1, <2>1 DEF Loads
  <2>3. load \in Load
    BY <2>2 DEF Load
  <2>4. loads \in Loads
    BY <1>1, <2>1, <2>3, LoadsKeep
  <2>5. req' = [req EXCEPT ![r] = new] /\ begun' = begun
    BY <1>1, <1>3 DEF StoreRole
  <2>6. cache' \in [Roles -> [grants : Bound, until : Nat]]
    <3>1. old.grants \in Bound /\ now + CacheTTL \in Nat
      BY <2>2, AccessAssumption DEF Load, TypeOK, RowTypes, AccessAssumption
    <3> QED
      BY <1>3, <3>1 DEF StoreRole, TypeOK, RowTypes
  <2> HIDE DEF loads
  <2>7. new \in Request /\ new.pc = "permission" /\ new.token = req[r].token
    BY <1>1, <2>1, <2>4 DEF Request
  <2>8. UNCHANGED <<now, user, role, tenant, link, marker, browser, offer, outdated>>
    BY <1>3 DEF StoreRole
  <2>9. RowTypes'
    BY <2>6, <2>8 DEF TypeOK, RowTypes, tenant
  <2> HIDE DEF new
  <2> QED
    BY <2>5, <2>7, <2>8, <2>9, ReadKeeps
<1>4. ASSUME ReadPage(r) PROVE TypeOK' /\ AccessInv'
  <2> DEFINE route == req[r].route
             wanted == IF route.modules # {} THEN route.modules
                       ELSE IF route.page = NoPage THEN {} ELSE pages[route.page]
             pc == IF wanted = {} THEN "who" ELSE "enabled"
             new == [req[r] EXCEPT !.pc = pc, !.set = wanted]
  <2>1. route \in Calls \union {Route}
    BY <1>1 DEF Request
  <2>2. Route.modules = {} /\ Route.page = NoPage
    BY DEF Route
  <2>3. wanted \in SUBSET Things
    <3>1. CASE route \in Calls
      <4>1. route.modules \in SUBSET Things
        BY <3>1 DEF Things
      <4>2. route.page # NoPage => route.page \in Pages
        BY <3>1 DEF Pages
      <4>3. route.page # NoPage => pages[route.page] \in SUBSET Things
        BY <4>2 DEF TypeOK, RowTypes, Things
      <4> QED
        BY <4>1, <4>3
    <3>2. CASE route = Route
      BY <2>2, <3>2
    <3> QED
      BY <2>1, <3>1, <3>2
  <2>4. req' = [req EXCEPT ![r] = new] /\ begun' = begun
    BY <1>1, <1>4 DEF ReadPage
  <2> HIDE DEF wanted
  <2>5. pc \in {"who", "enabled"}
    OBVIOUS
  <2> HIDE DEF pc
  <2>6. new \in Request /\ new.pc = pc /\ new.token = req[r].token
    BY <1>1, <2>3, <2>5 DEF Request, Pcs
  <2>7. UNCHANGED <<now, user, role, tenant, link, redis, browser, offer, outdated>>
    BY <1>4 DEF ReadPage
  <2>8. RowTypes'
    BY <2>7 DEF TypeOK, RowTypes, tenant, redis
  <2> HIDE DEF new
  <2> QED
    BY <2>4, <2>5, <2>6, <2>7, <2>8, ReadKeeps DEF redis
<1> QED
  BY <1>2, <1>3, <1>4
-----------------------------------------------------------------------------
(* Steps that change users, links, marks or cookies.                       *)
ThereKept == \A u \in Users : user'[u].there = user[u].there

LEMMA InsertersKept ==
  ASSUME TypeOK, ThereKept, NEW o \in Requests, req[o].pc = "insert user"
  PROVE  user'[req[o].u].there = user[req[o].u].there
<1>1. req[o].u \in Users
  BY DEF TypeOK, RequestTypes, Fits
<1> QED
  BY <1>1 DEF ThereKept

LEMMA EnterKnown ==
  ASSUME TypeOK, AccessInv, NEW r \in Requests, Enter(r, Idle), RowsKept, ThereKept
  PROVE  RequestTypes' /\ Known' /\ Inserts'
<1>1. Idle \in Request /\ Fits(Idle) /\ Idle.token = NoSession
  BY IdleIsRequest
<1>2. Turn(r, Idle)
  BY <1>1, EnterTurns
<1>3. Idle.pc \in Plain /\ Idle.token \in Token /\ Live(Idle.token)
  <2>1. Idle.pc = "idle"
    BY DEF Idle
  <2> QED
    BY <1>1, <2>1 DEF Plain, Token, Live
<1> QED
  BY <1>2, <1>3, InsertersKept, PlainKnown

LEMMA AnswerKnown ==
  ASSUME TypeOK, AccessInv, NEW r \in Requests, NEW pc \in {"idle", "invalidate"}, Goto(r, pc),
         pc = "invalidate" => req[r].x \in Roles,
         RowsKept, ThereKept
  PROVE  RequestTypes' /\ Known' /\ Inserts'
<1>1. CASE pc = "idle"
  <2> DEFINE new == [Idle EXCEPT !.pc = "idle"]
  <2>1. Turn(r, new)
    BY <1>1, AnswerTurns
  <2>2. new.pc = "idle" /\ new.token = Idle.token
    BY IdleIsRequest DEF Request
  <2>3. new.pc \in Plain /\ new.token \in Token /\ Live(new.token)
    BY <2>2, IdleIsRequest DEF Plain, Token, Live
  <2> HIDE DEF new
  <2> QED
    BY <2>1, <2>3, InsertersKept, PlainKnown
<1>2. CASE pc = "invalidate"
  <2> DEFINE new == [req[r] EXCEPT !.pc = "invalidate"]
  <2>1. new.pc = "invalidate" /\ new.token = req[r].token /\ new.x = req[r].x
    BY RequestOf DEF Request
  <2>2. Fits(new)
    BY <1>2, <2>1 DEF Fits
  <2>3. Turn(r, new)
    <3>1. "invalidate" \in Pcs \ {"idle", "in"} /\ Goto(r, "invalidate")
      BY <1>2 DEF Pcs
    <3> QED
      BY <2>2, <3>1, GotoTurns
  <2>4. new.pc \in Plain /\ new.token \in Token /\ Live(new.token)
    BY <2>1, RequestOf DEF Plain
  <2> HIDE DEF new
  <2> QED
    BY <2>3, <2>4, InsertersKept, PlainKnown
<1> QED
  BY <1>1, <1>2

LEMMA SessionsKept ==
  ASSUME TypeOK, AccessInv, RowsKept,
         \A b \in Browsers : browser'[b] \in {browser[b], NoSession}
  PROVE  Sessions'
<1> SUFFICES ASSUME NEW b \in Browsers PROVE Live(browser[b])'
  BY DEF Sessions
<1>1. CASE browser'[b] = NoSession
  BY <1>1 DEF Live
<1>2. CASE browser'[b] = browser[b]
  <2>1. browser[b] \in Token /\ Live(browser[b])
    BY BrowserTokens
  <2>2. browser[b] # NoSession => \/ browser[b].resets = user'[browser[b].user].resets
                                 \/ browser[b].raced
                                 \/ browser[b].iat < user'[browser[b].user].changed
    BY <2>1, LiveKept
  <2> QED
    BY <1>2, <2>2 DEF Live
<1> QED
  BY <1>1, <1>2

LEMMA MarksKept ==
  ASSUME AccessInv, marker' = marker,
         \A u \in Users : /\ user'[u].unmarked = user[u].unmarked
                          /\ user'[u].changed = user[u].changed
  PROVE  Marks'
  BY DEF AccessInv, Marks

LEMMA AdminsKept ==
  ASSUME AccessInv, outdated' = outdated, ActiveAdmins \subseteq ActiveAdmins'
  PROVE  AdminRemains'
  BY DEF AccessInv, AdminRemains

(* The types of a user whose row is written.                               *)
LEMMA ChangedUser ==
  ASSUME TypeOK, NEW u, NEW row \in UserRow, user' = [user EXCEPT ![u] = row]
  PROVE  /\ user' \in [Users -> UserRow]
         /\ u \in Users => user'[u] = row
         /\ \A v \in Users : v # u => user'[v] = user[v]
  BY DEF TypeOK, RowTypes

LEMMA NowKept == ASSUME TypeOK, now' = now PROVE now' \in Nat /\ now <= now'
<1>1. now \in Nat
  BY DEF TypeOK, RowTypes
<1> QED
  BY <1>1, Order
-----------------------------------------------------------------------------
LEMMA EntersKeep ==
  ASSUME TypeOK, AccessInv, NEW r \in Requests
  PROVE  /\ \A b \in Browsers : Logout(r, b) => TypeOK' /\ AccessInv'
         /\ \A b \in Browsers, x \in Roles, g \in Grants :
              CreateRole(r, b, x, g) => TypeOK' /\ AccessInv'
         /\ \A m \in Modules, on \in BOOLEAN : SetModule(r, m, on) => TypeOK' /\ AccessInv'
<1>1. ASSUME NEW b \in Browsers, Logout(r, b) PROVE TypeOK' /\ AccessInv'
  <2>1. UNCHANGED <<now, user, role, tenant, link, redis, offer, outdated>> /\ Enter(r, Idle)
        /\ browser' = [browser EXCEPT ![b] = NoSession]
    BY <1>1 DEF Logout
  <2>2. RowsKept /\ ThereKept
    BY <2>1, NowKept DEF RowsKept, ThereKept
  <2>3. browser' \in [Browsers -> Token]
    BY <2>1 DEF TypeOK, RowTypes, Token
  <2>4. RowTypes'
    BY <2>1, <2>3 DEF TypeOK, RowTypes, tenant, redis
  <2>5. RequestTypes' /\ Known' /\ Inserts'
    BY <2>1, <2>2, EnterKnown
  <2>6. Sessions'
    <3>1. \A c \in Browsers : browser'[c] \in {browser[c], NoSession}
      BY <2>1 DEF TypeOK, RowTypes
    <3> QED
      BY <2>2, <3>1, SessionsKept
  <2>7. Marks' /\ AdminRemains' /\ OneResetPerLink'
    BY <2>1, MarksKept DEF redis, AccessInv, OneResetPerLink, AdminRemains, ActiveAdmins
  <2> QED
    BY <2>4, <2>5, <2>6, <2>7 DEF TypeOK, AccessInv
<1>2. ASSUME NEW b \in Browsers, NEW x \in Roles, NEW g \in Grants, CreateRole(r, b, x, g)
      PROVE  TypeOK' /\ AccessInv'
  <2>1. UNCHANGED <<now, user, tenant, link, redis, browser, offer, outdated>> /\ Enter(r, Idle)
        /\ role' = [role EXCEPT ![x] = [there |-> TRUE, grants |-> g, edited |-> now]]
    BY <1>2 DEF CreateRole
  <2>2. role' \in [Roles -> RoleRow]
    BY <2>1 DEF TypeOK, RowTypes, RoleRow, Bound
  <2>3. RowTypes'
    BY <2>1, <2>2 DEF TypeOK, RowTypes, tenant, redis
  <2>4. Turn(r, Idle)
    BY <2>1, IdleIsRequest, EnterTurns
  <2>5. Knows(Idle) /\ Idle.pc # "insert user"
    BY DEF Idle, Knows, Live
  <2> QED
    BY <2>1, <2>3, <2>4, <2>5, TurnKeeps DEF redis
<1>3. ASSUME NEW m \in Modules, NEW on \in BOOLEAN, SetModule(r, m, on)
      PROVE  TypeOK' /\ AccessInv'
  <2>1. UNCHANGED <<now, user, role, pages, meant, torn, link, redis, browser, offer, outdated>>
        /\ Enter(r, Idle)
        /\ enabled' = IF on THEN enabled \union {m} ELSE enabled \ {m}
    BY <1>3 DEF SetModule
  <2>2. RowTypes'
    BY <2>1 DEF TypeOK, RowTypes, redis
  <2>3. Turn(r, Idle)
    BY <2>1, IdleIsRequest, EnterTurns
  <2>4. Knows(Idle) /\ Idle.pc # "insert user"
    BY DEF Idle, Knows, Live
  <2> QED
    BY <2>1, <2>2, <2>3, <2>4, TurnKeeps DEF redis
<1> QED
  BY <1>1, <1>2, <1>3

LEMMA CrashKeeps ==
  ASSUME TypeOK, AccessInv, NEW r \in Requests, Crash(r)
  PROVE  TypeOK' /\ AccessInv'
<1>1. UNCHANGED <<now, user, role, enabled, pages, meant, link, redis, browser, offer, outdated>>
  BY DEF Crash
<1>2. torn' \in SUBSET Pages
  BY RequestOf DEF Crash, Fits, TypeOK, RowTypes
<1>3. RowTypes'
  BY <1>1, <1>2 DEF TypeOK, RowTypes, redis
<1>4. Goto(r, "idle") /\ "idle" \in Plain
  BY DEF Crash, Answer, Plain
<1> QED
  BY <1>1, <1>3, <1>4, GotoKeeps DEF redis

LEMMA TickKeeps == ASSUME TypeOK, AccessInv, Tick PROVE TypeOK' /\ AccessInv'
<1>1. UNCHANGED <<user, role, tenant, link, redis, browser, req, begun, offer, outdated>>
      /\ now' = now + 1
  BY DEF Tick
<1>2. now' \in Nat /\ now <= now'
  <2>1. now \in Nat
    BY DEF TypeOK, RowTypes
  <2> QED
    BY <1>1, <2>1
<1>3. TypeOK'
  BY <1>1, <1>2 DEF TypeOK, RowTypes, RequestTypes, tenant, redis
<1>4. RowsKept
  BY <1>1, <1>2 DEF RowsKept
<1>5. Known'
  <2>1. \A o \in Requests : Same(req'[o], req[o])
    BY <1>1 DEF Same
  <2>2. \A o \in Requests : Knows(req[o])'
    BY <1>1, <1>4, <2>1, OthersKnow DEF AccessInv, Known
  <2> QED
    BY <2>2 DEF Known
<1>6. Inserts' /\ Sessions' /\ Marks' /\ OneResetPerLink' /\ AdminRemains'
  BY <1>1 DEF redis, AccessInv, Inserts, Sessions, Live, Marks, OneResetPerLink, AdminRemains,
     ActiveAdmins
<1> QED
  BY <1>3, <1>5, <1>6 DEF AccessInv
-----------------------------------------------------------------------------
(* Login and refresh.                                                      *)
LEMMA StampKeeps ==
  ASSUME TypeOK, AccessInv, NEW r \in Requests, Stamp(r)
  PROVE  TypeOK' /\ AccessInv'
<1> DEFINE u == req[r].u
           old == req[r].row
           trial == IF old.demo /\ old.trial = Never THEN now + TrialTTL ELSE old.trial
           row == [old EXCEPT !.trial = trial]
           new == [req[r] EXCEPT !.pc = "sign", !.row = row]
<1>1. req[r].pc = "stamp" /\ old \in UserRow /\ u \in Users /\ req[r].token = NoSession
  BY RequestOf DEF Stamp, Fits
<1>2. trial \in Nat
  BY <1>1, AccessAssumption DEF UserRow, TypeOK, RowTypes, AccessAssumption
<1>3. UNCHANGED <<now, role, tenant, link, redis, browser, begun, offer, outdated>>
      /\ user' = [user EXCEPT ![u].trial = trial]
      /\ req' = [req EXCEPT ![r].pc = "sign", ![r].row.trial = trial]
  BY DEF Stamp
<1> HIDE DEF trial
<1>4. row \in UserRow /\ row.resets = old.resets
  BY <1>1, <1>2 DEF UserRow
<1>5. req' = [req EXCEPT ![r] = new]
  BY <1>3 DEF TypeOK, RequestTypes
<1> HIDE DEF row
<1>6. new \in Request /\ new.pc = "sign" /\ new.u = u /\ new.row = row
      /\ new.token = NoSession /\ new.raced = req[r].raced
  <2>1. req[r] \in Request
    BY RequestOf
  <2> QED
    BY <1>1, <1>4, <2>1 DEF Request, Pcs
<1>7. Fits(new)
  BY <1>1, <1>4, <1>6 DEF Fits
<1>8. /\ user' \in [Users -> UserRow]
      /\ \A v \in Users : /\ user'[v].resets = user[v].resets
                          /\ user'[v].changed = user[v].changed
                          /\ user'[v].unmarked = user[v].unmarked
                          /\ user'[v].there = user[v].there
                          /\ user'[v].active = user[v].active
                          /\ user'[v].roles = user[v].roles
  BY <1>1, <1>2, <1>3 DEF TypeOK, RowTypes, UserRow
<1>9. RowsKept /\ ThereKept
  BY <1>3, <1>8, NowKept DEF RowsKept, ThereKept
<1> HIDE DEF new
<1>10. Turn(r, new)
  BY <1>3, <1>5, <1>6, <1>7, StepTurns
<1>11. Knows(req[r])'
  <2>1. req'[r].pc = "sign" /\ req'[r].token = NoSession /\ req'[r].raced = req[r].raced
        /\ req'[r].u = u /\ req'[r].row = row
    BY <1>6, <1>10 DEF Turn, Same
  <2>2. req[r].raced \/ old.resets = user[u].resets
    BY <1>1, RequestOf DEF Knows, Signable
  <2>3. Signable(req[r])'
    BY <1>1, <1>4, <1>8, <2>1, <2>2 DEF Signable
  <2> QED
    BY <2>1, <2>3 DEF Knows, Live
<1>12. RequestTypes' /\ Known' /\ Inserts'
  BY <1>6, <1>9, <1>10, <1>11, InsertersKept, TurnKnown
<1>13. RowTypes'
  BY <1>3, <1>8 DEF TypeOK, RowTypes, tenant, redis
<1>14. Sessions'
  BY <1>3, <1>9, SessionsKept
<1>15. Marks' /\ OneResetPerLink'
  BY <1>3, <1>8, MarksKept DEF redis, AccessInv, OneResetPerLink
<1>16. AdminRemains'
  BY <1>3, <1>8, AdminsKept DEF ActiveAdmins
<1> QED
  BY <1>12, <1>13, <1>14, <1>15, <1>16 DEF TypeOK, AccessInv

LEMMA SignKeeps ==
  ASSUME TypeOK, AccessInv, NEW r \in Requests, Sign(r)
  PROVE  TypeOK' /\ AccessInv'
<1> DEFINE u == req[r].u  row == req[r].row  old == req[r].token
           new == [user |-> u, roles |-> row.roles, demo |-> row.demo, trial |-> row.trial,
                   iat |-> now, resets |-> IF old = NoSession THEN row.resets ELSE old.resets,
                   raced |-> req[r].raced \/ (old # NoSession /\ old.raced)]
<1>1. /\ req[r].pc = "sign" /\ row \in UserRow /\ u \in Users /\ old \in Token
      /\ req[r].raced \in BOOLEAN /\ Signable(req[r])
  BY RequestOf DEF Sign, Fits, Knows, Request
<1>2. UNCHANGED <<now, user, role, tenant, link, redis, offer, outdated>>
      /\ browser' = [browser EXCEPT ![req[r].b] = new] /\ Goto(r, "idle")
  BY DEF Sign, Answer
<1>3. new \in Session
  <2>1. now \in Nat
    BY DEF TypeOK, RowTypes
  <2>2. old # NoSession => old \in Session
    BY <1>1 DEF Token
  <2>3. new.resets \in Nat /\ new.raced \in BOOLEAN
    BY <1>1, <2>2 DEF Session, UserRow
  <2> QED
    BY <1>1, <2>1, <2>3 DEF Session, UserRow
<1>4. new.raced \/ new.resets = user[u].resets
  BY <1>1 DEF Signable
<1>5. new.user = u
  OBVIOUS
<1> HIDE DEF new
<1>6. RowsKept /\ ThereKept
  BY <1>2, NowKept DEF RowsKept, ThereKept
<1>7. RequestTypes' /\ Known' /\ Inserts'
  BY <1>2, <1>6, AnswerKnown
<1>8. browser' \in [Browsers -> Token]
  BY <1>2, <1>3 DEF TypeOK, RowTypes, Token
<1>9. RowTypes'
  BY <1>2, <1>8 DEF TypeOK, RowTypes, tenant, redis
<1>10. Sessions'
  <2> SUFFICES ASSUME NEW b \in Browsers PROVE Live(browser[b])'
    BY DEF Sessions
  <2>1. browser'[b] \in {browser[b], new}
    BY <1>2 DEF TypeOK, RowTypes
  <2>2. CASE browser'[b] = browser[b]
    BY <1>2, <2>2, BrowserTokens DEF Live
  <2>3. CASE browser'[b] = new
    BY <1>2, <1>4, <1>5, <2>3 DEF Live
  <2> QED
    BY <2>1, <2>2, <2>3
<1>11. Marks' /\ OneResetPerLink' /\ AdminRemains'
  BY <1>2, MarksKept DEF redis, AccessInv, OneResetPerLink, AdminRemains, ActiveAdmins
<1> QED
  BY <1>7, <1>9, <1>10, <1>11 DEF TypeOK, AccessInv

(* Reset links.                                                            *)
LEMMA NewLinkKeeps ==
  ASSUME TypeOK, AccessInv, NEW r \in Requests, NEW l \in Links, NewLink(r, l)
  PROVE  TypeOK' /\ AccessInv'
<1>1. UNCHANGED <<now, user, role, tenant, redis, browser, offer, outdated>> /\ Goto(r, "idle")
  BY DEF NewLink, Answer
<1>2. \A k \in Links : /\ link[k] \in LinkRow
                       /\ link[k].claims = IF link[k].used = "reset" THEN 1 ELSE 0
  BY DEF TypeOK, RowTypes, AccessInv, OneResetPerLink
<1>3. req[r].u \in Users \union {None} /\ now + LinkTTL \in Nat
  BY RequestOf, AccessAssumption DEF Request, TypeOK, RowTypes, AccessAssumption
<1> DEFINE fresh == [user |-> req[r].u, until |-> now + LinkTTL, used |-> "no", claims |-> 0]
<1>4. \A k \in Links : \/ link'[k] = fresh
                       \/ link[k].used = "no" /\ link'[k] = [link[k] EXCEPT !.used = "replaced"]
                       \/ link'[k] = link[k]
  BY DEF NewLink
<1>5. fresh \in LinkRow /\ fresh.claims = 0 /\ fresh.used = "no"
  BY <1>3 DEF LinkRow
<1> HIDE DEF fresh
<1>6. ASSUME NEW k \in Links
      PROVE  /\ link'[k] \in LinkRow
             /\ link'[k].claims = IF link'[k].used = "reset" THEN 1 ELSE 0
  <2>1. CASE link'[k] = fresh
    BY <1>5, <2>1
  <2>2. CASE link[k].used = "no" /\ link'[k] = [link[k] EXCEPT !.used = "replaced"]
    BY <1>2, <2>2 DEF LinkRow
  <2>3. CASE link'[k] = link[k]
    BY <1>2, <2>3
  <2> QED
    BY <1>4, <2>1, <2>2, <2>3
<1>7. link' \in [Links -> LinkRow]
  <2>1. link' = [k \in Links |-> link'[k]]
    BY DEF NewLink
  <2> QED
    BY <1>6, <2>1
<1>8. RowTypes'
  BY <1>1, <1>7 DEF TypeOK, RowTypes, tenant, redis
<1>9. RowsKept /\ ThereKept
  BY <1>1, NowKept DEF RowsKept, ThereKept
<1>10. RequestTypes' /\ Known' /\ Inserts'
  BY <1>1, <1>9, AnswerKnown
<1>11. Sessions' /\ Marks' /\ AdminRemains'
  BY <1>1, <1>9, SessionsKept, MarksKept DEF redis, AccessInv, AdminRemains, ActiveAdmins
<1>12. OneResetPerLink'
  BY <1>6 DEF OneResetPerLink
<1> QED
  BY <1>8, <1>10, <1>11, <1>12 DEF TypeOK, AccessInv

LEMMA HashKeeps ==
  ASSUME TypeOK, AccessInv, NEW r \in Requests, Hash(r)
  PROVE  TypeOK' /\ AccessInv'
<1> DEFINE new == [req[r] EXCEPT !.pc = "claim", !.at = now]
<1>1. req[r].token = NoSession /\ req[r].u \in Users /\ req[r] \in Request
  BY RequestOf DEF Hash, Fits
<1>2. now \in Nat /\ now <= now
  <2>1. now \in Nat
    BY DEF TypeOK, RowTypes
  <2> QED
    BY <2>1, Order
<1>3. /\ new \in Request /\ new.pc = "claim" /\ new.token = NoSession /\ new.at = now
      /\ new.u = req[r].u
  BY <1>1, <1>2 DEF Request, Pcs
<1>4. Fits(new) /\ Knows(new)
  BY <1>1, <1>2, <1>3 DEF Fits, Knows, Live
<1>5. UNCHANGED <<now, user, role, tenant, link, redis, browser, begun, offer, outdated>>
  BY DEF Hash
<1>6. req' = [req EXCEPT ![r] = new]
  BY DEF Hash, TypeOK, RequestTypes
<1> HIDE DEF new
<1>7. Turn(r, new)
  BY <1>3, <1>4, <1>5, <1>6, StepTurns
<1>8. RowTypes'
  BY <1>5 DEF TypeOK, RowTypes, tenant, redis
<1> QED
  BY <1>3, <1>4, <1>5, <1>7, <1>8, TurnKeeps DEF redis

LEMMA MarkKeeps ==
  ASSUME TypeOK, AccessInv, NEW r \in Requests, Mark(r)
  PROVE  TypeOK' /\ AccessInv'
<1> DEFINE u == req[r].u
           written == [at |-> req[r].at, until |-> now + MarkerTTL]
           known == (req[r].at # user[u].changed)
<1>1. UNCHANGED <<now, role, tenant, link, cache, browser, offer, outdated>> /\ Goto(r, "idle")
  BY DEF Mark, Answer
<1>2. u \in Users /\ req[r].at <= now /\ req[r].at \in Nat /\ now \in Nat /\ MarkerTTL \in Nat
  BY RequestOf, AccessAssumption DEF Mark, Fits, Knows, Request, TypeOK, RowTypes, AccessAssumption
<1>3. CASE UNCHANGED <<marker, user>>
  <2>1. "idle" \in Plain
    BY DEF Plain
  <2>2. RowTypes'
    BY <1>1, <1>3 DEF TypeOK, RowTypes, tenant
  <2> QED
    BY <1>1, <1>3, <2>1, <2>2, GotoKeeps
<1>4. CASE /\ marker' = [marker EXCEPT ![u] = written]
           /\ user' = [user EXCEPT ![u].unmarked = known]
  <2>1. written \in [at : Nat, until : Nat] /\ written.at = req[r].at
        /\ written.until >= req[r].at + MarkerTTL
    BY <1>2
  <2>2. known \in BOOLEAN
    OBVIOUS
  <2>3. u \in Users => (known <=> req[r].at # user[u].changed)
    OBVIOUS
  <2> HIDE DEF written, known
  <2> DEFINE row == [user[u] EXCEPT !.unmarked = known]
  <2>a. row \in UserRow /\ row.unmarked = known /\ row.resets = user[u].resets
        /\ row.changed = user[u].changed /\ row.there = user[u].there
        /\ row.active = user[u].active /\ row.roles = user[u].roles
    BY <1>2, <2>2, UserRows DEF UserRow
  <2>b. user' = [user EXCEPT ![u] = row]
    BY <1>4, <1>2 DEF TypeOK, RowTypes
  <2> HIDE DEF row
  <2>4. /\ user' \in [Users -> UserRow]
        /\ \A v \in Users : /\ user'[v].resets = user[v].resets
                            /\ user'[v].changed = user[v].changed
                            /\ v # u => user'[v].unmarked = user[v].unmarked
                            /\ user'[v].there = user[v].there
                            /\ user'[v].active = user[v].active
                            /\ user'[v].roles = user[v].roles
    BY <2>a, <2>b, ChangedUser
  <2>5. user'[u].unmarked = known
    BY <1>2, <2>a, <2>b, ChangedUser
  <2>6. marker' \in [Users -> [at : Nat, until : Nat]]
        /\ \A v \in Users : marker'[v] = IF v = u THEN written ELSE marker[v]
    BY <1>4, <2>1 DEF TypeOK, RowTypes
  <2>7. RowTypes'
    BY <1>1, <2>4, <2>6 DEF TypeOK, RowTypes, tenant
  <2>8. RowsKept /\ ThereKept
    BY <1>1, <2>4, NowKept DEF RowsKept, ThereKept
  <2>9. RequestTypes' /\ Known' /\ Inserts'
    BY <1>1, <2>8, AnswerKnown
  <2>10. Marks'
    <3> SUFFICES ASSUME NEW v \in Users
                 PROVE  \/ user'[v].unmarked
                        \/ user'[v].changed = 0
                        \/ /\ marker'[v].at = user'[v].changed
                           /\ marker'[v].until >= user'[v].changed + MarkerTTL
      BY DEF Marks
    <3>1. CASE v = u
      <4>1. user'[v].unmarked = known /\ marker'[v] = written
            /\ user'[v].changed = user[v].changed
        BY <2>4, <2>5, <2>6, <3>1
      <4>2. CASE known
        BY <4>1, <4>2
      <4>3. CASE ~known
        <5>1. req[r].at = user[v].changed
          BY <2>3, <3>1, <4>3
        <5> QED
          BY <2>1, <4>1, <5>1
      <4> QED
        BY <4>2, <4>3
    <3>2. CASE v # u
      BY <2>4, <2>6, <3>2 DEF AccessInv, Marks
    <3> QED
      BY <3>1, <3>2
  <2>11. Sessions' /\ OneResetPerLink'
    BY <1>1, <2>8, SessionsKept DEF AccessInv, OneResetPerLink
  <2>12. AdminRemains'
    BY <1>1, <2>4, AdminsKept DEF ActiveAdmins
  <2> QED
    BY <2>7, <2>9, <2>10, <2>11, <2>12 DEF TypeOK, AccessInv
<1> QED
  BY <1>3, <1>4 DEF Mark

(* Users and their roles.                                                  *)
LEMMA AssignKeeps ==
  ASSUME TypeOK, AccessInv, NEW r \in Requests, Assign(r)
  PROVE  TypeOK' /\ AccessInv'
<1> DEFINE u == req[r].u  a == req[r].token.user
<1>1. UNCHANGED <<now, role, tenant, link, redis, browser, offer>> /\ Goto(r, "idle")
  BY DEF Assign, Answer
<1>2. u \in Users /\ req[r].set \subseteq AllRoles /\ u # a
  BY RequestOf DEF Assign, Fits, Knows
<1>3. CASE UNCHANGED <<user, outdated>>
  <2>1. "idle" \in Plain
    BY DEF Plain
  <2>2. RowTypes'
    BY <1>1, <1>3 DEF TypeOK, RowTypes, tenant, redis
  <2> QED
    BY <1>1, <1>3, <2>1, <2>2, GotoKeeps DEF redis
<1>4. CASE /\ user' = [user EXCEPT ![u].roles = req[r].set, ![u].moved = now]
           /\ outdated' = (outdated \/ a \notin ActiveAdmins)
  <2>1. now \in Nat
    BY DEF TypeOK, RowTypes
  <2> DEFINE row == [user[u] EXCEPT !.roles = req[r].set, !.moved = now]
  <2>a. row \in UserRow /\ row.unmarked = user[u].unmarked /\ row.resets = user[u].resets
        /\ row.changed = user[u].changed /\ row.there = user[u].there
        /\ row.active = user[u].active
    BY <1>2, <2>1, UserRows DEF UserRow
  <2>b. user' = [user EXCEPT ![u] = row]
    BY <1>4, <1>2 DEF TypeOK, RowTypes
  <2> HIDE DEF row
  <2>2. /\ user' \in [Users -> UserRow]
        /\ \A v \in Users : /\ user'[v].resets = user[v].resets
                            /\ user'[v].changed = user[v].changed
                            /\ user'[v].unmarked = user[v].unmarked
                            /\ user'[v].there = user[v].there
                            /\ user'[v].active = user[v].active
                            /\ v # u => user'[v].roles = user[v].roles
    BY <2>a, <2>b, ChangedUser
  <2>3. outdated' \in BOOLEAN
    BY <1>4
  <2>4. RowTypes'
    BY <1>1, <2>2, <2>3 DEF TypeOK, RowTypes, tenant, redis
  <2>5. RowsKept /\ ThereKept
    BY <1>1, <2>2, NowKept DEF RowsKept, ThereKept
  <2>6. RequestTypes' /\ Known' /\ Inserts'
    BY <1>1, <2>5, AnswerKnown
  <2>7. Sessions' /\ OneResetPerLink' /\ Marks'
    BY <1>1, <2>2, <2>5, SessionsKept, MarksKept DEF redis, AccessInv, OneResetPerLink
  <2>8. AdminRemains'
    <3>1. a \in ActiveAdmins => a \in ActiveAdmins'
      BY <1>2, <2>2 DEF ActiveAdmins
    <3> QED
      BY <1>4, <3>1 DEF AdminRemains
  <2> QED
    BY <2>4, <2>6, <2>7, <2>8 DEF TypeOK, AccessInv
<1> QED
  BY <1>3, <1>4 DEF Assign, Outdate

LEMMA ActivateKeeps ==
  ASSUME TypeOK, AccessInv, NEW r \in Requests, Activate(r)
  PROVE  TypeOK' /\ AccessInv'
<1> DEFINE u == req[r].u  a == req[r].token.user
           off == IF req[r].set = {} /\ user[u].active THEN now ELSE user[u].off
           on == (req[r].set # {})
<1>1. UNCHANGED <<now, role, tenant, link, redis, browser, offer>> /\ Goto(r, "idle")
      /\ outdated' = (outdated \/ a \notin ActiveAdmins)
  BY DEF Activate, Answer, Outdate
<1>2. u \in Users /\ u # a
  BY RequestOf DEF Activate, Fits, Knows
<1>3. off \in Nat /\ on \in BOOLEAN
  BY <1>2 DEF TypeOK, RowTypes, UserRow
<1>4. user' = [user EXCEPT ![u].active = on, ![u].off = off]
  BY <1>2 DEF Activate, TypeOK, RowTypes, UserRow
<1> HIDE DEF off, on
<1> DEFINE row == [user[u] EXCEPT !.active = on, !.off = off]
<1>a. row \in UserRow /\ row.unmarked = user[u].unmarked /\ row.resets = user[u].resets
      /\ row.changed = user[u].changed /\ row.there = user[u].there
      /\ row.roles = user[u].roles
  BY <1>2, <1>3, UserRows DEF UserRow
<1>b. user' = [user EXCEPT ![u] = row]
  BY <1>4, <1>2 DEF TypeOK, RowTypes
<1> HIDE DEF row
<1>5. /\ user' \in [Users -> UserRow]
      /\ \A v \in Users : /\ user'[v].resets = user[v].resets
                          /\ user'[v].changed = user[v].changed
                          /\ user'[v].unmarked = user[v].unmarked
                          /\ user'[v].there = user[v].there
                          /\ user'[v].roles = user[v].roles
                          /\ v # u => user'[v].active = user[v].active
  BY <1>a, <1>b, ChangedUser
<1>6. outdated' \in BOOLEAN
  BY <1>1
<1>7. RowTypes'
  BY <1>1, <1>5, <1>6 DEF TypeOK, RowTypes, tenant, redis
<1>8. RowsKept /\ ThereKept
  BY <1>1, <1>5, NowKept DEF RowsKept, ThereKept
<1>9. RequestTypes' /\ Known' /\ Inserts'
  BY <1>1, <1>8, AnswerKnown
<1>10. Sessions' /\ OneResetPerLink' /\ Marks'
  BY <1>1, <1>5, <1>8, SessionsKept, MarksKept DEF redis, AccessInv, OneResetPerLink
<1>11. AdminRemains'
  <2>1. a \in ActiveAdmins => a \in ActiveAdmins'
    BY <1>2, <1>5 DEF ActiveAdmins
  <2> QED
    BY <1>1, <2>1 DEF AdminRemains
<1> QED
  BY <1>7, <1>9, <1>10, <1>11 DEF TypeOK, AccessInv

LEMMA InsertKeeps ==
  ASSUME TypeOK, AccessInv, NEW r \in Requests, InsertUser(r)
  PROVE  TypeOK' /\ AccessInv'
<1> DEFINE u == req[r].u  demo == (req[r].b = None)
           row == [user[u] EXCEPT !.there = TRUE, !.active = TRUE, !.roles = req[r].set,
                                  !.demo = demo]
<1>1. UNCHANGED <<now, role, tenant, link, redis, browser, offer, outdated>> /\ Goto(r, "idle")
  BY DEF InsertUser, Answer
<1>2. u \in Users /\ req[r].set \subseteq AllRoles /\ ~user[u].there /\ user[u] \in UserRow
  BY RequestOf, UserRows DEF InsertUser, Fits, Knows
<1>3. demo \in BOOLEAN
  OBVIOUS
<1>4. user' \in {[user EXCEPT ![u] = row], user}
  BY <1>2 DEF InsertUser, TypeOK, RowTypes
<1> HIDE DEF demo
<1>5. row \in UserRow /\ row.unmarked = user[u].unmarked /\ row.resets = user[u].resets
      /\ row.changed = user[u].changed
  BY <1>2, <1>3 DEF UserRow
<1> HIDE DEF row
<1>6. /\ user' \in [Users -> UserRow]
      /\ \A v \in Users : /\ user'[v].resets = user[v].resets
                          /\ user'[v].changed = user[v].changed
                          /\ user'[v].unmarked = user[v].unmarked
                          /\ v # u => user'[v] = user[v]
  <2>1. CASE user' = user
    BY <2>1 DEF TypeOK, RowTypes
  <2>2. CASE user' = [user EXCEPT ![u] = row]
    BY <1>5, <2>2, ChangedUser
  <2> QED
    BY <1>4, <2>1, <2>2
<1>7. RowTypes'
  BY <1>1, <1>6 DEF TypeOK, RowTypes, tenant, redis
<1>8. RowsKept
  BY <1>1, <1>6, NowKept DEF RowsKept
<1>9. RequestTypes' /\ Known' /\ Inserts'
  <2> DEFINE new == [Idle EXCEPT !.pc = "idle"]
  <2>1. Turn(r, new)
    BY <1>1, AnswerTurns
  <2>2. new.pc = "idle" /\ new.token = Idle.token
    BY IdleIsRequest DEF Request
  <2>3. new.pc \in Plain /\ new.token \in Token /\ Live(new.token)
    BY <2>2, IdleIsRequest DEF Plain, Token, Live
  <2>4. ASSUME NEW o \in Requests \ {r}, req[o].pc = "insert user"
        PROVE  user'[req[o].u].there = user[req[o].u].there
    <3>1. req[o].u \in Users
      BY <2>4, RequestOf DEF Fits
    <3>2. req[o].u # u
      BY <2>4 DEF InsertUser, AccessInv, Inserts
    <3> QED
      BY <1>6, <3>1, <3>2
  <2> HIDE DEF new
  <2> QED
    BY <1>8, <2>1, <2>3, <2>4, PlainKnown
<1>10. Sessions' /\ OneResetPerLink' /\ Marks'
  BY <1>1, <1>6, <1>8, SessionsKept, MarksKept DEF redis, AccessInv, OneResetPerLink
<1>11. AdminRemains'
  <2>1. ActiveAdmins \subseteq ActiveAdmins'
    BY <1>2, <1>6 DEF ActiveAdmins
  <2> QED
    BY <1>1, <2>1, AdminsKept
<1> QED
  BY <1>7, <1>9, <1>10, <1>11 DEF TypeOK, AccessInv

LEMMA TrialKeeps ==
  ASSUME TypeOK, AccessInv, NEW r \in Requests, NEW u \in Users, NEW more \in BOOLEAN,
         SetTrial(r, u, more)
  PROVE  TypeOK' /\ AccessInv'
<1> DEFINE long == [user[u] EXCEPT !.trial = now + TrialTTL, !.active = TRUE]
           over == [user[u] EXCEPT !.trial = now]
<1>1. UNCHANGED <<now, role, tenant, link, redis, browser, offer, outdated>> /\ Enter(r, Idle)
  BY DEF SetTrial
<1>2. now \in Nat /\ now + TrialTTL \in Nat /\ user[u] \in UserRow
  BY UserRows, AccessAssumption DEF TypeOK, RowTypes, AccessAssumption
<1>3. PICK row \in {long, over} : user' = [user EXCEPT ![u] = row]
  BY DEF SetTrial, TypeOK, RowTypes
<1>4. /\ row \in UserRow /\ row.resets = user[u].resets /\ row.changed = user[u].changed
      /\ row.unmarked = user[u].unmarked /\ row.there = user[u].there
      /\ row.roles = user[u].roles /\ row.active \in {user[u].active, TRUE}
  <2>1. CASE row = long
    BY <1>2, <2>1 DEF UserRow
  <2>2. CASE row = over
    BY <1>2, <2>2 DEF UserRow
  <2> QED
    BY <2>1, <2>2
<1>5. /\ user' \in [Users -> UserRow]
      /\ \A v \in Users : /\ user'[v].resets = user[v].resets
                          /\ user'[v].changed = user[v].changed
                          /\ user'[v].unmarked = user[v].unmarked
                          /\ user'[v].there = user[v].there
                          /\ user'[v].roles = user[v].roles
                          /\ user'[v].active \in {user[v].active, TRUE}
  BY <1>3, <1>4, ChangedUser
<1>6. RowTypes'
  BY <1>1, <1>5 DEF TypeOK, RowTypes, tenant, redis
<1>7. RowsKept /\ ThereKept
  BY <1>1, <1>5, NowKept DEF RowsKept, ThereKept
<1>8. RequestTypes' /\ Known' /\ Inserts'
  BY <1>1, <1>7, EnterKnown
<1>9. Sessions' /\ OneResetPerLink' /\ Marks'
  BY <1>1, <1>5, <1>7, SessionsKept, MarksKept DEF redis, AccessInv, OneResetPerLink
<1>10. AdminRemains'
  <2>1. ActiveAdmins \subseteq ActiveAdmins'
    BY <1>5 DEF ActiveAdmins
  <2> QED
    BY <1>1, <2>1, AdminsKept
<1> QED
  BY <1>6, <1>8, <1>9, <1>10 DEF TypeOK, AccessInv

LEMMA DeleteKeeps ==
  ASSUME TypeOK, AccessInv, NEW r \in Requests, Delete(r)
  PROVE  TypeOK' /\ AccessInv'
<1> DEFINE x == req[r].x
<1>1. UNCHANGED <<now, tenant, link, redis, browser, offer, outdated>>
  BY DEF Delete
<1>2. x \in Roles
  BY RequestOf DEF Delete, Fits
<1>3. CASE UNCHANGED <<role, user>> /\ Goto(r, "idle")
  <2>1. "idle" \in Plain
    BY DEF Plain
  <2>2. RowTypes'
    BY <1>1, <1>3 DEF TypeOK, RowTypes, tenant, redis
  <2> QED
    BY <1>1, <1>3, <2>1, <2>2, GotoKeeps DEF redis
<1>4. CASE role[x].there
  <2>1. /\ role' = [role EXCEPT ![x] = [there |-> FALSE, grants |-> {}, edited |-> now]]
        /\ Goto(r, "invalidate")
    BY <1>4 DEF Delete
  <2>2. role' \in [Roles -> RoleRow]
    BY <2>1, IdleIsRequest DEF TypeOK, RowTypes, RoleRow
  <2>3. ASSUME NEW v \in Users
        PROVE  /\ user'[v] \in UserRow /\ user'[v].resets = user[v].resets
               /\ user'[v].changed = user[v].changed /\ user'[v].unmarked = user[v].unmarked
               /\ user'[v].there = user[v].there /\ user'[v].active = user[v].active
               /\ Admin \in user[v].roles => Admin \in user'[v].roles
    <3>1. user[v] \in UserRow
      BY UserRows
    <3>2. CASE user'[v] = user[v]
      BY <3>1, <3>2
    <3>3. CASE user'[v] # user[v]
      <4> DEFINE basic == IF v \in req[r].set THEN {Basic} ELSE {}
                 left == (user[v].roles \ {x}) \union basic
      <4>1. user'[v] = [user[v] EXCEPT !.moved = now, !.roles = left]
        BY <1>4, <3>3 DEF Delete
      <4>2. left \in SUBSET AllRoles
        BY <3>1 DEF UserRow, AllRoles
      <4>3. Admin \in user[v].roles => Admin \in left
        BY <1>2, AccessAssumption DEF AccessAssumption
      <4>4. now \in Nat
        BY DEF TypeOK, RowTypes
      <4> HIDE DEF left
      <4> QED
        BY <3>1, <4>1, <4>2, <4>3, <4>4 DEF UserRow
    <3> QED
      BY <3>2, <3>3
  <2>4. user' \in [Users -> UserRow]
    <3>1. user' = [v \in Users |-> user'[v]]
      BY <1>4 DEF Delete
    <3> QED
      BY <2>3, <3>1
  <2>5. RowTypes'
    BY <1>1, <2>2, <2>4 DEF TypeOK, RowTypes, tenant, redis
  <2>6. RowsKept /\ ThereKept
    BY <1>1, <2>3, NowKept DEF RowsKept, ThereKept
  <2>7. RequestTypes' /\ Known' /\ Inserts'
    BY <1>2, <2>1, <2>6, AnswerKnown
  <2>8. Sessions' /\ OneResetPerLink' /\ Marks'
    BY <1>1, <2>3, <2>6, SessionsKept, MarksKept DEF redis, AccessInv, OneResetPerLink
  <2>9. AdminRemains'
    <3>1. ActiveAdmins \subseteq ActiveAdmins'
      BY <2>3 DEF ActiveAdmins
    <3> QED
      BY <1>1, <3>1, AdminsKept
  <2> QED
    BY <2>5, <2>7, <2>8, <2>9 DEF TypeOK, AccessInv
<1> QED
  BY <1>3, <1>4 DEF Delete, Answer

(* The commit of a reset: every copy of a session of the user that is not  *)
(* older than the change is marked as issued beside it.                    *)
LEMMA ClaimKeeps ==
  ASSUME TypeOK, AccessInv, NEW r \in Requests, Claim(r)
  PROVE  TypeOK' /\ AccessInv'
<1> DEFINE l == req[r].x  u == req[r].u  at == req[r].at
           late(t) == IF t # NoSession /\ t.user = u /\ t.iat >= at
                      THEN [t EXCEPT !.raced = TRUE] ELSE t
<1>1. UNCHANGED <<now, role, tenant, redis, offer, outdated>> /\ req[r].pc = "claim"
  BY DEF Claim
<1>2. /\ u \in Users /\ at \in Nat /\ at <= now /\ req[r].token = NoSession
      /\ req[r] \in Request
  BY <1>1, RequestOf DEF Fits, Knows, Request
<1>3. CASE Answer(r) /\ UNCHANGED <<link, user, browser>>
  <2>1. Goto(r, "idle") /\ "idle" \in Plain
    BY <1>3 DEF Answer, Plain
  <2>2. RowTypes'
    BY <1>1, <1>3 DEF TypeOK, RowTypes, tenant, redis
  <2> QED
    BY <1>1, <1>3, <2>1, <2>2, GotoKeeps DEF redis
<1>4. CASE link[l].used = "no"
  <2>1. /\ user' = [user EXCEPT ![u].changed = at, ![u].resets = @ + 1, ![u].unmarked = TRUE]
        /\ Race(r, u) /\ begun' = begun
    BY <1>4 DEF Claim
  \* the user
  <2> DEFINE row == [user[u] EXCEPT !.changed = at, !.resets = user[u].resets + 1,
                                    !.unmarked = TRUE]
  <2>2. row \in UserRow /\ row.changed = at /\ row.unmarked = TRUE
        /\ row.there = user[u].there /\ row.active = user[u].active /\ row.roles = user[u].roles
    <3> DEFINE more == user[u].resets + 1
    <3>1. user[u] \in UserRow
      BY <1>2, UserRows
    <3>2. more \in Nat
      BY <3>1 DEF UserRow
    <3> HIDE DEF more
    <3>3. row = [user[u] EXCEPT !.changed = at, !.resets = more, !.unmarked = TRUE]
      BY DEF more
    <3> HIDE DEF row
    <3> QED
      BY <1>2, <3>1, <3>2, <3>3 DEF UserRow
  <2>3. user' = [user EXCEPT ![u] = row]
    BY <1>2, <2>1 DEF TypeOK, RowTypes
  <2> HIDE DEF row
  <2>4. /\ user' \in [Users -> UserRow] /\ user'[u].changed = at /\ user'[u].unmarked = TRUE
        /\ \A v \in Users : /\ v # u => user'[v] = user[v]
                            /\ user'[v].there = user[v].there
                            /\ user'[v].active = user[v].active
                            /\ user'[v].roles = user[v].roles
    BY <1>2, <2>2, <2>3, ChangedUser
  \* the links
  <2>5. \A k \in Links :
          \/ k = l /\ link'[k] = [link[k] EXCEPT !.used = "reset", !.claims = link[k].claims + 1]
          \/ link[k].used = "no" /\ link'[k] = [link[k] EXCEPT !.used = "replaced"]
          \/ link'[k] = link[k]
    BY <1>4 DEF Claim
  <2>6. ASSUME NEW k \in Links
        PROVE  /\ link'[k] \in LinkRow
               /\ link'[k].claims = IF link'[k].used = "reset" THEN 1 ELSE 0
    <3>1. link[k] \in LinkRow /\ link[k].claims = IF link[k].used = "reset" THEN 1 ELSE 0
      BY DEF TypeOK, RowTypes, AccessInv, OneResetPerLink
    <3>2. CASE k = l /\ link'[k] = [link[k] EXCEPT !.used = "reset", !.claims = link[k].claims + 1]
      <4> DEFINE more == link[k].claims + 1
      <4>1. link'[k] = [link[k] EXCEPT !.used = "reset", !.claims = more]
        BY <3>2
      <4>2. link[k].claims = 0
        BY <1>4, <3>1, <3>2
      <4>3. more = 1
        BY <4>2
      <4> HIDE DEF more
      <4>4. link[k] \in LinkRow /\ more \in Nat
        BY <3>1, <4>3
      <4>5. link'[k] \in LinkRow
        BY <4>1, <4>4 DEF LinkRow
      <4>6. link'[k].used = "reset" /\ link'[k].claims = more
        BY <4>1, <4>4 DEF LinkRow
      <4> QED
        BY <4>3, <4>5, <4>6
    <3>3. CASE link[k].used = "no" /\ link'[k] = [link[k] EXCEPT !.used = "replaced"]
      BY <3>1, <3>3 DEF LinkRow
    <3>4. CASE link'[k] = link[k]
      BY <3>1, <3>4
    <3> QED
      BY <2>5, <3>2, <3>3, <3>4
  <2>7. link' \in [Links -> LinkRow]
    <3>1. link' = [k \in Links |-> link'[k]]
      BY <1>4 DEF Claim
    <3> QED
      BY <2>6, <3>1
  \* the copies of the sessions
  <2>8. ASSUME NEW t \in Token
        PROVE  /\ late(t) \in Token
               /\ late(t) = NoSession <=> t = NoSession
               /\ t # NoSession => /\ late(t).user = t.user /\ late(t).resets = t.resets
                                   /\ late(t).iat = t.iat /\ t.raced => late(t).raced
                                   /\ t.user = u => late(t).raced \/ t.iat < at
    <3>1. CASE t = NoSession
      BY <3>1
    <3>2. CASE t # NoSession
      <4>1. t \in Session
        BY <3>2 DEF Token
      <4>2. CASE t.user = u /\ t.iat >= at
        <5>1. late(t) = [t EXCEPT !.raced = TRUE]
          BY <3>2, <4>2
        <5>2. late(t) \in Session /\ late(t).user = t.user /\ late(t).resets = t.resets
              /\ late(t).iat = t.iat /\ late(t).raced
          BY <4>1, <5>1 DEF Session
        <5>3. late(t) # NoSession
          <6>1. NoSession.user = None /\ late(t).user \in Users
            BY <5>2 DEF NoSession, Session
          <6> QED
            BY <6>1, AccessAssumption DEF AccessAssumption
        <5> QED
          BY <3>2, <5>2, <5>3 DEF Token
      <4>3. CASE ~(t.user = u /\ t.iat >= at)
        <5>1. late(t) = t
          BY <4>3
        <5>2. t.iat \in Nat
          BY <4>1 DEF Session
        <5>3. t.user = u => t.iat < at
          BY <1>2, <4>3, <5>2
        <5> QED
          BY <3>2, <5>1, <5>3
      <4> QED
        BY <4>2, <4>3
    <3> QED
      BY <3>1, <3>2
  <2>9. ASSUME NEW t \in Token, Live(t)
        PROVE  late(t) # NoSession => \/ late(t).resets = user'[late(t).user].resets
                                      \/ late(t).raced
                                      \/ late(t).iat < user'[late(t).user].changed
    <3> SUFFICES ASSUME t # NoSession
                 PROVE  \/ t.resets = user'[t.user].resets \/ late(t).raced
                        \/ t.iat < user'[t.user].changed
      BY <2>8
    <3>1. CASE t.user = u
      BY <2>4, <2>8, <3>1
    <3>2. CASE t.user # u
      <4>1. t.user \in Users
        BY DEF Token, Session
      <4> QED
        BY <2>4, <2>8, <2>9, <3>2, <4>1 DEF Live
    <3> QED
      BY <3>1, <3>2
  <2>10. \A b \in Browsers : browser'[b] = late(browser[b])
    BY <2>1 DEF Race
  <2>11. browser' \in [Browsers -> Token]
    <3>1. browser' = [b \in Browsers |-> browser'[b]]
      BY <2>1 DEF Race
    <3>2. \A b \in Browsers : browser'[b] \in Token
      BY <2>8, <2>10, BrowserTokens
    <3> QED
      BY <3>1, <3>2
  <2>12. Sessions'
    <3> SUFFICES ASSUME NEW b \in Browsers PROVE Live(browser[b])'
      BY DEF Sessions
    <3>1. browser[b] \in Token /\ Live(browser[b]) /\ browser'[b] = late(browser[b])
      BY <2>10, BrowserTokens
    <3> HIDE DEF late
    <3>2. late(browser[b]) # NoSession =>
            \/ late(browser[b]).resets = user'[late(browser[b]).user].resets
            \/ late(browser[b]).raced
            \/ late(browser[b]).iat < user'[late(browser[b]).user].changed
      BY <2>9, <3>1
    <3> QED
      BY <3>1, <3>2 DEF Live
  \* the requests
  <2>13. ASSUME NEW o \in Requests \ {r}
         PROVE  /\ req'[o] \in Request /\ Fits(req'[o])
                /\ req'[o].pc = req[o].pc /\ req'[o].u = req[o].u /\ req'[o].at = req[o].at
                /\ req'[o].row = req[o].row /\ req'[o].token = late(req[o].token)
                /\ req'[o].raced = (req[o].raced \/ req[o].u = u)
    <3> DEFINE raced == (req[o].raced \/ req[o].u = u)  token == late(req[o].token)
    <3>1. req[o] \in Request /\ Fits(req[o]) /\ req[o].token \in Token
      BY RequestOf
    <3>2. req'[o] = [req[o] EXCEPT !.raced = raced, !.token = token]
      BY <2>1 DEF Race
    <3>3. token \in Token /\ (req[o].token = NoSession => token = NoSession)
      BY <2>8, <3>1
    <3>4. raced \in BOOLEAN
      BY <3>1 DEF Request
    <3> HIDE DEF raced, token
    <3>5. /\ req'[o] \in Request
          /\ req'[o].pc = req[o].pc /\ req'[o].u = req[o].u /\ req'[o].at = req[o].at
          /\ req'[o].row = req[o].row /\ req'[o].token = token /\ req'[o].raced = raced
          /\ req'[o].x = req[o].x /\ req'[o].set = req[o].set
      BY <3>1, <3>2, <3>3, <3>4 DEF Request
    <3>6. Fits(req'[o])
      BY <3>1, <3>3, <3>5 DEF Fits
    <3> QED
      BY <3>5, <3>6 DEF raced, token
  <2>14. /\ req'[r] \in Request /\ Fits(req'[r])
         /\ req'[r].pc = "mark" /\ req'[r].at = at /\ req'[r].token = NoSession
    <3>1. req'[r] = [req[r] EXCEPT !.pc = "mark"]
      BY <2>1 DEF Race
    <3>2. /\ req'[r] \in Request /\ req'[r].pc = "mark" /\ req'[r].at = at
          /\ req'[r].token = NoSession /\ req'[r].u = u
      BY <1>2, <3>1 DEF Request, Pcs
    <3>3. Fits(req'[r])
      BY <1>2, <3>2 DEF Fits
    <3> QED
      BY <3>2, <3>3
  <2>15. RequestTypes'
    <3>1. req' = [o \in Requests |-> req'[o]]
      BY <2>1 DEF Race
    <3>2. begun' \in Nat
      BY <2>1 DEF TypeOK, RequestTypes
    <3>3. \A o \in Requests : req'[o] \in Request /\ Fits(req'[o])
      BY <2>13, <2>14
    <3> QED
      BY <3>1, <3>2, <3>3 DEF RequestTypes
  <2>16. ASSUME NEW o \in Requests \ {r}
         PROVE  Knows(req[o])'
    <3>1. /\ req[o] \in Request /\ Fits(req[o]) /\ Knows(req[o])
          /\ req[o].token \in Token /\ Live(req[o].token)
      BY RequestOf
    <3>2. req'[o].pc = req[o].pc /\ req'[o].u = req[o].u /\ req'[o].at = req[o].at
          /\ req'[o].row = req[o].row /\ req'[o].token = late(req[o].token)
          /\ req'[o].raced = (req[o].raced \/ req[o].u = u)
      BY <2>13
    <3>3. /\ late(req[o].token) = NoSession <=> req[o].token = NoSession
          /\ req[o].token # NoSession =>
               /\ late(req[o].token).user = req[o].token.user
               /\ late(req[o].token).resets = req[o].token.resets
               /\ req[o].token.raced => late(req[o].token).raced
      BY <2>8, <3>1
    <3>4. late(req[o].token) # NoSession =>
            \/ late(req[o].token).resets = user'[late(req[o].token).user].resets
            \/ late(req[o].token).raced
            \/ late(req[o].token).iat < user'[late(req[o].token).user].changed
      BY <2>9, <3>1
    <3>5. late(req[o].token).user = req[o].token.user
      <4>1. CASE req[o].token = NoSession
        BY <3>3, <4>1
      <4>2. CASE req[o].token # NoSession
        BY <3>3, <4>2
      <4> QED
        BY <4>1, <4>2
    <3> HIDE DEF late
    <3>6. Live(req[o].token)'
      BY <3>2, <3>4 DEF Live
    <3>7. (req[o].pc \in {"stamp", "sign"} => Signable(req[o]))'
      <4>1. CASE req[o].u = u
        BY <3>2, <4>1 DEF Signable
      <4>2. CASE req[o].u # u /\ req[o].pc \in {"stamp", "sign"}
        <5>1. user'[req[o].u] = user[req[o].u] /\ Signable(req[o])
          BY <2>4, <3>1, <4>2 DEF Fits, Knows
        <5> QED
          BY <3>2, <3>3, <5>1 DEF Signable
      <4> QED
        BY <3>2, <4>1, <4>2
    <3>8. (req[o].pc \in {"claim", "mark"} => req[o].at <= now)'
      BY <1>1, <3>1, <3>2 DEF Knows
    <3>9. (req[o].pc \in {"assign", "activate"} => req[o].u # req[o].token.user)'
      BY <3>1, <3>2, <3>5 DEF Knows
    <3>10. (req[o].pc = "insert user" => ~user[req[o].u].there)'
      BY <2>4, <3>1, <3>2 DEF Knows, Fits
    <3> QED
      BY <3>6, <3>7, <3>8, <3>9, <3>10 DEF Knows
  <2>17. Knows(req[r])'
    BY <1>1, <1>2, <2>14 DEF Knows, Live
  <2>18. Known'
    BY <2>16, <2>17 DEF Known
  <2>19. Inserts'
    <3>1. \A o \in Requests : req'[o].pc = "insert user" =>
            o # r /\ req[o].pc = "insert user" /\ req'[o].u = req[o].u
      BY <2>13, <2>14
    <3> QED
      BY <3>1 DEF AccessInv, Inserts
  <2>20. RowTypes'
    BY <1>1, <2>4, <2>7, <2>11 DEF TypeOK, RowTypes, tenant, redis
  <2>21. Marks'
    BY <1>1, <2>4 DEF redis, AccessInv, Marks
  <2>22. OneResetPerLink'
    BY <2>6 DEF OneResetPerLink
  <2>23. AdminRemains'
    <3>1. ActiveAdmins \subseteq ActiveAdmins'
      BY <2>4 DEF ActiveAdmins
    <3> QED
      BY <1>1, <3>1, AdminsKept
  <2> QED
    BY <2>12, <2>15, <2>18, <2>19, <2>20, <2>21, <2>22, <2>23 DEF TypeOK, AccessInv
<1> QED
  BY <1>3, <1>4 DEF Claim
-----------------------------------------------------------------------------
LEMMA InitHolds == ASSUME Init PROVE TypeOK /\ AccessInv
<1>1. PICK start \in offer.starts :
        LET held == {x \in Roles : \E u \in Users : x \in start.users[u].roles} IN
        /\ user = start.users
        /\ link = start.links
        /\ \E grants \in [held -> Grants] :
             /\ role = [x \in Roles |-> IF x \in held
                  THEN [there |-> TRUE, grants |-> grants[x], edited |-> 0]
                  ELSE [there |-> FALSE, grants |-> {}, edited |-> Never]]
             /\ cache = [x \in Roles |-> IF x \in start.cached
                  THEN [grants |-> grants[x], until |-> CacheTTL] ELSE NoEntry]
  BY DEF Init
<1> DEFINE held == {x \in Roles : \E u \in Users : x \in start.users[u].roles}
<1>2. Sound(start) /\ offer \in Offers
  BY AccessAssumption DEF AccessAssumption, Init
<1>3. PICK grants \in [held -> Grants] :
             /\ role = [x \in Roles |-> IF x \in held
                  THEN [there |-> TRUE, grants |-> grants[x], edited |-> 0]
                  ELSE [there |-> FALSE, grants |-> {}, edited |-> Never]]
             /\ cache = [x \in Roles |-> IF x \in start.cached
                  THEN [grants |-> grants[x], until |-> CacheTTL] ELSE NoEntry]
  BY <1>1
<1>4. \A x \in start.cached : x \in held
  BY <1>2 DEF Sound
<1> HIDE DEF held
<1>5. \A x \in held : grants[x] \in Bound
  BY <1>3 DEF Bound
<1>6. role \in [Roles -> RoleRow]
  BY <1>3, <1>5, IdleIsRequest DEF RoleRow, Never
<1>7. cache \in [Roles -> [grants : Bound, until : Nat]]
  <2>1. NoEntry \in [grants : Bound, until : Nat] /\ CacheTTL \in Nat
    BY IdleIsRequest, AccessAssumption DEF NoEntry, AccessAssumption
  <2> QED
    BY <1>3, <1>4, <1>5, <2>1
<1>8. user \in [Users -> UserRow] /\ link \in [Links -> LinkRow]
  BY <1>1, <1>2 DEF Sound
<1>9. ASSUME NEW b \in Browsers
      PROVE  browser[b] \in Token /\ Live(browser[b])
  <2> DEFINE s == [user |-> b, roles |-> user[b].roles, demo |-> FALSE, trial |-> Never,
                   iat |-> 0, resets |-> 0, raced |-> FALSE]
  <2>1. browser[b] = IF b \in Users /\ user[b].there THEN s ELSE NoSession
    BY DEF Init
  <2>2. CASE b \in Users /\ browser[b] = s
    <3>1. user[b].roles \in SUBSET AllRoles /\ user[b].resets = 0
      BY <1>1, <1>2, <1>8, <2>2 DEF UserRow, Sound
    <3>2. s \in Session
      BY <2>2, <3>1 DEF Session, Never
    <3> QED
      BY <2>2, <3>1, <3>2 DEF Live, Token
  <2>3. CASE browser[b] = NoSession
    BY <2>3 DEF Live, Token
  <2> HIDE DEF s
  <2> QED
    BY <2>1, <2>2, <2>3
<1>10. browser \in [Browsers -> Token]
  <2>1. browser = [b \in Browsers |-> browser[b]]
    BY DEF Init
  <2> QED
    BY <1>9, <2>1
<1>11. marker \in [Users -> [at : Nat, until : Nat]]
  BY DEF Init, NoMarker
<1>12. RowTypes
  <2>1. now \in Nat /\ outdated \in BOOLEAN /\ enabled \in SUBSET Modules
        /\ pages \in [Pages -> SUBSET Modules] /\ meant \in [Pages -> SUBSET Modules]
        /\ torn \in SUBSET Pages
    BY DEF Init
  <2> QED
    BY <1>2, <1>6, <1>7, <1>8, <1>10, <1>11, <2>1 DEF RowTypes
<1>13. \A r \in Requests : req[r] = Idle
  BY DEF Init
<1>14. RequestTypes
  <2>1. begun \in Nat /\ req = [r \in Requests |-> Idle]
    BY DEF Init
  <2> QED
    BY <1>13, <2>1, IdleIsRequest DEF RequestTypes
<1>15. Known /\ Inserts
  <2>1. Idle.pc = "idle" /\ Knows(Idle)
    BY DEF Idle, Knows, Live
  <2> QED
    BY <1>13, <2>1 DEF Known, Inserts
<1>16. Sessions
  BY <1>9 DEF Sessions
<1>17. Marks
  BY <1>1, <1>2 DEF Marks, Sound
<1>18. OneResetPerLink
  BY <1>1, <1>2 DEF OneResetPerLink, Sound
<1>19. AdminRemains
  BY <1>1, <1>2 DEF AdminRemains, ActiveAdmins, Sound
<1> QED
  BY <1>12, <1>14, <1>15, <1>16, <1>17, <1>18, <1>19 DEF TypeOK, AccessInv

LEMMA StutterKeeps == ASSUME TypeOK, AccessInv, UNCHANGED vars PROVE TypeOK' /\ AccessInv'
<1>1. UNCHANGED <<now, user, role, tenant, link, redis, browser, req, begun, offer, outdated>>
  BY DEF vars
<1>2. TypeOK'
  BY <1>1 DEF TypeOK, RowTypes, RequestTypes, tenant, redis
<1>3. Known'
  BY <1>1 DEF AccessInv, Known, Knows, Live, Signable
<1>4. Inserts' /\ Sessions' /\ Marks' /\ OneResetPerLink' /\ AdminRemains'
  BY <1>1 DEF redis, AccessInv, Inserts, Sessions, Live, Marks, OneResetPerLink, AdminRemains,
     ActiveAdmins
<1> QED
  BY <1>2, <1>3, <1>4 DEF AccessInv

LEMMA BeginKeeps ==
  ASSUME TypeOK, AccessInv, NEW r \in Requests, Begin(r)
  PROVE  TypeOK' /\ AccessInv'
<1>1. ASSUME NEW b \in Browsers,
             \/ \E u \in Users : BeginLogin(r, b, u)
             \/ BeginRefresh(r, b) \/ Logout(r, b)
             \/ \E u \in Users, roles \in {{x} : x \in AllRoles} :
                  BeginAssign(r, b, u, roles) \/ BeginCreateUser(r, b, u, roles)
             \/ \E u \in Users, on \in BOOLEAN : BeginActivate(r, b, u, on)
             \/ \E x \in Roles, g \in Grants : CreateRole(r, b, x, g) \/ BeginEdit(r, b, x, g)
             \/ \E x \in Roles : BeginRemove(r, b, x)
             \/ \E route \in offer.calls : BeginCall(r, b, route)
      PROVE  TypeOK' /\ AccessInv'
  BY <1>1, LoginKeeps, RefreshKeeps, EntersKeep, AdminBegins, OtherBegins
<1>2. ASSUME \/ \E u \in Users : BeginForgot(r, u) \/ BeginDemo(r, u)
             \/ \E u \in Users, more \in BOOLEAN : SetTrial(r, u, more)
             \/ \E l \in Links : BeginReset(r, l)
             \/ \E p \in Pages, ms \in SUBSET Modules : BeginPages(r, p, ms)
             \/ \E m \in Modules, on \in BOOLEAN : SetModule(r, m, on)
      PROVE  TypeOK' /\ AccessInv'
  BY <1>2, ResetBegins, TrialKeeps, EntersKeep, OtherBegins
<1> QED
  BY <1>1, <1>2 DEF Begin

LEMMA StepKeeps ==
  ASSUME TypeOK, AccessInv, NEW r \in Requests, Step(r)
  PROVE  TypeOK' /\ AccessInv'
<1>1. CASE \/ Stamp(r) \/ Sign(r) \/ Hash(r) \/ Claim(r) \/ Mark(r)
           \/ \E l \in Links : NewLink(r, l)
  BY <1>1, StampKeeps, SignKeeps, HashKeeps, ClaimKeeps, MarkKeeps, NewLinkKeeps
<1>2. CASE \/ Assign(r) \/ Activate(r) \/ InsertUser(r) \/ Edit(r) \/ CountRoles(r)
           \/ Delete(r) \/ Invalidate(r) \/ ClearPage(r) \/ FillPage(r)
  BY <1>2, AssignKeeps, ActivateKeeps, InsertKeeps, RoleSteps, DeleteKeeps, PageSteps
<1>3. CASE \/ CheckToken(r) \/ CheckPermission(r) \/ ReadPage(r) \/ CheckModule(r) \/ CheckWho(r)
           \/ \E x \in Roles : LoadRole(r, x) \/ StoreRole(r, x)
  BY <1>3, GuardSteps, LoadSteps
<1> QED
  BY <1>1, <1>2, <1>3 DEF Step

(* The invariant and the types are kept by every step.                     *)
LEMMA AccessInvariant == Spec => [](TypeOK /\ AccessInv)
<1>1. Init => TypeOK /\ AccessInv
  BY InitHolds
<1>2. (TypeOK /\ AccessInv) /\ [Next]_vars => (TypeOK /\ AccessInv)'
  BY TickKeeps, BeginKeeps, StepKeeps, CrashKeeps, StutterKeeps DEF Next
<1> QED
  BY <1>1, <1>2, PTL DEF Spec

(* The type invariant: users, roles, links, copies and requests, and what  *)
(* a request carries at each point of its way.                             *)
THEOREM AccessTypes == Spec => []TypeOK
  BY AccessInvariant, PTL

(* OneResetPerLink: resets with one link, beside each other or beside a    *)
(* new request, change the password at most once.                          *)
THEOREM LinksResetOnce == Spec => []OneResetPerLink
<1>1. AccessInv => OneResetPerLink
  BY DEF AccessInv
<1> QED
  BY <1>1, AccessInvariant, PTL

(* AdminRemains: users and roles are changed by administrators who do not  *)
(* act on themselves, and the administrators' role is not removed.         *)
THEOREM TenantKeepsAdmin == Spec => []AdminRemains
<1>1. AccessInv => AdminRemains
  BY DEF AccessInv
<1> QED
  BY <1>1, AccessInvariant, PTL
-----------------------------------------------------------------------------
LEMMA BeginEnters == ASSUME NEW o \in Requests, Begin(o) PROVE \E new : Enter(o, new)
<1>1. ASSUME NEW b \in Browsers, NEW u, NEW roles,
             \/ BeginAssign(o, b, u, roles) \/ BeginCreateUser(o, b, u, roles)
             \/ BeginActivate(o, b, u, roles) \/ BeginEdit(o, b, u, roles) \/ BeginRemove(o, b, u)
      PROVE  \E new : Enter(o, new)
  BY <1>1, Zenon
  DEF BeginAssign, BeginCreateUser, BeginActivate, BeginEdit, BeginRemove, BeginAct
<1>2. ASSUME NEW b \in Browsers, NEW u, NEW g,
             \/ BeginLogin(o, b, u) \/ BeginRefresh(o, b) \/ Logout(o, b)
             \/ CreateRole(o, b, u, g) \/ BeginCall(o, b, u)
      PROVE  \E new : Enter(o, new)
  BY <1>2, Zenon DEF BeginLogin, BeginRefresh, Logout, CreateRole, BeginCall
<1>3. ASSUME NEW u, NEW g,
             \/ BeginForgot(o, u) \/ BeginDemo(o, u) \/ SetTrial(o, u, g)
             \/ BeginReset(o, u) \/ BeginPages(o, u, g) \/ SetModule(o, u, g)
      PROVE  \E new : Enter(o, new)
  BY <1>3, Zenon DEF BeginForgot, BeginDemo, SetTrial, BeginReset, BeginPages, SetModule
<1> QED
  BY <1>1, <1>2, <1>3, Zenon DEF Begin

(* A token is passed by the check of its own request only.                 *)
LEMMA TokensPassByCheck ==
  ASSUME TypeOK, Next, NEW r \in Requests, req[r].pc = "jwt",
         req'[r].pc \in {"module", "permission"}
  PROVE  CheckToken(r)
<1>1. req \in [Requests -> Request]
  BY DEF TypeOK, RequestTypes
<1>2. ~Tick
  BY DEF Tick
<1>3. ASSUME NEW o \in Requests, Begin(o) PROVE FALSE
  <2>1. PICK new : Enter(o, new)
    BY <1>3, BeginEnters
  <2>2. o # r
    BY <2>1 DEF Enter, Open
  <2>3. req'[r] \in {[req[r] EXCEPT !.lone = FALSE], req[r]}
    BY <2>1, <2>2 DEF Enter
  <2>4. req'[r].pc = req[r].pc
    BY <1>1, <2>3 DEF Request
  <2> QED
    BY <2>4
<1>4. ASSUME NEW o \in Requests, NEW pc, Goto(o, pc), o # r PROVE FALSE
  BY <1>1, <1>4 DEF Goto
<1>5. \A o \in Requests : ~Crash(o)
  <2>1. ~Goto(r, "idle")
    BY <1>1 DEF Goto, Idle
  <2> QED
    BY <1>4, <2>1 DEF Crash, Answer
<1>6. ASSUME NEW o \in Requests, o # r, Step(o) PROVE FALSE
  <2>1. CASE \/ Stamp(o) \/ Hash(o) \/ CountRoles(o) \/ ReadPage(o)
             \/ \E x \in Roles : LoadRole(o, x) \/ StoreRole(o, x)
    BY <1>1, <1>6, <2>1 DEF Stamp, Hash, CountRoles, ReadPage, LoadRole, StoreRole
  <2>2. CASE Claim(o)
    <3>1. CASE Race(o, req[o].u)
      <4>1. req[r] \in Request
        BY <1>1
      <4>2. \E raced, token : req'[r] = [req[r] EXCEPT !.raced = raced, !.token = token]
        BY <1>6, <3>1 DEF Race
      <4>3. req'[r].pc = req[r].pc
        BY <4>1, <4>2 DEF Request
      <4> QED
        BY <4>3
    <3>2. CASE Answer(o)
      BY <1>4, <1>6, <3>2 DEF Answer
    <3> QED
      BY <2>2, <3>1, <3>2 DEF Claim
  <2>3. CASE \/ Sign(o) \/ Mark(o) \/ \E l \in Links : NewLink(o, l)
             \/ Assign(o) \/ Activate(o) \/ InsertUser(o) \/ Edit(o)
             \/ Delete(o) \/ Invalidate(o) \/ ClearPage(o) \/ FillPage(o)
    BY <1>4, <1>6, <2>3
    DEF Sign, Mark, NewLink, Assign, Activate, InsertUser, Edit, Delete, Invalidate,
        ClearPage, FillPage, Answer
  <2>4. CASE CheckToken(o) \/ CheckPermission(o) \/ CheckModule(o) \/ CheckWho(o)
    BY <1>4, <1>6, <2>4 DEF CheckToken, CheckPermission, CheckModule, CheckWho
  <2> QED
    BY <1>6, <2>1, <2>2, <2>3, <2>4 DEF Step
<1>7. Step(r) => CheckToken(r)
  BY DEF Step, Stamp, Sign, Hash, Claim, Mark, NewLink, Assign, Activate, InsertUser, Edit,
     CountRoles, Delete, Invalidate, ClearPage, FillPage, CheckPermission, ReadPage,
     CheckModule, CheckWho, LoadRole, StoreRole
<1> QED
  BY <1>2, <1>3, <1>5, <1>6, <1>7 DEF Next

(* SessionsEndAtReset: a session from before the last reset passes no      *)
(* check, but within the life of an access token after it, and then only   *)
(* where Redis does not know of that reset or does not answer.             *)
THEOREM ResetEndsSessions == Spec => SessionsEndAtReset
<1> DEFINE Ended(r) ==
      LET t == req[r].token  u == user[t.user] IN
      /\ req[r].pc = "jwt" /\ ~req[r].route.public
      /\ req'[r].pc \in {"module", "permission"}
      => \/ t.resets = u.resets
         \/ t.raced
         \/ (u.unmarked \/ RedisFails) /\ now < u.changed + AccessTTL
<1>1. ASSUME TypeOK, AccessInv, Next, NEW r \in Requests
      PROVE  Ended(r)
  <2> DEFINE t == req[r].token  u == user[t.user]
  <2> SUFFICES ASSUME req[r].pc = "jwt", ~req[r].route.public,
                      req'[r].pc \in {"module", "permission"},
                      t.resets # u.resets, ~t.raced
               PROVE  (u.unmarked \/ RedisFails) /\ now < u.changed + AccessTTL
    OBVIOUS
  <2>1. CheckToken(r)
    BY <1>1, TokensPassByCheck
  <2>2. /\ req \in [Requests -> Request] /\ t \in Token /\ Live(t)
        /\ now \in Nat
    BY <1>1, RequestOf DEF TypeOK, RowTypes, RequestTypes
  <2>3. ~Goto(r, "idle")
    BY <2>2 DEF Goto, Idle
  <2>4. Unexpired(t) /\ (RedisFails \/ ~Marked(t))
    BY <2>1, <2>3 DEF CheckToken
  <2>5. t \in Session /\ t.user \in Users /\ t.iat \in Nat /\ now < t.iat + AccessTTL
    BY <2>2, <2>4 DEF Unexpired, Token, Session
  <2>6. t.iat < u.changed
    BY <2>2, <2>4 DEF Live, Unexpired
  <2>7. /\ u.changed \in Nat /\ AccessTTL \in Nat /\ MarkerTTL \in Nat
        /\ AccessTTL < MarkerTTL /\ marker[t.user].at \in Nat /\ marker[t.user].until \in Nat
    BY <1>1, <2>5, AccessAssumption DEF AccessAssumption, TypeOK, RowTypes, UserRow
  <2>8. now < u.changed + AccessTTL
    BY <2>2, <2>5, <2>6, <2>7
  <2>9. u.unmarked \/ RedisFails
    <3> SUFFICES ASSUME ~u.unmarked, ~RedisFails PROVE FALSE
      OBVIOUS
    <3>1. \/ u.changed = 0
          \/ marker[t.user].at = u.changed /\ marker[t.user].until >= u.changed + MarkerTTL
      BY <1>1, <2>5 DEF AccessInv, Marks
    <3>2. u.changed # 0
      BY <2>5, <2>6, <2>7
    <3>3. ~(now < marker[t.user].until /\ t.iat < marker[t.user].at)
      BY <2>4 DEF Marked, IssuedBefore
    <3> QED
      BY <2>2, <2>5, <2>6, <2>7, <2>8, <3>1, <3>2, <3>3
  <2> QED
    BY <2>8, <2>9
<1>2. TypeOK /\ AccessInv /\ [Next]_vars => [\A r \in Requests : Ended(r)]_vars
  BY <1>1
<1> QED
  BY <1>2, AccessInvariant, PTL DEF Spec, SessionsEndAtReset
-----------------------------------------------------------------------------
(* Requests beside each other.  A step begins a request, moves one on, or  *)
(* is a tick; to all other requests it does nothing but take away that     *)
(* they are alone, or mark the session they bear as raced.                 *)
Kin(t, s) ==
  \/ t = s
  \/ /\ t # NoSession /\ s # NoSession
     /\ t.user = s.user /\ t.roles = s.roles /\ t.iat = s.iat
Stays(p, q) ==
  /\ p.pc = q.pc /\ p.u = q.u /\ p.x = q.x /\ p.set = q.set /\ p.row = q.row
  /\ p.route = q.route /\ p.loads = q.loads /\ p.since = q.since
  /\ p.lone => q.lone
  /\ Kin(p.token, q.token)
Enters(r) ==
  /\ ~Open(r) /\ req'[r].since = now
  /\ req'[r].lone => \A o \in Requests \ {r} : ~Open(o)
  /\ \A o \in Requests \ {r} : Stays(req'[o], req[o]) /\ (Open(o) => ~req'[o].lone)
Goes(r) ==
  /\ Open(r)
  /\ Open(r)' => req'[r].since = req[r].since /\ req'[r].lone = req[r].lone
  /\ \A o \in Requests \ {r} : Stays(req'[o], req[o])

LEMMA StaysSame == ASSUME NEW q PROVE Stays(q, q)
  BY DEF Stays, Kin

(* A request that arrives is what new says, alone if no other is open.     *)
LEMMA Entered ==
  ASSUME TypeOK, NEW r \in Requests, NEW new, DOMAIN new = DOMAIN Idle, Enter(r, new)
  PROVE  /\ Enters(r)
         /\ \A f \in {"pc", "u", "x", "set", "row", "token", "route", "loads"} :
              req'[r][f] = new[f]
<1>1. \A o \in Requests : req[o] \in Request
  BY DEF TypeOK, RequestTypes
<1>2. PICK others : /\ others = {o \in Requests \ {r} : Open(o)}
                    /\ req' = [o \in Requests |->
                         IF o = r THEN [new EXCEPT !.since = now, !.lone = (others = {})]
                         ELSE IF o \in others THEN [req[o] EXCEPT !.lone = FALSE]
                         ELSE req[o]]
  BY DEF Enter
<1>3. req'[r] = [new EXCEPT !.since = now, !.lone = (others = {})]
  BY <1>2
<1>4. DOMAIN new = {"pc", "b", "u", "x", "set", "row", "token", "route", "loads", "at",
                    "since", "lone", "raced"}
  BY DEF Idle
<1>5. /\ req'[r].since = now /\ req'[r].lone = (others = {})
      /\ \A f \in {"pc", "u", "x", "set", "row", "token", "route", "loads"} :
              req'[r][f] = new[f]
  BY <1>3, <1>4
<1>6. ASSUME NEW o \in Requests \ {r}
      PROVE  Stays(req'[o], req[o]) /\ (Open(o) => ~req'[o].lone)
  <2>1. CASE Open(o)
    <3>1. req'[o] = [req[o] EXCEPT !.lone = FALSE]
      BY <1>2, <2>1
    <3>. QED
      BY <1>1, <3>1 DEF Request, Stays, Kin
  <2>2. CASE ~Open(o)
    <3>1. req'[o] = req[o]
      BY <1>2, <2>2
    <3>. QED
      BY <2>2, <3>1, StaysSame
  <2>. QED
    BY <2>1, <2>2
<1>7. ~Open(r) /\ (others = {} => \A o \in Requests \ {r} : ~Open(o))
  BY <1>2 DEF Enter
<1>. QED
  BY <1>5, <1>6, <1>7 DEF Enters

(* A request that goes on leaves all others as they are.                   *)
LEMMA Gone ==
  ASSUME TypeOK, NEW r \in Requests, Open(r), NEW new, req' = [req EXCEPT ![r] = new],
         Open(r)' => new.since = req[r].since /\ new.lone = req[r].lone
  PROVE  Goes(r) /\ req'[r] = new
<1>1. req \in [Requests -> Request]
  BY DEF TypeOK, RequestTypes
<1>2. req'[r] = new /\ \A o \in Requests \ {r} : req'[o] = req[o]
  BY <1>1
<1>. QED
  BY <1>2, StaysSame DEF Goes

LEMMA WentTo ==
  ASSUME TypeOK, NEW r \in Requests, Open(r), NEW pc, Goto(r, pc)
  PROVE  /\ Goes(r) /\ req'[r].pc = pc
         /\ \/ pc \in {"idle", "in"} /\ req'[r].token = NoSession
            \/ pc \notin {"idle", "in"} /\ req'[r] = [req[r] EXCEPT !.pc = pc]
<1>1. req \in [Requests -> Request] /\ req[r] \in Request
  BY DEF TypeOK, RequestTypes
<1>2. CASE pc \in {"idle", "in"}
  <2>1. req' = [req EXCEPT ![r] = [Idle EXCEPT !.pc = pc]]
    BY <1>2 DEF Goto
  <2>2. req'[r] = [Idle EXCEPT !.pc = pc]
    BY <1>1, <2>1
  <2>3. req'[r].pc = pc /\ req'[r].token = NoSession
    BY <2>2 DEF Idle
  <2>4. ~Open(r)'
    BY <1>2, <2>3 DEF Open
  <2>. QED
    BY <1>2, <2>1, <2>3, <2>4, Gone
<1>3. CASE pc \notin {"idle", "in"}
  <2>1. req' = [req EXCEPT ![r] = [req[r] EXCEPT !.pc = pc]]
    BY <1>1, <1>3 DEF Goto
  <2>2. [req[r] EXCEPT !.pc = pc].since = req[r].since
        /\ [req[r] EXCEPT !.pc = pc].lone = req[r].lone /\ [req[r] EXCEPT !.pc = pc].pc = pc
    BY <1>1 DEF Request
  <2>. QED
    BY <1>3, <2>1, <2>2, Gone
<1>. QED
  BY <1>2, <1>3
-----------------------------------------------------------------------------
(* What a request is when it has just begun.                               *)
LoggingIn(r, u) ==
  /\ user[u].there /\ user[u].active
  /\ req'[r].pc = "stamp" /\ req'[r].u = u /\ req'[r].row = user[u]
  /\ req'[r].token = NoSession
Refreshing(r, b) ==
  /\ browser[b] # NoSession /\ user[browser[b].user].there /\ user[browser[b].user].active
  /\ req'[r].pc = "sign" /\ req'[r].u = browser[b].user
  /\ req'[r].row = user[browser[b].user] /\ req'[r].token = browser[b]
Calling(r, b) ==
  /\ browser[b] # NoSession
  /\ req'[r].pc = "jwt" /\ req'[r].token = browser[b]
  /\ req'[r].loads = [x \in browser[b].roles \intersect Roles |-> ToLoad]
Counting(r, b) ==
  /\ req'[r].pc = "count" /\ req'[r].token = browser[b]
  /\ req'[r].set = {u \in Users : req'[r].x \in user[u].roles}
Early == {"idle", "new link", "hash", "assign", "activate", "insert user", "edit", "clear page"}
Elsewise(r) ==
  /\ req'[r].pc \in Early
  /\ req'[r].token = NoSession \/ \E b \in Browsers : req'[r].token = browser[b]

LEMMA SessionsBegin ==
  ASSUME TypeOK, NEW r \in Requests, NEW b \in Browsers
  PROVE  /\ \A u \in Users : BeginLogin(r, b, u) => Enters(r) /\ LoggingIn(r, u)
         /\ BeginRefresh(r, b) => Enters(r) /\ Refreshing(r, b)
         /\ \A route \in Calls : BeginCall(r, b, route) => Enters(r) /\ Calling(r, b)
<1>1. ASSUME NEW u \in Users, BeginLogin(r, b, u) PROVE Enters(r) /\ LoggingIn(r, u)
  <2>. DEFINE new == [Idle EXCEPT !.pc = "stamp", !.b = b, !.u = u, !.row = user[u]]
  <2>1. DOMAIN new = DOMAIN Idle /\ new.pc = "stamp" /\ new.u = u /\ new.row = user[u]
        /\ new.token = NoSession
    BY DEF Idle
  <2>2. Enter(r, new) /\ user[u].there /\ user[u].active
    BY <1>1 DEF BeginLogin
  <2>. HIDE DEF new
  <2>. QED
    BY <2>1, <2>2, Entered DEF LoggingIn
<1>2. ASSUME BeginRefresh(r, b) PROVE Enters(r) /\ Refreshing(r, b)
  <2>. DEFINE t == browser[b]
              new == [Idle EXCEPT !.pc = "sign", !.b = b, !.u = t.user, !.row = user[t.user],
                                  !.token = t]
  <2>1. DOMAIN new = DOMAIN Idle /\ new.pc = "sign" /\ new.u = t.user
        /\ new.row = user[t.user] /\ new.token = t
    BY DEF Idle
  <2>2. Enter(r, new) /\ t # NoSession /\ user[t.user].there /\ user[t.user].active
    BY <1>2 DEF BeginRefresh
  <2>. HIDE DEF new
  <2>. QED
    BY <2>1, <2>2, Entered DEF Refreshing
<1>3. ASSUME NEW route \in Calls, BeginCall(r, b, route) PROVE Enters(r) /\ Calling(r, b)
  <2>. DEFINE loads == [x \in browser[b].roles \intersect Roles |-> ToLoad]
              new == [Idle EXCEPT !.pc = "jwt", !.b = b, !.token = browser[b],
                                  !.route = route, !.loads = loads]
  <2>1. DOMAIN new = DOMAIN Idle /\ new.pc = "jwt" /\ new.token = browser[b]
        /\ new.loads = loads
    BY DEF Idle
  <2>2. Enter(r, new) /\ browser[b] # NoSession
    BY <1>3 DEF BeginCall
  <2>. HIDE DEF new
  <2>. QED
    BY <2>1, <2>2, Entered DEF Calling
<1>. QED
  BY <1>1, <1>2, <1>3

(* What a session's administrator begins.                                  *)
LEMMA ActsBegin ==
  ASSUME TypeOK, NEW r \in Requests, NEW b \in Browsers, NEW new,
         DOMAIN new = DOMAIN Idle, BeginAct(r, b, new)
  PROVE  /\ Enters(r) /\ req'[r].token = browser[b] /\ req'[r].pc = new.pc
         /\ req'[r].set = new.set /\ req'[r].x = new.x
<1>. DEFINE act == [new EXCEPT !.b = b, !.token = browser[b]]
<1>1. Enter(r, act)
  BY DEF BeginAct
<1>2. /\ DOMAIN act = DOMAIN Idle /\ act.token = browser[b] /\ act.pc = new.pc
      /\ act.set = new.set /\ act.x = new.x
  BY DEF Idle
<1>. HIDE DEF act
<1>. QED
  BY <1>1, <1>2, Entered

LEMMA AdministrationBegins ==
  ASSUME TypeOK, NEW r \in Requests, NEW b \in Browsers
  PROVE  /\ \A u \in Users : \A roles : BeginAssign(r, b, u, roles) => Enters(r) /\ Elsewise(r)
         /\ \A u \in Users : \A on : BeginActivate(r, b, u, on) => Enters(r) /\ Elsewise(r)
         /\ \A u \in Users : \A roles : BeginCreateUser(r, b, u, roles) => Enters(r) /\ Elsewise(r)
         /\ \A x \in Roles : \A grants : BeginEdit(r, b, x, grants) => Enters(r) /\ Elsewise(r)
         /\ \A x \in Roles : BeginRemove(r, b, x) => Enters(r) /\ Counting(r, b)
<1>1. ASSUME NEW u \in Users, NEW roles, BeginAssign(r, b, u, roles)
      PROVE  Enters(r) /\ Elsewise(r)
  <2>. DEFINE new == [Idle EXCEPT !.pc = "assign", !.u = u, !.set = roles]
  <2>1. DOMAIN new = DOMAIN Idle /\ new.pc = "assign"
    BY DEF Idle
  <2>2. BeginAct(r, b, new)
    BY <1>1 DEF BeginAssign
  <2>. HIDE DEF new
  <2>. QED
    BY <2>1, <2>2, ActsBegin DEF Elsewise, Early
<1>2. ASSUME NEW u \in Users, NEW on, BeginActivate(r, b, u, on)
      PROVE  Enters(r) /\ Elsewise(r)
  <2>. DEFINE new == [Idle EXCEPT !.pc = "activate", !.u = u, !.set = IF on THEN {u} ELSE {}]
  <2>1. DOMAIN new = DOMAIN Idle /\ new.pc = "activate"
    BY DEF Idle
  <2>2. BeginAct(r, b, new)
    BY <1>2 DEF BeginActivate
  <2>. HIDE DEF new
  <2>. QED
    BY <2>1, <2>2, ActsBegin DEF Elsewise, Early
<1>3. ASSUME NEW u \in Users, NEW roles, BeginCreateUser(r, b, u, roles)
      PROVE  Enters(r) /\ Elsewise(r)
  <2>. DEFINE new == [Idle EXCEPT !.pc = "insert user", !.u = u, !.set = roles]
  <2>1. DOMAIN new = DOMAIN Idle /\ new.pc = "insert user"
    BY DEF Idle
  <2>2. BeginAct(r, b, new)
    BY <1>3 DEF BeginCreateUser
  <2>. HIDE DEF new
  <2>. QED
    BY <2>1, <2>2, ActsBegin DEF Elsewise, Early
<1>4. ASSUME NEW x \in Roles, NEW grants, BeginEdit(r, b, x, grants)
      PROVE  Enters(r) /\ Elsewise(r)
  <2>. DEFINE new == [Idle EXCEPT !.pc = "edit", !.x = x, !.set = grants]
  <2>1. DOMAIN new = DOMAIN Idle /\ new.pc = "edit"
    BY DEF Idle
  <2>2. BeginAct(r, b, new)
    BY <1>4 DEF BeginEdit
  <2>. HIDE DEF new
  <2>. QED
    BY <2>1, <2>2, ActsBegin DEF Elsewise, Early
<1>5. ASSUME NEW x \in Roles, BeginRemove(r, b, x)
      PROVE  Enters(r) /\ Counting(r, b)
  <2>. DEFINE set == {u \in Users : x \in user[u].roles}
              new == [Idle EXCEPT !.pc = "count", !.x = x, !.set = set]
  <2>1. DOMAIN new = DOMAIN Idle /\ new.pc = "count" /\ new.x = x /\ new.set = set
    BY DEF Idle
  <2>2. BeginAct(r, b, new)
    BY <1>5 DEF BeginRemove
  <2>. HIDE DEF new
  <2>. QED
    BY <2>1, <2>2, ActsBegin DEF Counting
<1>. QED
  BY <1>1, <1>2, <1>3, <1>4, <1>5

LEMMA OthersBegin ==
  ASSUME TypeOK, NEW r \in Requests
  PROVE  /\ \A u \in Users : BeginForgot(r, u) \/ BeginDemo(r, u) => Enters(r) /\ Elsewise(r)
         /\ \A l \in Links : BeginReset(r, l) => Enters(r) /\ Elsewise(r)
         /\ \A p \in Pages : \A ms : BeginPages(r, p, ms) => Enters(r) /\ Elsewise(r)
         /\ Enter(r, Idle) => Enters(r) /\ Elsewise(r)
<1>0. ASSUME NEW new, DOMAIN new = DOMAIN Idle, new.token = NoSession, new.pc \in Early,
             Enter(r, new)
      PROVE  Enters(r) /\ Elsewise(r)
  BY <1>0, Entered DEF Elsewise
<1>1. ASSUME NEW u \in Users, BeginForgot(r, u) PROVE Enters(r) /\ Elsewise(r)
  <2>. DEFINE new == [Idle EXCEPT !.pc = "new link", !.u = u]
  <2>1. DOMAIN new = DOMAIN Idle /\ new.token = NoSession /\ new.pc \in Early
    BY DEF Idle, Early
  <2>2. Enter(r, new)
    BY <1>1 DEF BeginForgot
  <2>. HIDE DEF new
  <2>. QED
    BY <1>0, <2>1, <2>2
<1>2. ASSUME NEW u \in Users, BeginDemo(r, u) PROVE Enters(r) /\ Elsewise(r)
  <2>. DEFINE new == [Idle EXCEPT !.pc = "insert user", !.u = u, !.set = {Admin}]
  <2>1. DOMAIN new = DOMAIN Idle /\ new.token = NoSession /\ new.pc \in Early
    BY DEF Idle, Early
  <2>2. Enter(r, new)
    BY <1>2 DEF BeginDemo
  <2>. HIDE DEF new
  <2>. QED
    BY <1>0, <2>1, <2>2
<1>3. ASSUME NEW l \in Links, BeginReset(r, l) PROVE Enters(r) /\ Elsewise(r)
  <2>. DEFINE new == [Idle EXCEPT !.pc = "hash", !.u = link[l].user, !.x = l]
  <2>1. DOMAIN new = DOMAIN Idle /\ new.token = NoSession /\ new.pc \in Early
    BY DEF Idle, Early
  <2>2. Enter(r, new)
    BY <1>3 DEF BeginReset
  <2>. HIDE DEF new
  <2>. QED
    BY <1>0, <2>1, <2>2
<1>4. ASSUME NEW p \in Pages, NEW ms, BeginPages(r, p, ms) PROVE Enters(r) /\ Elsewise(r)
  <2>. DEFINE new == [Idle EXCEPT !.pc = "clear page", !.x = p, !.set = ms]
  <2>1. DOMAIN new = DOMAIN Idle /\ new.token = NoSession /\ new.pc \in Early
    BY DEF Idle, Early
  <2>2. Enter(r, new)
    BY <1>4 DEF BeginPages
  <2>. HIDE DEF new
  <2>. QED
    BY <1>0, <2>1, <2>2
<1>5. Idle.token = NoSession /\ Idle.pc \in Early
  BY DEF Idle, Early
<1>. QED
  BY <1>0, <1>1, <1>2, <1>3, <1>4, <1>5

(* A request begins as one of these.                                       *)
LEMMA Arrivals ==
  ASSUME TypeOK, NEW r \in Requests, Begin(r)
  PROVE  /\ Enters(r)
         /\ \/ \E u \in Users : LoggingIn(r, u)
            \/ \E b \in Browsers : Refreshing(r, b) \/ Calling(r, b) \/ Counting(r, b)
            \/ Elsewise(r)
<1>. DEFINE Goal == /\ Enters(r)
                    /\ \/ \E u \in Users : LoggingIn(r, u)
                       \/ \E b \in Browsers :
                            Refreshing(r, b) \/ Calling(r, b) \/ Counting(r, b)
                       \/ Elsewise(r)
<1>1. ASSUME NEW b \in Browsers, \E u \in Users : BeginLogin(r, b, u) PROVE Goal
  BY <1>1, SessionsBegin
<1>2. ASSUME NEW b \in Browsers, BeginRefresh(r, b) PROVE Goal
  BY <1>2, SessionsBegin
<1>3. ASSUME NEW b \in Browsers, \E route \in offer.calls : BeginCall(r, b, route) PROVE Goal
  <2>1. offer.calls \subseteq Calls
    BY DEF TypeOK, RowTypes, Calls
  <2>. QED
    BY <1>3, <2>1, SessionsBegin
<1>4. Enter(r, Idle) => Goal
  BY OthersBegin
<1>5. ASSUME NEW b \in Browsers, \/ Logout(r, b)
                                 \/ \E x \in Roles, g \in Grants : CreateRole(r, b, x, g)
      PROVE  Goal
  BY <1>4, <1>5, Zenon DEF Logout, CreateRole
<1>6. ASSUME \/ \E u \in Users, more \in BOOLEAN : SetTrial(r, u, more)
             \/ \E m \in Modules, on \in BOOLEAN : SetModule(r, m, on)
      PROVE  Goal
  BY <1>4, <1>6, Zenon DEF SetTrial, SetModule
<1>7. ASSUME NEW b \in Browsers,
             \/ \E u \in Users, roles \in {{x} : x \in AllRoles} :
                  BeginAssign(r, b, u, roles) \/ BeginCreateUser(r, b, u, roles)
             \/ \E u \in Users, on \in BOOLEAN : BeginActivate(r, b, u, on)
             \/ \E x \in Roles, g \in Grants : BeginEdit(r, b, x, g)
             \/ \E x \in Roles : BeginRemove(r, b, x)
      PROVE  Goal
  BY <1>7, AdministrationBegins
<1>8. ASSUME \/ \E u \in Users : BeginForgot(r, u) \/ BeginDemo(r, u)
             \/ \E l \in Links : BeginReset(r, l)
             \/ \E p \in Pages, ms \in SUBSET Modules : BeginPages(r, p, ms)
      PROVE  Goal
  BY <1>8, OthersBegin
<1>. HIDE DEF Goal
<1>9. Goal
  BY <1>1, <1>2, <1>3, <1>5, <1>6, <1>7, <1>8 DEF Begin
<1>. QED
  BY <1>9 DEF Goal
-----------------------------------------------------------------------------
(* A request that goes on: what its new point says of the step.            *)
Onward(r) ==
  /\ req'[r].pc \notin {"stamp", "count", "jwt"}
  /\ req'[r].pc = "sign" => Stamp(r)
  /\ req'[r].pc = "delete" => CountRoles(r)
  /\ req'[r].pc = "fill page" => ClearPage(r)
  /\ req'[r].pc = "permission" =>
       CheckToken(r) \/ \E x \in Roles : LoadRole(r, x) \/ StoreRole(r, x)
  /\ req'[r].pc = "enabled" => ReadPage(r)
  /\ req'[r].pc = "who" => ReadPage(r) \/ CheckModule(r)
  /\ req'[r].pc = "in" => CheckWho(r)
  /\ req'[r].token = NoSession \/ Kin(req'[r].token, req[r].token)
Moves(r) == Goes(r) /\ Onward(r)

\* A step to a point that no guard and no transaction waits at.
Calm == {"idle", "claim", "mark", "invalidate", "module"}
LEMMA CalmMoves ==
  ASSUME NEW r \in Requests, Goes(r), req'[r].pc \in Calm,
         req'[r].token = NoSession \/ Kin(req'[r].token, req[r].token)
  PROVE  Moves(r)
  BY DEF Moves, Onward, Calm

LEMMA GotoCalm ==
  ASSUME TypeOK, NEW r \in Requests, Open(r), NEW pc \in Calm, Goto(r, pc)
  PROVE  Moves(r)
<1>1. Goes(r) /\ req'[r].pc = pc
      /\ (req'[r].token = NoSession \/ req'[r] = [req[r] EXCEPT !.pc = pc])
  BY WentTo
<1>2. req[r] \in Request
  BY DEF TypeOK, RequestTypes
<1>3. req'[r].token = NoSession \/ Kin(req'[r].token, req[r].token)
  BY <1>1, <1>2 DEF Request, Kin
<1>. QED
  BY <1>1, <1>3, CalmMoves

LEMMA SessionMoves ==
  ASSUME TypeOK, NEW r \in Requests,
         \/ Stamp(r) \/ Sign(r) \/ Hash(r) \/ Claim(r) \/ Mark(r)
         \/ \E l \in Links : NewLink(r, l)
  PROVE  Moves(r)
<1>0. req \in [Requests -> Request] /\ req[r] \in Request
  BY DEF TypeOK, RequestTypes
<1>1. CASE Stamp(r)
  <2>1. PICK trial : req' = [req EXCEPT ![r].pc = "sign", ![r].row.trial = trial]
    BY <1>1 DEF Stamp
  <2>. DEFINE new == [req[r] EXCEPT !.pc = "sign", !.row.trial = trial]
  <2>2. req' = [req EXCEPT ![r] = new]
    BY <1>0, <2>1
  <2>3. new.since = req[r].since /\ new.lone = req[r].lone /\ new.token = req[r].token
        /\ new.pc = "sign"
    BY <1>0 DEF Request
  <2>4. Open(r)
    BY <1>1 DEF Stamp, Open
  <2>. HIDE DEF new
  <2>5. Goes(r) /\ req'[r] = new
    BY <2>2, <2>3, <2>4, Gone
  <2>. QED
    BY <1>1, <2>3, <2>5 DEF Moves, Onward, Kin
<1>2. CASE Hash(r)
  <2>. DEFINE new == [req[r] EXCEPT !.pc = "claim", !.at = now]
  <2>1. req' = [req EXCEPT ![r] = new]
    BY <1>0, <1>2 DEF Hash
  <2>2. new.since = req[r].since /\ new.lone = req[r].lone /\ new.token = req[r].token
        /\ new.pc = "claim"
    BY <1>0 DEF Request
  <2>3. Open(r)
    BY <1>2 DEF Hash, Open
  <2>. HIDE DEF new
  <2>4. Goes(r) /\ req'[r] = new
    BY <2>1, <2>2, <2>3, Gone
  <2>. QED
    BY <2>2, <2>4, CalmMoves DEF Calm, Kin
<1>3. ASSUME Answer(r), Open(r) PROVE Moves(r)
  BY <1>3, GotoCalm DEF Answer, Calm
<1>4. CASE Sign(r) \/ Mark(r) \/ \E l \in Links : NewLink(r, l)
  BY <1>3, <1>4 DEF Sign, Mark, NewLink, Open
<1>5. CASE Claim(r)
  <2>1. Open(r) /\ (Answer(r) \/ Race(r, req[r].u))
    BY <1>5 DEF Claim, Open
  <2>2. CASE Race(r, req[r].u)
    <3>1. req'[r] = [req[r] EXCEPT !.pc = "mark"]
      BY <2>2 DEF Race
    <3>2. req'[r].pc = "mark" /\ req'[r].since = req[r].since /\ req'[r].lone = req[r].lone
          /\ req'[r].token = req[r].token
      BY <1>0, <3>1 DEF Request
    <3>3. ASSUME NEW o \in Requests \ {r} PROVE Stays(req'[o], req[o])
      <4>0. req[o] \in Request
        BY <1>0
      <4>1. PICK raced, token :
              /\ req'[o] = [req[o] EXCEPT !.raced = raced, !.token = token]
              /\ \/ token = req[o].token
                 \/ token = [req[o].token EXCEPT !.raced = TRUE] /\ req[o].token # NoSession
        BY <2>2 DEF Race
      <4>2. Kin(token, req[o].token)
        <5>1. CASE token = req[o].token
          BY <5>1 DEF Kin
        <5>2. CASE token = [req[o].token EXCEPT !.raced = TRUE] /\ req[o].token # NoSession
          <6>1. req[o].token \in Session
            BY <4>0, <5>2 DEF Request, Token
          <6>2. token.user = req[o].token.user /\ token.roles = req[o].token.roles
                /\ token.iat = req[o].token.iat /\ token.user \in Users
            BY <5>2, <6>1 DEF Session
          <6>3. token # NoSession
            BY <6>2, AccessAssumption DEF AccessAssumption, NoSession
          <6>. QED
            BY <5>2, <6>2, <6>3 DEF Kin
        <5>. QED
          BY <4>1, <5>1, <5>2
      <4>3. /\ req'[o].token = token /\ req'[o].lone = req[o].lone
            /\ req'[o].pc = req[o].pc /\ req'[o].u = req[o].u /\ req'[o].x = req[o].x
            /\ req'[o].set = req[o].set /\ req'[o].row = req[o].row
            /\ req'[o].route = req[o].route /\ req'[o].loads = req[o].loads
            /\ req'[o].since = req[o].since
        BY <4>0, <4>1 DEF Request
      <4>. QED
        BY <4>2, <4>3 DEF Stays
    <3>4. Goes(r)
      BY <2>1, <3>2, <3>3 DEF Goes
    <3>. QED
      BY <3>2, <3>4, CalmMoves DEF Calm, Kin
  <2>. QED
    BY <1>3, <2>1, <2>2
<1>. QED
  BY <1>1, <1>2, <1>4, <1>5

LEMMA RoleMoves ==
  ASSUME TypeOK, NEW r \in Requests,
         \/ Assign(r) \/ Activate(r) \/ InsertUser(r) \/ Edit(r) \/ CountRoles(r)
         \/ Delete(r) \/ Invalidate(r) \/ ClearPage(r) \/ FillPage(r) \/ Crash(r)
  PROVE  Moves(r)
<1>0. req \in [Requests -> Request] /\ req[r] \in Request
  BY DEF TypeOK, RequestTypes
<1>1. ASSUME Answer(r) \/ Goto(r, "invalidate"), Open(r) PROVE Moves(r)
  BY <1>1, GotoCalm DEF Answer, Calm
<1>2. CASE Assign(r) \/ Activate(r) \/ InsertUser(r) \/ Edit(r) \/ Delete(r) \/ Invalidate(r)
           \/ FillPage(r) \/ Crash(r)
  BY <1>1, <1>2
  DEF Assign, Activate, InsertUser, Edit, Delete, Invalidate, FillPage, Crash, Open
<1>3. CASE CountRoles(r)
  <2>1. PICK set : req' = [req EXCEPT ![r].pc = "delete", ![r].set = set]
    BY <1>3 DEF CountRoles
  <2>. DEFINE new == [req[r] EXCEPT !.pc = "delete", !.set = set]
  <2>2. req' = [req EXCEPT ![r] = new]
    BY <1>0, <2>1
  <2>3. new.since = req[r].since /\ new.lone = req[r].lone /\ new.token = req[r].token
        /\ new.pc = "delete"
    BY <1>0 DEF Request
  <2>4. Open(r)
    BY <1>3 DEF CountRoles, Open
  <2>. HIDE DEF new
  <2>5. Goes(r) /\ req'[r] = new
    BY <2>2, <2>3, <2>4, Gone
  <2>. QED
    BY <1>3, <2>3, <2>5 DEF Moves, Onward, Kin
<1>4. CASE ClearPage(r)
  <2>1. Goto(r, "fill page") /\ Open(r)
    BY <1>4 DEF ClearPage, Open
  <2>2. Goes(r) /\ req'[r] = [req[r] EXCEPT !.pc = "fill page"] /\ req'[r].pc = "fill page"
    BY <2>1, WentTo
  <2>3. req'[r].token = req[r].token
    BY <1>0, <2>2 DEF Request
  <2>. QED
    BY <1>4, <2>2, <2>3 DEF Moves, Onward, Kin
<1>. QED
  BY <1>2, <1>3, <1>4

LEMMA GuardMoves ==
  ASSUME TypeOK, NEW r \in Requests,
         \/ CheckToken(r) \/ CheckPermission(r) \/ ReadPage(r) \/ CheckModule(r)
         \/ CheckWho(r) \/ \E x \in Roles : LoadRole(r, x) \/ StoreRole(r, x)
  PROVE  Moves(r)
<1>0. req \in [Requests -> Request] /\ req[r] \in Request
  BY DEF TypeOK, RequestTypes
<1>1. ASSUME NEW pc \in {"permission", "who", "in"}, Goto(r, pc), Open(r)
      PROVE  /\ Goes(r) /\ req'[r].pc = pc
             /\ req'[r].token = NoSession \/ Kin(req'[r].token, req[r].token)
  <2>1. Goes(r) /\ req'[r].pc = pc
        /\ (req'[r].token = NoSession \/ req'[r] = [req[r] EXCEPT !.pc = pc])
    BY <1>1, WentTo
  <2>. QED
    BY <1>0, <2>1 DEF Request, Kin
<1>2. ASSUME NEW pc \in {"idle", "module"}, Goto(r, pc), Open(r) PROVE Moves(r)
  BY <1>2, GotoCalm DEF Calm
<1>3. CASE CheckToken(r)
  <2>1. Open(r) /\ \E pc \in {"idle", "module", "permission"} : Goto(r, pc)
    BY <1>3 DEF CheckToken, Open, AfterDemo
  <2>2. CASE Goto(r, "permission")
    BY <1>1, <1>3, <2>1, <2>2 DEF Moves, Onward
  <2>. QED
    BY <1>2, <2>1, <2>2
<1>4. CASE CheckPermission(r)
  <2>1. Open(r) /\ (Goto(r, "module") \/ Goto(r, "idle"))
    BY <1>4 DEF CheckPermission, Open
  <2>. QED
    BY <1>2, <2>1
<1>5. CASE CheckModule(r)
  <2>1. Open(r) /\ (Goto(r, "who") \/ Goto(r, "idle"))
    BY <1>5 DEF CheckModule, Open
  <2>2. CASE Goto(r, "who")
    BY <1>1, <1>5, <2>1, <2>2 DEF Moves, Onward
  <2>. QED
    BY <1>2, <2>1, <2>2
<1>6. CASE CheckWho(r)
  <2>1. Open(r) /\ (Goto(r, "in") \/ Goto(r, "idle"))
    BY <1>6 DEF CheckWho, Open
  <2>2. CASE Goto(r, "in")
    BY <1>1, <1>6, <2>1, <2>2 DEF Moves, Onward
  <2>. QED
    BY <1>2, <2>1, <2>2
<1>7. CASE ReadPage(r)
  <2>0. PICK set : req' = [req EXCEPT ![r].pc = IF set = {} THEN "who" ELSE "enabled",
                                      ![r].set = set]
    BY <1>7 DEF ReadPage
  <2>1. PICK pc \in {"who", "enabled"} : req' = [req EXCEPT ![r].pc = pc, ![r].set = set]
    BY <2>0
  <2>. DEFINE new == [req[r] EXCEPT !.pc = pc, !.set = set]
  <2>2. req' = [req EXCEPT ![r] = new]
    BY <1>0, <2>1
  <2>3. new.since = req[r].since /\ new.lone = req[r].lone /\ new.token = req[r].token
        /\ new.pc = pc
    BY <1>0 DEF Request
  <2>4. Open(r)
    BY <1>7 DEF ReadPage, Open
  <2>. HIDE DEF new
  <2>5. Goes(r) /\ req'[r] = new
    BY <2>2, <2>3, <2>4, Gone
  <2>. QED
    BY <1>7, <2>3, <2>5 DEF Moves, Onward, Kin
<1>8. ASSUME NEW x \in Roles, LoadRole(r, x) \/ StoreRole(r, x) PROVE Moves(r)
  <2>1. PICK loads : req' = [req EXCEPT ![r].loads = loads]
    <3>1. CASE LoadRole(r, x)
      <4>1. PICK load : req' = [req EXCEPT ![r].loads[x] = load]
        BY <3>1 DEF LoadRole
      <4>. QED
        BY <4>1
    <3>2. CASE StoreRole(r, x)
      <4>1. req' = [req EXCEPT ![r].loads[x].fill = FALSE]
        BY <3>2 DEF StoreRole
      <4>. QED
        BY <4>1
    <3>. QED
      BY <1>8, <3>1, <3>2
  <2>. DEFINE new == [req[r] EXCEPT !.loads = loads]
  <2>2. req' = [req EXCEPT ![r] = new]
    BY <1>0, <2>1
  <2>3. new.since = req[r].since /\ new.lone = req[r].lone /\ new.token = req[r].token
        /\ new.pc = req[r].pc
    BY <1>0 DEF Request
  <2>4. Open(r) /\ req[r].pc = "permission"
    BY <1>8 DEF LoadRole, StoreRole, Open
  <2>. HIDE DEF new
  <2>5. Goes(r) /\ req'[r] = new
    BY <2>2, <2>3, <2>4, Gone
  <2>. QED
    BY <1>8, <2>3, <2>4, <2>5 DEF Moves, Onward, Kin
<1>. QED
  BY <1>3, <1>4, <1>5, <1>6, <1>7, <1>8

LEMMA Movements ==
  ASSUME TypeOK, NEW r \in Requests, Step(r) \/ Crash(r)
  PROVE  Moves(r)
  BY SessionMoves, RoleMoves, GuardMoves DEF Step

(* What a request that is alone knows is its own: no other is open.        *)
Solitary == \A r, o \in Requests : r # o /\ Open(r) /\ req[r].lone => ~Open(o)

LEMMA SolitaryStep ==
  ASSUME TypeOK, Solitary, [Next]_vars
  PROVE  Solitary'
<1>1. ASSUME NEW r \in Requests, Begin(r) PROVE Solitary'
  BY <1>1, Arrivals DEF Solitary, Enters, Stays, Open
<1>2. ASSUME NEW r \in Requests, Step(r) \/ Crash(r) PROVE Solitary'
  BY <1>2, Movements DEF Solitary, Moves, Goes, Stays, Open
<1>3. ASSUME Tick \/ UNCHANGED vars PROVE Solitary'
  BY <1>3 DEF Tick, vars, Solitary, Open
<1>. QED
  BY <1>1, <1>2, <1>3 DEF Next

LEMMA SolitaryInvariant == Spec => []Solitary
<1>1. Init => Solitary
  BY DEF Init, Solitary, Open, Idle
<1>. QED
  BY <1>1, SolitaryStep, AccessTypes, PTL DEF Spec
-----------------------------------------------------------------------------
(* What beginning writes: most requests nothing, some are one statement.   *)
OneStatement(r) ==
  \/ /\ \E b \in Browsers : browser' = [browser EXCEPT ![b] = NoSession]
     /\ UNCHANGED <<user, role, enabled>>
  \/ /\ \E u \in Users, more \in BOOLEAN : SetTrial(r, u, more)
     /\ UNCHANGED <<browser, role, enabled>>
  \/ /\ \E x \in Roles, g \in Grants :
          role' = [role EXCEPT ![x] = [there |-> TRUE, grants |-> g, edited |-> now]]
     /\ UNCHANGED <<browser, user, enabled>>
  \/ UNCHANGED <<browser, user, role>>

LEMMA BeginWrites ==
  ASSUME TypeOK, NEW r \in Requests, Begin(r)
  PROVE  /\ UNCHANGED <<now, cache, pages, meant, torn>>
         /\ \/ UNCHANGED <<user, role, enabled, browser>>
            \/ req'[r].pc = "idle" /\ OneStatement(r)
<1>. DEFINE Goal == /\ UNCHANGED <<now, cache, pages, meant, torn>>
                    /\ \/ UNCHANGED <<user, role, enabled, browser>>
                       \/ req'[r].pc = "idle" /\ OneStatement(r)
            Plainly == UNCHANGED <<now, cache, pages, meant, torn, user, role, enabled, browser>>
<1>1. ASSUME NEW b, NEW u, NEW roles,
             \/ BeginAssign(r, b, u, roles) \/ BeginCreateUser(r, b, u, roles)
             \/ BeginActivate(r, b, u, roles) \/ BeginEdit(r, b, u, roles) \/ BeginRemove(r, b, u)
             \/ BeginLogin(r, b, u) \/ BeginRefresh(r, b) \/ BeginCall(r, b, u)
             \/ BeginForgot(r, u) \/ BeginDemo(r, u) \/ BeginReset(r, u) \/ BeginPages(r, u, roles)
      PROVE  Goal
  <2>1. ASSUME NEW new, BeginAct(r, b, new) PROVE Plainly
    BY <2>1 DEF BeginAct, tenant, redis
  <2>2. BeginAssign(r, b, u, roles) \/ BeginCreateUser(r, b, u, roles)
        \/ BeginActivate(r, b, u, roles) \/ BeginEdit(r, b, u, roles) \/ BeginRemove(r, b, u)
        => Plainly
    BY <2>1, Zenon
    DEF BeginAssign, BeginCreateUser, BeginActivate, BeginEdit, BeginRemove
  <2>3. BeginLogin(r, b, u) \/ BeginRefresh(r, b) \/ BeginCall(r, b, u)
        \/ BeginForgot(r, u) \/ BeginDemo(r, u) \/ BeginReset(r, u) \/ BeginPages(r, u, roles)
        => Plainly
    BY DEF BeginLogin, BeginRefresh, BeginCall, BeginForgot, BeginDemo, BeginReset, BeginPages,
           tenant, redis
  <2>. QED
    BY <1>1, <2>2, <2>3
<1>2. Enter(r, Idle) => req'[r].pc = "idle"
  <2>1. Idle.pc = "idle"
    BY DEF Idle
  <2>. QED
    BY <2>1, Entered
<1>3. ASSUME NEW b \in Browsers, Logout(r, b) PROVE Goal
  BY <1>2, <1>3 DEF Logout, OneStatement, tenant, redis
<1>4. ASSUME NEW u \in Users, NEW more \in BOOLEAN, SetTrial(r, u, more) PROVE Goal
  <2>1. Enter(r, Idle) /\ UNCHANGED <<now, cache, pages, meant, torn, browser, role, enabled>>
    BY <1>4 DEF SetTrial, tenant, redis
  <2>. QED
    BY <1>2, <1>4, <2>1 DEF OneStatement
<1>5. ASSUME NEW b \in Browsers, NEW x \in Roles, NEW g \in Grants, CreateRole(r, b, x, g)
      PROVE  Goal
  <2>1. /\ Enter(r, Idle) /\ UNCHANGED <<now, cache, pages, meant, torn, browser, user, enabled>>
        /\ role' = [role EXCEPT ![x] = [there |-> TRUE, grants |-> g, edited |-> now]]
    BY <1>5 DEF CreateRole, tenant, redis
  <2>. QED
    BY <1>2, <2>1 DEF OneStatement
<1>6. ASSUME NEW m \in Modules, NEW on \in BOOLEAN, SetModule(r, m, on) PROVE Goal
  BY <1>2, <1>6 DEF SetModule, OneStatement, redis
<1>. HIDE DEF Goal
<1>7. Goal
  BY <1>1, <1>3, <1>4, <1>5, <1>6, Zenon DEF Begin
<1>. QED
  BY <1>7 DEF Goal
-----------------------------------------------------------------------------
(* Removals of a role: while one is alone, it knows who has the role, and  *)
(* then who has no other.                                                  *)
Counted(r) ==
  /\ req[r].pc = "count" => \A u \in Users : req[r].x \in user[u].roles => u \in req[r].set
  /\ req[r].pc = "delete" =>
       \A u \in Users : req[r].x \in user[u].roles /\ user[u].roles \subseteq {req[r].x}
                        => u \in req[r].set
Removals == \A r \in Requests : req[r].lone => Counted(r)

LEMMA RemovalStep ==
  ASSUME TypeOK, Solitary, Removals, [Next]_vars
  PROVE  Removals'
<1>. SUFFICES ASSUME NEW r \in Requests, req'[r].lone PROVE Counted(r)'
  BY DEF Removals
<1>0. req \in [Requests -> Request] /\ req[r] \in Request
  BY DEF TypeOK, RequestTypes
<1>1. ASSUME req'[r].pc \notin {"count", "delete"} PROVE Counted(r)'
  BY <1>1 DEF Counted
<1>3. ASSUME NEW o \in Requests, Begin(o) PROVE Counted(r)'
  <2>0. Enters(o)
    BY <1>3, Arrivals
  <2>1. CASE o # r
    <3>1. Stays(req'[r], req[r]) /\ ~Open(r)
      BY <2>0, <2>1 DEF Enters
    <3>. QED
      BY <1>1, <3>1 DEF Stays, Open
  <2>2. CASE o = r
    <3>1. CASE \E b \in Browsers : Counting(r, b)
      <4>1. req'[r].pc = "count" /\ req'[r].set = {u \in Users : req'[r].x \in user[u].roles}
        BY <3>1 DEF Counting
      <4>2. user' = user
        BY <1>3, <2>2, <4>1, BeginWrites
      <4>. QED
        BY <4>1, <4>2 DEF Counted
    <3>2. CASE ~\E b \in Browsers : Counting(r, b)
      <4>1. req'[r].pc \notin {"count", "delete"}
        BY <1>3, <2>2, <3>2, Arrivals DEF LoggingIn, Refreshing, Calling, Elsewise, Early
      <4>. QED
        BY <1>1, <4>1
    <3>. QED
      BY <3>1, <3>2
  <2>. QED
    BY <2>1, <2>2
<1>4. ASSUME NEW o \in Requests, Step(o) \/ Crash(o) PROVE Counted(r)'
  <2>0. Goes(o) /\ Onward(o)
    BY <1>4, Movements DEF Moves
  <2>1. CASE o # r
    <3>1. Stays(req'[r], req[r]) /\ req[r].lone /\ Open(o)
      BY <2>0, <2>1 DEF Goes, Stays
    <3>2. ~Open(r)
      BY <2>1, <3>1 DEF Solitary
    <3>. QED
      BY <1>1, <3>1, <3>2 DEF Stays, Open
  <2>2. CASE o = r
    <3>1. CASE req'[r].pc = "delete"
      <4>1. CountRoles(r)
        BY <2>0, <2>2, <3>1 DEF Onward
      <4>2. req'[r] = [req[r] EXCEPT !.pc = "delete",
                         !.set = {u \in req[r].set : user[u].roles \subseteq {req[r].x}}]
            /\ req[r].pc = "count" /\ user' = user
        BY <1>0, <4>1 DEF CountRoles
      <4>3. /\ req'[r].set = {u \in req[r].set : user[u].roles \subseteq {req[r].x}}
            /\ req'[r].x = req[r].x /\ req[r].lone
        BY <1>0, <4>2 DEF Request
      <4>4. \A u \in Users : req[r].x \in user[u].roles => u \in req[r].set
        BY <4>2, <4>3 DEF Removals, Counted
      <4>. QED
        BY <3>1, <4>2, <4>3, <4>4 DEF Counted
    <3>2. CASE req'[r].pc # "delete"
      BY <1>1, <2>0, <2>2, <3>2 DEF Onward
    <3>. QED
      BY <3>1, <3>2
  <2>. QED
    BY <2>1, <2>2
<1>5. ASSUME Tick \/ UNCHANGED vars PROVE Counted(r)'
  BY <1>5 DEF Tick, vars, Removals, Counted
<1>. QED
  BY <1>3, <1>4, <1>5 DEF Next

(* LoneRemovalKeepsRoles: RolesService.remove reads the users of the role  *)
(* before its transaction and counts their roles inside it; when nothing   *)
(* runs beside it, whoever is left without a role is given the basic one.  *)
THEOREM RemovalsKeepRoles == Spec => LoneRemovalKeepsRoles
<1>. DEFINE Kept(r) == req[r].pc = "delete" /\ req[r].lone /\ user' # user
                       => \A u \in Users : user[u].roles # {} => user'[u].roles # {}
<1>1. ASSUME TypeOK, Solitary, Removals, Next, NEW r \in Requests PROVE Kept(r)
  <2>. SUFFICES ASSUME req[r].pc = "delete", req[r].lone, user' # user,
                       NEW u \in Users, user[u].roles # {}
                PROVE  user'[u].roles # {}
    OBVIOUS
  <2>0. user[u] \in UserRow /\ Open(r)
    BY <1>1 DEF TypeOK, RowTypes, Open
  <2>1. ~Tick
    BY DEF Tick
  <2>2. ASSUME NEW o \in Requests, Begin(o) PROVE user'[u].roles # {}
    <3>1. PICK v \in Users, more \in BOOLEAN : SetTrial(o, v, more)
      BY <1>1, <2>2, BeginWrites DEF OneStatement
    <3>2. user'[u].roles = user[u].roles
      BY <1>1, <2>0, <3>1 DEF SetTrial, TypeOK, RowTypes, UserRow
    <3>. QED
      BY <3>2
  <2>3. ASSUME NEW o \in Requests, Step(o) \/ Crash(o) PROVE user'[u].roles # {}
    <3>1. o = r
      BY <1>1, <2>0, <2>3, Movements DEF Solitary, Moves, Goes
    <3>2. Delete(r)
      <4>1. ~Crash(r)
        BY DEF Crash
      <4>. QED
        BY <2>3, <3>1, <4>1
        DEF Step, Stamp, Sign, Hash, Claim, Mark, NewLink, Assign, Activate, InsertUser, Edit,
            CountRoles, Invalidate, ClearPage, FillPage, CheckToken, CheckPermission, ReadPage,
            CheckModule, CheckWho, LoadRole, StoreRole
    <3>3. user'[u] = (IF req[r].x \notin user[u].roles /\ u \notin req[r].set THEN user[u]
              ELSE [user[u] EXCEPT !.moved = now,
                      !.roles = (@ \ {req[r].x})
                                  \union (IF u \in req[r].set THEN {Basic} ELSE {})])
      BY <3>2 DEF Delete
    <3>4. req[r].x \in user[u].roles /\ user[u].roles \subseteq {req[r].x} => u \in req[r].set
      BY <1>1 DEF Removals, Counted
    <3>5. CASE req[r].x \notin user[u].roles /\ u \notin req[r].set
      BY <3>3, <3>5
    <3>6. CASE ~(req[r].x \notin user[u].roles /\ u \notin req[r].set)
      <4>1. user'[u].roles = (user[u].roles \ {req[r].x})
                               \union (IF u \in req[r].set THEN {Basic} ELSE {})
        BY <2>0, <3>3, <3>6 DEF UserRow
      <4>. QED
        BY <3>4, <3>6, <4>1
    <3>. QED
      BY <3>5, <3>6
  <2>. QED
    BY <1>1, <2>1, <2>2, <2>3 DEF Next
<1>2. TypeOK /\ Solitary /\ Removals /\ [Next]_vars => [\A r \in Requests : Kept(r)]_vars
  BY <1>1
<1>3. Init => Removals
  BY DEF Init, Removals, Counted, Idle
<1>4. Spec => []Removals
  BY <1>3, RemovalStep, AccessTypes, SolitaryInvariant, PTL DEF Spec
<1>. QED
  BY <1>2, <1>4, AccessTypes, SolitaryInvariant, PTL DEF Spec, LoneRemovalKeepsRoles
-----------------------------------------------------------------------------
(* Pages.  What a page's assignment left whole is what was last given, or  *)
(* one request is about to fill it; a call that is alone has read that.    *)
Fills(r, p) == req[r].pc = "fill page" /\ req[r].x = p
Whole(p) ==
  /\ \A r, o \in Requests : Fills(r, p) /\ Fills(o, p) => r = o
  /\ \A r \in Requests : Fills(r, p) => pages[p] = {} /\ meant[p] = req[r].set
  /\ (\A r \in Requests : ~Fills(r, p)) => pages[p] = meant[p]
Guarded(r, p) ==
  /\ req[r].pc = "enabled" => req[r].set = meant[p]
  /\ req[r].pc = "who" => meant[p] = {} \/ meant[p] \intersect enabled # {}
Guards == \A r \in Requests, p \in Pages \ torn :
            req[r].lone /\ req[r].route.modules = {} /\ req[r].route.page = p
            => Guarded(r, p)
PagesWhole == \A p \in Pages \ torn : Whole(p)

\* Nothing of p but by the two statements of an assignment.
LEMMA PageWrites ==
  ASSUME TypeOK, [Next]_vars, NEW p \in Pages
  PROVE  /\ torn \subseteq torn'
         /\ \/ pages'[p] = pages[p] /\ meant'[p] = meant[p]
            \/ \E r \in Requests : req[r].x = p /\ (ClearPage(r) \/ FillPage(r))
<1>. DEFINE Goal == /\ torn \subseteq torn'
                    /\ \/ pages'[p] = pages[p] /\ meant'[p] = meant[p]
                       \/ \E r \in Requests : req[r].x = p /\ (ClearPage(r) \/ FillPage(r))
<1>0. pages \in [Pages -> SUBSET Modules] /\ meant \in [Pages -> SUBSET Modules]
  BY DEF TypeOK, RowTypes
<1>1. ASSUME NEW r \in Requests, Begin(r) PROVE Goal
  BY <1>1, BeginWrites
<1>2. ASSUME NEW r \in Requests, ClearPage(r) PROVE Goal
  BY <1>0, <1>2 DEF ClearPage
<1>3. ASSUME NEW r \in Requests, FillPage(r) PROVE Goal
  BY <1>0, <1>3 DEF FillPage
<1>4. ASSUME NEW r \in Requests, Crash(r) PROVE Goal
  BY <1>4 DEF Crash
<1>5. ASSUME NEW r \in Requests, Step(r), ~ClearPage(r), ~FillPage(r) PROVE Goal
  <2>1. UNCHANGED tenant
    BY <1>5
    DEF Step, Stamp, Sign, Hash, Claim, Mark, NewLink, Assign, Activate, InsertUser, Edit,
        CountRoles, Delete, Invalidate, CheckToken, CheckPermission, ReadPage,
        CheckModule, CheckWho, LoadRole, StoreRole
  <2>. QED
    BY <2>1 DEF tenant
<1>6. ASSUME Tick \/ UNCHANGED vars PROVE Goal
  BY <1>6 DEF Tick, vars, tenant
<1>. HIDE DEF Goal
<1>7. Goal
  BY <1>1, <1>2, <1>3, <1>4, <1>5, <1>6 DEF Next
<1>. QED
  BY <1>7 DEF Goal

\* The requests that fill p, unless one of them begins to or ends.
LEMMA FillersKept ==
  ASSUME TypeOK, [Next]_vars, NEW p \in Pages, NEW o \in Requests,
         ~(Fills(o, p)' <=> Fills(o, p)) \/ (Fills(o, p) /\ req'[o].set # req[o].set)
  PROVE  ClearPage(o) \/ FillPage(o) \/ Crash(o)
<1>1. ASSUME NEW r \in Requests, Begin(r) PROVE FALSE
  <2>1. Enters(r)
    BY <1>1, Arrivals
  <2>2. CASE r # o
    BY <2>1, <2>2 DEF Enters, Stays, Fills
  <2>3. CASE r = o
    BY <1>1, <2>1, <2>3, Arrivals
    DEF Enters, Open, Fills, LoggingIn, Refreshing, Calling, Counting, Elsewise, Early
  <2>. QED
    BY <2>2, <2>3
<1>2. ASSUME NEW r \in Requests, Step(r) \/ Crash(r) PROVE ClearPage(o) \/ FillPage(o) \/ Crash(o)
  <2>1. Goes(r) /\ Onward(r)
    BY <1>2, Movements DEF Moves
  <2>2. CASE r # o
    BY <2>1, <2>2 DEF Goes, Stays, Fills
  <2>3. CASE r = o
    <3>1. CASE Fills(o, p)'
      BY <2>1, <2>3, <3>1 DEF Onward, Fills
    <3>2. CASE Fills(o, p)
      BY <1>2, <2>3, <3>2
      DEF Fills, Step, Stamp, Sign, Hash, Claim, Mark, NewLink, Assign, Activate, InsertUser,
          Edit, CountRoles, Delete, Invalidate, CheckToken, CheckPermission, ReadPage,
          CheckModule, CheckWho, LoadRole, StoreRole
    <3>. QED
      BY <3>1, <3>2 DEF Fills
  <2>. QED
    BY <2>2, <2>3
<1>3. ASSUME Tick \/ UNCHANGED vars PROVE FALSE
  BY <1>3 DEF Tick, vars, Fills
<1>. QED
  BY <1>1, <1>2, <1>3 DEF Next

LEMMA WholeStep ==
  ASSUME TypeOK, PagesWhole, [Next]_vars
  PROVE  PagesWhole'
<1>. SUFFICES ASSUME NEW p \in Pages, p \notin torn' PROVE Whole(p)'
  BY DEF PagesWhole
<1>0. Whole(p) /\ p \notin torn
  BY PageWrites DEF PagesWhole
<1>t. /\ req \in [Requests -> Request]
      /\ pages \in [Pages -> SUBSET Modules] /\ meant \in [Pages -> SUBSET Modules]
  BY DEF TypeOK, RowTypes, RequestTypes
<1>1. ASSUME NEW r \in Requests, req[r].x = p, ClearPage(r) PROVE Whole(p)'
  <2>1. \A o \in Requests \ {r} : ~Fills(o, p)
    BY <1>0, <1>1 DEF ClearPage, Fills
  <2>2. pages'[p] = {} /\ meant'[p] = req[r].set
    BY <1>t, <1>1 DEF ClearPage
  <2>3. Goto(r, "fill page") /\ Open(r)
    BY <1>1 DEF ClearPage, Open
  <2>4. Goes(r)
    BY <2>3, WentTo
  <2>5. Fills(r, p)' /\ req'[r].set = req[r].set
    <3>1. req'[r] = [req[r] EXCEPT !.pc = "fill page"]
      BY <2>3, WentTo
    <3>2. req[r] \in Request
      BY <1>t
    <3>3. req'[r].pc = "fill page" /\ req'[r].x = req[r].x /\ req'[r].set = req[r].set
      BY <3>1, <3>2 DEF Request
    <3>. QED
      BY <1>1, <3>3 DEF Fills
  <2>6. ASSUME NEW o \in Requests \ {r} PROVE ~Fills(o, p)'
    <3>1. Stays(req'[o], req[o])
      BY <2>4 DEF Goes
    <3>. QED
      BY <2>1, <3>1 DEF Stays, Fills
  <2>. QED
    BY <2>2, <2>5, <2>6 DEF Whole
<1>2. ASSUME NEW r \in Requests, req[r].x = p, FillPage(r) PROVE Whole(p)'
  <2>1. Fills(r, p)
    BY <1>2 DEF FillPage, Fills
  <2>2. pages[p] = {} /\ meant[p] = req[r].set
    BY <1>0, <2>1 DEF Whole
  <2>3. pages'[p] = req[r].set /\ meant'[p] = meant[p]
    BY <1>t, <1>2, <2>2 DEF FillPage
  <2>4. Goto(r, "idle") /\ Open(r)
    BY <1>2 DEF FillPage, Answer, Open
  <2>5. req'[r].pc = "idle" /\ Goes(r)
    BY <2>4, WentTo
  <2>6. ASSUME NEW o \in Requests PROVE ~Fills(o, p)'
    <3>1. CASE o = r
      BY <2>5, <3>1 DEF Fills
    <3>2. CASE o # r
      <4>1. Stays(req'[o], req[o])
        BY <2>5, <3>2 DEF Goes
      <4>2. ~Fills(o, p)
        BY <1>0, <2>1, <3>2 DEF Whole
      <4>. QED
        BY <4>1, <4>2 DEF Stays, Fills
    <3>. QED
      BY <3>1, <3>2
  <2>. QED
    BY <2>2, <2>3, <2>6 DEF Whole
<1>3. ASSUME pages'[p] = pages[p], meant'[p] = meant[p],
             \A r \in Requests : ~(req[r].x = p /\ (ClearPage(r) \/ FillPage(r)))
      PROVE  Whole(p)'
  <2>1. ASSUME NEW o \in Requests
        PROVE  (Fills(o, p)' <=> Fills(o, p)) /\ (Fills(o, p) => req'[o].set = req[o].set)
    <3>. SUFFICES ASSUME \/ ~(Fills(o, p)' <=> Fills(o, p))
                         \/ Fills(o, p) /\ req'[o].set # req[o].set
                  PROVE  FALSE
      OBVIOUS
    <3>1. ClearPage(o) \/ FillPage(o) \/ Crash(o)
      BY FillersKept
    <3>2. CASE Crash(o)
      <4>1. req'[o].pc = "idle"
        BY <3>2, WentTo DEF Crash, Answer
      <4>2. Fills(o, p)
        BY <4>1 DEF Fills
      <4>3. p \in torn'
        BY <3>2, <4>2 DEF Crash, Fills
      <4>. QED
        BY <4>3
    <3>3. CASE ClearPage(o) \/ FillPage(o)
      <4>1. Goes(o) /\ req[o].pc \in {"clear page", "fill page"}
        BY <3>3, RoleMoves DEF Moves, ClearPage, FillPage
      <4>2. CASE ClearPage(o)
        <5>1. req'[o] = [req[o] EXCEPT !.pc = "fill page"]
          BY <4>2, WentTo DEF ClearPage, Open
        <5>2. req[o] \in Request /\ req[o].pc = "clear page"
          BY <1>t, <4>2 DEF ClearPage
        <5>3. req'[o].x = req[o].x
          BY <5>1, <5>2 DEF Request
        <5>. QED
          BY <1>3, <3>3, <5>2, <5>3 DEF Fills
      <4>3. CASE FillPage(o)
        <5>1. req'[o].pc = "idle"
          BY <4>3, WentTo DEF FillPage, Answer, Open
        <5>. QED
          BY <1>3, <3>3, <5>1 DEF Fills
      <4>. QED
        BY <3>3, <4>2, <4>3
    <3>. QED
      BY <3>1, <3>2, <3>3
  <2>. QED
    BY <1>0, <1>3, <2>1, Zenon DEF Whole
<1>. QED
  BY <1>1, <1>2, <1>3, PageWrites

LEMMA GuardStep ==
  ASSUME TypeOK, Solitary, PagesWhole, Guards, [Next]_vars
  PROVE  Guards'
<1>. SUFFICES ASSUME NEW r \in Requests, NEW p \in Pages, p \notin torn',
                     req'[r].lone, req'[r].route.modules = {}, req'[r].route.page = p
              PROVE  Guarded(r, p)'
  BY DEF Guards
<1>0. ASSUME req'[r].pc \notin {"enabled", "who"} PROVE Guarded(r, p)'
  BY <1>0 DEF Guarded
<1>1. p \notin torn /\ p # NoPage /\ req[r] \in Request
  BY PageWrites DEF Pages, TypeOK, RequestTypes
<1>2. ASSUME NEW o \in Requests, Begin(o) PROVE Guarded(r, p)'
  <2>0. Enters(o)
    BY <1>2, Arrivals
  <2>1. CASE o # r
    <3>1. Stays(req'[r], req[r]) /\ ~Open(r)
      BY <2>0, <2>1 DEF Enters
    <3>. QED
      BY <1>0, <3>1 DEF Stays, Open
  <2>2. CASE o = r
    BY <1>0, <1>2, <2>2, Arrivals
    DEF LoggingIn, Refreshing, Calling, Counting, Elsewise, Early
  <2>. QED
    BY <2>1, <2>2
<1>3. ASSUME NEW o \in Requests, o # r, Step(o) \/ Crash(o) PROVE Guarded(r, p)'
  <2>0. Goes(o)
    BY <1>3, Movements DEF Moves
  <2>1. Stays(req'[r], req[r]) /\ req[r].lone /\ Open(o)
    BY <1>3, <2>0 DEF Goes, Stays
  <2>2. ~Open(r)
    BY <1>3, <2>1 DEF Solitary
  <2>. QED
    BY <1>0, <2>1, <2>2 DEF Stays, Open
<1>4. ASSUME Step(r) \/ Crash(r), req'[r].pc \in {"enabled", "who"} PROVE Guarded(r, p)'
  <2>0. Goes(r) /\ Onward(r)
    BY <1>4, Movements DEF Moves
  <2>1. req[r].lone
    BY <1>4, <2>0 DEF Goes, Open
  <2>2. CASE ReadPage(r)
    <3>. DEFINE wanted == IF req[r].route.modules # {} THEN req[r].route.modules
                          ELSE IF req[r].route.page = NoPage THEN {}
                          ELSE pages[req[r].route.page]
    <3>1. req[r].pc = "module" /\ UNCHANGED tenant
          /\ req' = [req EXCEPT ![r].pc = IF wanted = {} THEN "who" ELSE "enabled",
                                ![r].set = wanted]
      BY <2>2 DEF ReadPage
    <3>. HIDE DEF wanted
    <3>2. req'[r] = [req[r] EXCEPT !.pc = IF wanted = {} THEN "who" ELSE "enabled",
                                   !.set = wanted]
      BY <3>1 DEF TypeOK, RequestTypes
    <3>3. /\ req'[r].pc = (IF wanted = {} THEN "who" ELSE "enabled")
          /\ req'[r].set = wanted /\ req'[r].route = req[r].route
      BY <1>1, <3>2 DEF Request
    <3>4. wanted = pages[p]
      BY <1>1, <3>3 DEF wanted
    <3>5. pages[p] = meant[p]
      <4>1. \A o \in Requests : ~Fills(o, p)
        <5>1. Open(r)
          BY <3>1 DEF Open
        <5>. QED
          BY <2>1, <3>1, <5>1 DEF Solitary, Fills, Open
      <4>. QED
        BY <1>1, <4>1 DEF PagesWhole, Whole
    <3>6. meant' = meant
      BY <3>1 DEF tenant
    <3>. QED
      BY <3>3, <3>4, <3>5, <3>6 DEF Guarded
  <2>3. CASE CheckModule(r) /\ req'[r].pc = "who"
    <3>1. Goto(r, IF req[r].set \intersect enabled # {} THEN "who" ELSE "idle")
          /\ req[r].pc = "enabled" /\ UNCHANGED tenant
      BY <2>3 DEF CheckModule
    <3>2. Open(r)
      BY <3>1 DEF Open
    <3>3. req[r].set \intersect enabled # {}
      BY <2>3, <3>1, <3>2, WentTo
    <3>4. req'[r] = [req[r] EXCEPT !.pc = "who"]
      BY <3>1, <3>2, <3>3, WentTo
    <3>5. req'[r].route = req[r].route
      BY <1>1, <3>4 DEF Request
    <3>6. Guarded(r, p)
      BY <1>1, <2>1, <3>5 DEF Guards
    <3>7. meant[p] \intersect enabled # {}
      BY <3>1, <3>3, <3>6 DEF Guarded
    <3>. QED
      BY <2>3, <3>1, <3>7 DEF Guarded, tenant
  <2>. QED
    BY <1>4, <2>0, <2>2, <2>3 DEF Onward
<1>5. ASSUME Tick \/ UNCHANGED vars PROVE Guarded(r, p)'
  <2>1. UNCHANGED <<tenant, req>>
    BY <1>5 DEF Tick, vars
  <2>. QED
    BY <1>1, <2>1 DEF tenant, Guards, Guarded
<1>. QED
  BY <1>0, <1>2, <1>3, <1>4, <1>5 DEF Next

(* PageStaysClosed: PlatformAdminService deletes and inserts a page's      *)
(* modules by two statements, and ModuleGuard reads the page's modules and *)
(* the tenant's one after the other; but for an assignment that was cut    *)
(* short or crossed, a call that runs alone is let onto the page only if   *)
(* the tenant has a module that the page was last given.                   *)
THEOREM PagesStayClosed == Spec => PageStaysClosed
<1>. DEFINE Shut(r) ==
       LET p == req[r].route.page IN
       /\ req[r].pc = "who" /\ req'[r].pc = "in" /\ req[r].lone
       /\ req[r].route.modules = {} /\ p # NoPage
       => p \in torn \/ meant[p] = {} \/ meant[p] \intersect enabled # {}
<1>1. ASSUME TypeOK, Guards, NEW r \in Requests PROVE Shut(r)
  <2>. DEFINE p == req[r].route.page
  <2>. SUFFICES ASSUME req[r].pc = "who", req[r].lone, req[r].route.modules = {}, p # NoPage,
                       p \notin torn
                PROVE  meant[p] = {} \/ meant[p] \intersect enabled # {}
    OBVIOUS
  <2>1. req[r].route \in Calls \union {Route}
    BY <1>1 DEF TypeOK, RequestTypes, Request
  <2>2. Route.page = NoPage
    BY DEF Route
  <2>3. p \in Pages
    BY <2>1, <2>2 DEF Pages
  <2>4. Guarded(r, p)
    BY <1>1, <2>3 DEF Guards
  <2>. QED
    BY <2>4 DEF Guarded
<1>2. TypeOK /\ Guards /\ [Next]_vars => [\A r \in Requests : Shut(r)]_vars
  BY <1>1
<1>3. ASSUME Init PROVE PagesWhole /\ Guards
  <2>1. \A r \in Requests : req[r].pc = "idle"
    BY <1>3 DEF Init, Idle
  <2>2. pages = meant
    BY <1>3 DEF Init
  <2>. QED
    BY <2>1, <2>2 DEF PagesWhole, Whole, Fills, Guards, Guarded
<1>4. Spec => [](PagesWhole /\ Guards)
  <2>1. TypeOK /\ Solitary /\ (PagesWhole /\ Guards) /\ [Next]_vars => (PagesWhole /\ Guards)'
    BY WholeStep, GuardStep
  <2>. QED
    BY <1>3, <2>1, AccessTypes, SolitaryInvariant, PTL DEF Spec
<1>. QED
  BY <1>2, <1>4, AccessTypes, PTL DEF Spec, PageStaysClosed
-----------------------------------------------------------------------------
(* The lives of the copies.  Whatever changes a row writes the time, so    *)
(* that a copy that differs from its row is dated from before the change;  *)
(* a step of delay between reading and storing is one tick at most.        *)
Timely == \A r \in Requests : Open(r) => req[r].since <= now /\ now <= req[r].since + 1
Copied(t) == t # NoSession =>
  /\ user[t.user].there /\ t.iat <= now
  /\ user[t.user].active \/ t.iat <= user[t.user].off + 1
  /\ \A x \in t.roles : x \in user[t.user].roles \/ t.iat <= user[t.user].moved + 1
Signed(q) == q.pc \in {"stamp", "sign"} =>
  /\ user[q.u].there
  /\ user[q.u].active \/ q.since <= user[q.u].off
  /\ \A x \in q.row.roles : x \in user[q.u].roles \/ q.since <= user[q.u].moved
Cached(x) ==
  /\ cache[x].until <= now + CacheTTL
  /\ cache[x].grants = role[x].grants \/ cache[x].until <= role[x].edited + CacheTTL + 1

\* What a role's copy in the hands of a request is like.
Fetched(x, load, since) ==
  /\ load.fill => load.grants = role[x].grants \/ since <= role[x].edited
  /\ \/ load = ToLoad
     \/ load.grants = role[x].grants
     \/ since <= role[x].edited + CacheTTL
Loading(q) ==
  /\ q.pc \in {"jwt", "permission"} => DOMAIN q.loads = q.token.roles \intersect Roles
  /\ q.pc = "jwt" => \A x \in DOMAIN q.loads : q.loads[x] = ToLoad
  /\ q.pc = "permission" =>
       /\ q.token # NoSession /\ q.since < q.token.iat + AccessTTL
       /\ q.route.need.page # NoPage
       /\ \A x \in DOMAIN q.loads : Fetched(x, q.loads[x], q.since)

\* How the rows change: not, or with the time.
UserMoves(u) ==
  user[u].there =>
    /\ user'[u].there
    /\ user'[u].active \/ user'[u].off = now \/ (~user[u].active /\ user'[u].off = user[u].off)
    /\ \/ user'[u].roles = user[u].roles /\ user'[u].moved = user[u].moved
       \/ user'[u].moved = now
RoleMoved(x) ==
  \/ role'[x].grants = role[x].grants /\ role'[x].edited = role[x].edited
  \/ role'[x].edited = now

\* A step that is not a tick takes no time; who changes what.
LEMMA StepWrites ==
  ASSUME NEW r \in Requests, Step(r) \/ Crash(r)
  PROVE  /\ now' = now
         /\ \/ UNCHANGED user
            \/ Stamp(r) \/ Claim(r) \/ Mark(r) \/ Assign(r) \/ Activate(r) \/ InsertUser(r)
            \/ Delete(r)
         /\ UNCHANGED role \/ Edit(r) \/ Delete(r)
         /\ UNCHANGED cache \/ Invalidate(r) \/ \E x \in Roles : StoreRole(r, x)
         /\ UNCHANGED browser \/ Sign(r) \/ Claim(r)
<1>1. CASE Crash(r)
  BY <1>1 DEF Crash, redis
<1>2. CASE \/ Stamp(r) \/ Sign(r) \/ Hash(r) \/ Claim(r) \/ Mark(r)
           \/ \E l \in Links : NewLink(r, l)
  BY <1>2 DEF Stamp, Sign, Hash, Claim, Mark, NewLink, redis
<1>3. CASE \/ Assign(r) \/ Activate(r) \/ InsertUser(r) \/ Edit(r) \/ CountRoles(r)
           \/ Delete(r) \/ Invalidate(r) \/ ClearPage(r) \/ FillPage(r)
  BY <1>3 DEF Assign, Activate, InsertUser, Edit, CountRoles, Delete, Invalidate, ClearPage,
              FillPage, redis
<1>4. CASE \/ CheckToken(r) \/ CheckPermission(r) \/ ReadPage(r) \/ CheckModule(r)
           \/ CheckWho(r) \/ \E x \in Roles : LoadRole(r, x) \/ StoreRole(r, x)
  BY <1>4 DEF CheckToken, CheckPermission, ReadPage, CheckModule, CheckWho, LoadRole,
              StoreRole, redis
<1>. QED
  BY <1>1, <1>2, <1>3, <1>4 DEF Step

LEMMA UsersMove ==
  ASSUME TypeOK, AccessInv, Next, NEW u \in Users
  PROVE  UserMoves(u)
<1>0. user \in [Users -> UserRow] /\ user[u] \in UserRow
  BY DEF TypeOK, RowTypes
<1>1. ASSUME user'[u] = user[u] PROVE UserMoves(u)
  BY <1>1 DEF UserMoves
<1>2. ASSUME user'[u].there = user[u].there, user'[u].active = user[u].active,
             user'[u].off = user[u].off, user'[u].roles = user[u].roles,
             user'[u].moved = user[u].moved
      PROVE  UserMoves(u)
  BY <1>2 DEF UserMoves
<1>3. CASE Tick
  BY <1>1, <1>3 DEF Tick
<1>4. ASSUME NEW r \in Requests, Begin(r) PROVE UserMoves(u)
  <2>1. ASSUME NEW v \in Users, NEW more \in BOOLEAN, SetTrial(r, v, more)
        PROVE  UserMoves(u)
    <3>1. CASE v # u
      BY <1>0, <1>1, <2>1, <3>1 DEF SetTrial
    <3>2. CASE v = u
      <4>1. \/ user'[u] = [user[u] EXCEPT !.trial = now + TrialTTL, !.active = TRUE]
            \/ user'[u] = [user[u] EXCEPT !.trial = now]
        BY <1>0, <2>1, <3>2 DEF SetTrial
      <4>2. user'[u].there = user[u].there /\ user'[u].roles = user[u].roles
            /\ user'[u].off = user[u].off /\ user'[u].moved = user[u].moved
            /\ (user'[u].active \/ user'[u].active = user[u].active)
        BY <1>0, <4>1 DEF UserRow
      <4>. QED
        BY <4>2 DEF UserMoves
    <3>. QED
      BY <3>1, <3>2
  <2>. QED
    BY <1>1, <1>4, <2>1, BeginWrites DEF OneStatement
<1>5. ASSUME NEW r \in Requests, Stamp(r) \/ Claim(r) \/ Mark(r) PROVE UserMoves(u)
  <2>. SUFFICES ASSUME u = req[r].u, user'[u] # user[u] PROVE UserMoves(u)
    BY <1>0, <1>1, <1>5 DEF Stamp, Claim, Mark
  <2>1. \/ \E trial : user'[u] = [user[u] EXCEPT !.trial = trial]
        \/ \E at, n : user'[u] = [user[u] EXCEPT !.changed = at, !.resets = n,
                                                 !.unmarked = TRUE]
        \/ \E unmarked : user'[u] = [user[u] EXCEPT !.unmarked = unmarked]
    <3>1. Stamp(r) => \E trial : user'[u] = [user[u] EXCEPT !.trial = trial]
      BY <1>0 DEF Stamp
    <3>2. Claim(r) => \E at, n : user'[u] = [user[u] EXCEPT !.changed = at, !.resets = n,
                                                 !.unmarked = TRUE]
      <4>1. ASSUME Claim(r)
            PROVE  user' = [user EXCEPT ![u].changed = req[r].at, ![u].resets = @ + 1,
                                        ![u].unmarked = TRUE]
        BY <4>1 DEF Claim
      <4>2. ASSUME Claim(r)
            PROVE  user'[u] = [user[u] EXCEPT !.changed = req[r].at,
                                 !.resets = user[u].resets + 1, !.unmarked = TRUE]
        BY <1>0, <4>1, <4>2
      <4>. QED
        BY <4>2
    <3>3. Mark(r) => \E unmarked : user'[u] = [user[u] EXCEPT !.unmarked = unmarked]
      BY <1>0 DEF Mark
    <3>. QED
      BY <1>5, <3>1, <3>2, <3>3
  <2>. QED
    BY <1>0, <1>2, <2>1 DEF UserRow
<1>6. ASSUME NEW r \in Requests, Assign(r) PROVE UserMoves(u)
  <2>. SUFFICES ASSUME u = req[r].u, user'[u] # user[u] PROVE UserMoves(u)
    BY <1>0, <1>1, <1>6 DEF Assign
  <2>1. user'[u] = [user[u] EXCEPT !.roles = req[r].set, !.moved = now]
    BY <1>0, <1>6 DEF Assign
  <2>2. user'[u].there = user[u].there /\ user'[u].active = user[u].active
        /\ user'[u].off = user[u].off /\ user'[u].moved = now
    BY <1>0, <2>1 DEF UserRow
  <2>. QED
    BY <2>2 DEF UserMoves
<1>7. ASSUME NEW r \in Requests, Activate(r) PROVE UserMoves(u)
  <2>. SUFFICES ASSUME u = req[r].u, user'[u] # user[u] PROVE UserMoves(u)
    BY <1>0, <1>1, <1>7 DEF Activate
  <2>1. user'[u] = [user[u] EXCEPT !.active = (req[r].set # {}),
                      !.off = IF req[r].set = {} /\ user[u].active THEN now ELSE user[u].off]
    BY <1>0, <1>7 DEF Activate
  <2>2. /\ user'[u].there = user[u].there /\ user'[u].active = (req[r].set # {})
        /\ user'[u].off = (IF req[r].set = {} /\ user[u].active THEN now ELSE user[u].off)
        /\ user'[u].roles = user[u].roles /\ user'[u].moved = user[u].moved
    BY <1>0, <2>1 DEF UserRow
  <2>. QED
    BY <2>2 DEF UserMoves
<1>8. ASSUME NEW r \in Requests, InsertUser(r) PROVE UserMoves(u)
  <2>1. ~user[req[r].u].there
    BY <1>8 DEF InsertUser, AccessInv, Known, Knows
  <2>2. CASE u = req[r].u
    BY <2>1, <2>2 DEF UserMoves
  <2>3. CASE u # req[r].u
    BY <1>0, <1>1, <1>8, <2>3 DEF InsertUser
  <2>. QED
    BY <2>2, <2>3
<1>9. ASSUME NEW r \in Requests, Delete(r) PROVE UserMoves(u)
  <2>1. \/ user'[u] = user[u]
        \/ \E roles : user'[u] = [user[u] EXCEPT !.moved = now, !.roles = roles]
    BY <1>0, <1>9 DEF Delete
  <2>2. ASSUME NEW roles, user'[u] = [user[u] EXCEPT !.moved = now, !.roles = roles]
        PROVE  UserMoves(u)
    <3>1. user'[u].there = user[u].there /\ user'[u].active = user[u].active
          /\ user'[u].off = user[u].off /\ user'[u].moved = now
      BY <1>0, <2>2 DEF UserRow
    <3>. QED
      BY <3>1 DEF UserMoves
  <2>. QED
    BY <1>1, <2>1, <2>2
<1>10. ASSUME NEW r \in Requests, Step(r) \/ Crash(r) PROVE UserMoves(u)
  BY <1>1, <1>5, <1>6, <1>7, <1>8, <1>9, <1>10, StepWrites
<1>. QED
  BY <1>3, <1>4, <1>10 DEF Next

LEMMA RolesMove ==
  ASSUME TypeOK, Next, NEW x \in Roles
  PROVE  RoleMoved(x)
<1>0. role \in [Roles -> RoleRow] /\ role[x] \in RoleRow
  BY DEF TypeOK, RowTypes
<1>1. ASSUME role'[x] = role[x] PROVE RoleMoved(x)
  BY <1>1 DEF RoleMoved
<1>2. CASE Tick
  BY <1>1, <1>2 DEF Tick
<1>3. ASSUME NEW y \in Roles, NEW g,
             role' = [role EXCEPT ![y] = [there |-> TRUE, grants |-> g, edited |-> now]]
      PROVE  RoleMoved(x)
  BY <1>0, <1>3 DEF RoleMoved
<1>4. ASSUME NEW r \in Requests, Begin(r) PROVE RoleMoved(x)
  BY <1>1, <1>3, <1>4, BeginWrites DEF OneStatement
<1>5. ASSUME NEW r \in Requests, Edit(r) PROVE RoleMoved(x)
  <2>. SUFFICES ASSUME x = req[r].x, role'[x] # role[x] PROVE RoleMoved(x)
    BY <1>0, <1>1, <1>5 DEF Edit
  <2>1. role'[x] = [role[x] EXCEPT !.grants = req[r].set, !.edited = now]
    BY <1>0, <1>5 DEF Edit
  <2>. QED
    BY <1>0, <2>1 DEF RoleMoved, RoleRow
<1>6. ASSUME NEW r \in Requests, Delete(r) PROVE RoleMoved(x)
  <2>1. \/ UNCHANGED role
        \/ role' = [role EXCEPT ![req[r].x] = [there |-> FALSE, grants |-> {}, edited |-> now]]
    BY <1>6 DEF Delete
  <2>2. CASE x = req[r].x
    BY <1>0, <1>1, <2>1, <2>2 DEF RoleMoved
  <2>3. CASE x # req[r].x
    BY <1>0, <1>1, <2>1, <2>3
  <2>. QED
    BY <2>2, <2>3
<1>7. ASSUME NEW r \in Requests, Step(r) \/ Crash(r) PROVE RoleMoved(x)
  BY <1>1, <1>5, <1>6, <1>7, StepWrites
<1>. QED
  BY <1>2, <1>4, <1>7 DEF Next

LEMMA Clock ==
  ASSUME TypeOK, Next
  PROVE  now \in Nat /\ (now' = now \/ now' = now + 1)
<1>1. now \in Nat
  BY DEF TypeOK, RowTypes
<1>2. Tick => now' = now + 1
  BY DEF Tick
<1>. QED
  BY <1>1, <1>2, StepWrites, BeginWrites DEF Next

LEMMA TimelyStep ==
  ASSUME TypeOK, Timely, [Next]_vars
  PROVE  Timely'
<1>. SUFFICES ASSUME NEW r \in Requests, Open(r)'
              PROVE  req'[r].since <= now' /\ now' <= req'[r].since + 1
  BY DEF Timely
<1>0. now \in Nat /\ req[r].since \in Nat
  BY DEF TypeOK, RowTypes, RequestTypes, Request
<1>1. CASE UNCHANGED vars
  BY <1>1 DEF vars, Timely, Open
<1>2. CASE Tick
  BY <1>0, <1>2 DEF Tick, Open
<1>3. ASSUME NEW o \in Requests, Begin(o)
      PROVE  req'[r].since <= now' /\ now' <= req'[r].since + 1
  <2>1. Enters(o) /\ now' = now
    BY <1>3, Arrivals, BeginWrites
  <2>2. CASE o = r
    BY <1>0, <2>1, <2>2 DEF Enters
  <2>3. CASE o # r
    <3>1. Stays(req'[r], req[r])
      BY <2>1, <2>3 DEF Enters
    <3>. QED
      BY <2>1, <3>1 DEF Stays, Open, Timely
  <2>. QED
    BY <2>2, <2>3
<1>4. ASSUME NEW o \in Requests, Step(o) \/ Crash(o)
      PROVE  req'[r].since <= now' /\ now' <= req'[r].since + 1
  <2>1. Goes(o) /\ now' = now
    BY <1>4, Movements, StepWrites DEF Moves
  <2>2. CASE o = r
    BY <2>1, <2>2 DEF Goes, Timely
  <2>3. CASE o # r
    <3>1. Stays(req'[r], req[r])
      BY <2>1, <2>3 DEF Goes
    <3>. QED
      BY <2>1, <3>1 DEF Stays, Open, Timely
  <2>. QED
    BY <2>2, <2>3
<1>. QED
  BY <1>1, <1>2, <1>3, <1>4 DEF Next

LEMMA CachedStep ==
  ASSUME TypeOK, Timely, \A r \in Requests : Loading(req[r]), Next,
         NEW x \in Roles, Cached(x)
  PROVE  Cached(x)'
<1>0. /\ now \in Nat /\ CacheTTL \in Nat /\ role[x].edited \in Nat
      /\ cache[x].until \in Nat /\ role'[x].edited \in Nat
      /\ cache \in [Roles -> [grants : Bound, until : Nat]] /\ req \in [Requests -> Request]
  <2>1. now \in Nat /\ CacheTTL \in Nat /\ role[x].edited \in Nat /\ cache[x].until \in Nat
        /\ cache \in [Roles -> [grants : Bound, until : Nat]] /\ req \in [Requests -> Request]
    BY AccessAssumption DEF AccessAssumption, TypeOK, RowTypes, RequestTypes, RoleRow
  <2>2. role'[x].edited \in {now, role[x].edited}
    BY RolesMove DEF RoleMoved
  <2>. QED
    BY <2>1, <2>2
<1>1. RoleMoved(x)
  BY RolesMove
<1>2. ASSUME cache'[x] = cache[x] PROVE Cached(x)'
  <2>1. now <= now' /\ now' \in Nat
    BY Clock
  <2>2. cache[x].until <= now' + CacheTTL
    BY <1>0, <2>1 DEF Cached
  <2>3. cache[x].grants = role'[x].grants \/ cache[x].until <= role'[x].edited + CacheTTL + 1
    BY <1>0, <1>1 DEF Cached, RoleMoved
  <2>. QED
    BY <1>2, <2>2, <2>3 DEF Cached
<1>3. ASSUME NEW r \in Requests, Invalidate(r) PROVE Cached(x)'
  <2>1. cache'[x] = cache[x] \/ cache'[x] = NoEntry
    BY <1>0, <1>3 DEF Invalidate
  <2>2. ASSUME cache'[x] = NoEntry PROVE Cached(x)'
    <3>1. cache'[x].until = 0
      BY <2>2 DEF NoEntry
    <3>2. now' \in Nat
      BY Clock
    <3>. QED
      BY <1>0, <3>1, <3>2 DEF Cached
  <2>. QED
    BY <1>2, <2>1, <2>2
<1>4. ASSUME NEW r \in Requests, NEW y \in Roles, StoreRole(r, y) PROVE Cached(x)'
  <2>1. CASE x # y
    BY <1>0, <1>2, <1>4, <2>1 DEF StoreRole
  <2>2. CASE x = y
    <3>1. /\ req[r].pc = "permission" /\ x \in DOMAIN req[r].loads /\ req[r].loads[x].fill
          /\ cache'[x] = [grants |-> req[r].loads[x].grants, until |-> now + CacheTTL]
          /\ UNCHANGED <<now, role>>
      BY <1>0, <1>4, <2>2 DEF StoreRole
    <3>2. req[r].loads[x].grants = role[x].grants \/ req[r].since <= role[x].edited
      BY <3>1 DEF Loading, Fetched
    <3>3. now <= req[r].since + 1 /\ req[r].since \in Nat
      BY <1>0, <3>1 DEF Timely, Open, Request
    <3>4. /\ cache'[x].grants = req[r].loads[x].grants /\ cache'[x].until = now + CacheTTL
          /\ now' = now /\ role'[x] = role[x]
      BY <3>1
    <3>5. cache'[x].until <= now' + CacheTTL
      BY <1>0, <3>4
    <3>6. req[r].since <= role[x].edited => now + CacheTTL <= role[x].edited + CacheTTL + 1
      BY <1>0, <3>3
    <3>. QED
      BY <3>2, <3>4, <3>5, <3>6 DEF Cached
  <2>. QED
    BY <2>1, <2>2
<1>5. CASE Tick
  BY <1>2, <1>5 DEF Tick, redis
<1>6. ASSUME NEW r \in Requests, Begin(r) PROVE Cached(x)'
  BY <1>2, <1>6, BeginWrites
<1>7. ASSUME NEW r \in Requests, Step(r) \/ Crash(r) PROVE Cached(x)'
  BY <1>2, <1>3, <1>4, <1>7, StepWrites
<1>. QED
  BY <1>5, <1>6, <1>7 DEF Next

LEMMA CopiedKept ==
  ASSUME TypeOK, AccessInv, Next, NEW t \in Token, Copied(t)
  PROVE  Copied(t)'
<1>. SUFFICES ASSUME t # NoSession PROVE Copied(t)'
  BY DEF Copied
<1>1. t \in Session /\ t.user \in Users /\ t.iat \in Nat
  BY DEF Token, Session
<1>2. UserMoves(t.user)
  BY <1>1, UsersMove
<1>3. now \in Nat /\ now' \in Nat /\ now <= now'
  BY Clock
<1>4. /\ user[t.user].there /\ t.iat <= now
      /\ user[t.user].active \/ t.iat <= user[t.user].off + 1
      /\ \A x \in t.roles : x \in user[t.user].roles \/ t.iat <= user[t.user].moved + 1
  BY DEF Copied
<1>5. t.iat <= now + 1 /\ t.iat <= now'
  BY <1>1, <1>3, <1>4
<1>6. user'[t.user].there
  BY <1>2, <1>4 DEF UserMoves
<1>7. user'[t.user].active \/ t.iat <= user'[t.user].off + 1
  BY <1>2, <1>4, <1>5 DEF UserMoves
<1>8. \A x \in t.roles : x \in user'[t.user].roles \/ t.iat <= user'[t.user].moved + 1
  BY <1>2, <1>4, <1>5 DEF UserMoves
<1>. QED
  BY <1>5, <1>6, <1>7, <1>8 DEF Copied

LEMMA KinCopied ==
  ASSUME NEW t, NEW s, Kin(t, s), Copied(s)'
  PROVE  Copied(t)'
  BY DEF Kin, Copied

LEMMA RequestsCopied ==
  ASSUME TypeOK, AccessInv, Next, NEW r \in Requests,
         Copied(req[r].token), \A b \in Browsers : Copied(browser[b]),
         NEW t, t = req'[r].token
  PROVE  Copied(t)'
<1>1. ASSUME t = NoSession PROVE Copied(t)'
  BY <1>1 DEF Copied
<1>2. ASSUME Kin(t, req[r].token) PROVE Copied(t)'
  <2>1. PICK s : s = req[r].token
    OBVIOUS
  <2>2. s \in Token /\ Copied(s)
    BY <2>1, RequestOf
  <2>. QED
    BY <1>2, <2>1, <2>2, CopiedKept, KinCopied
<1>3. ASSUME NEW b \in Browsers, t = browser[b] PROVE Copied(t)'
  <2>1. t \in Token /\ Copied(t)
    BY <1>3 DEF TypeOK, RowTypes
  <2>. QED
    BY <2>1, CopiedKept
<1>4. CASE Tick
  BY <1>2, <1>4 DEF Tick, Kin
<1>5. ASSUME NEW o \in Requests, Begin(o) PROVE Copied(t)'
  <2>1. CASE o = r
    BY <1>1, <1>3, <1>5, <2>1, Arrivals
    DEF LoggingIn, Refreshing, Calling, Counting, Elsewise
  <2>2. CASE o # r
    BY <1>2, <1>5, <2>2, Arrivals DEF Enters, Stays
  <2>. QED
    BY <2>1, <2>2
<1>6. ASSUME NEW o \in Requests, Step(o) \/ Crash(o) PROVE Copied(t)'
  <2>1. CASE o = r
    BY <1>1, <1>2, <1>6, <2>1, Movements DEF Moves, Onward
  <2>2. CASE o # r
    BY <1>2, <1>6, <2>2, Movements DEF Moves, Goes, Stays
  <2>. QED
    BY <2>1, <2>2
<1>. QED
  BY <1>4, <1>5, <1>6 DEF Next

\* A session is signed from a row that was right when its request began.
LEMMA BrowsersCopied ==
  ASSUME TypeOK, AccessInv, Timely, \A r \in Requests : Signed(req[r]), Next,
         NEW b \in Browsers, Copied(browser[b]), NEW t, t = browser'[b]
  PROVE  Copied(t)'
<1>0. browser \in [Browsers -> Token] /\ browser[b] \in Token
  BY DEF TypeOK, RowTypes
<1>1. ASSUME t = NoSession PROVE Copied(t)'
  BY <1>1 DEF Copied
<1>2. ASSUME Kin(t, browser[b]) PROVE Copied(t)'
  <2>1. PICK s : s = browser[b]
    OBVIOUS
  <2>2. s \in Token /\ Copied(s)
    BY <1>0, <2>1
  <2>. QED
    BY <1>2, <2>1, <2>2, CopiedKept, KinCopied
<1>3. ASSUME UNCHANGED browser PROVE Copied(t)'
  BY <1>2, <1>3 DEF Kin
<1>4. CASE Tick
  BY <1>3, <1>4 DEF Tick
<1>5. ASSUME NEW o \in Requests, Begin(o) PROVE Copied(t)'
  <2>1. ASSUME NEW c \in Browsers, browser' = [browser EXCEPT ![c] = NoSession]
        PROVE  Copied(t)'
    BY <1>0, <1>1, <1>2, <2>1 DEF Kin
  <2>. QED
    BY <1>3, <1>5, <2>1, BeginWrites DEF OneStatement
<1>6. ASSUME NEW o \in Requests, Sign(o) PROVE Copied(t)'
  <2>1. /\ req[o] \in Request /\ Fits(req[o]) /\ req[o].pc = "sign"
        /\ Signed(req[o]) /\ UNCHANGED <<now, user>>
    BY <1>6, RequestOf DEF Sign
  <2>2. CASE t = browser[b]
    BY <1>2, <2>2 DEF Kin
  <2>3. CASE t # browser[b]
    <3>1. t.user = req[o].u /\ t.roles = req[o].row.roles /\ t.iat = now
      BY <1>0, <1>6, <2>3 DEF Sign
    <3>2. PICK u \in Users : u = req[o].u
      BY <2>1 DEF Fits
    <3>3. /\ user[u].there
          /\ user[u].active \/ req[o].since <= user[u].off
          /\ \A x \in t.roles : x \in user[u].roles \/ req[o].since <= user[u].moved
      BY <2>1, <3>1, <3>2 DEF Signed
    <3>4. now <= req[o].since + 1
      BY <2>1 DEF Timely, Open
    <3>5. now \in Nat /\ req[o].since \in Nat /\ user[u].off \in Nat /\ user[u].moved \in Nat
      BY <2>1, UserRows DEF TypeOK, RowTypes, Request, UserRow
    <3>6. /\ req[o].since <= user[u].off => now <= user[u].off + 1
          /\ req[o].since <= user[u].moved => now <= user[u].moved + 1
          /\ now <= now
      BY <3>4, <3>5
    <3>7. /\ user'[u].there /\ t.iat <= now'
          /\ user'[u].active \/ t.iat <= user'[u].off + 1
          /\ \A x \in t.roles : x \in user'[u].roles \/ t.iat <= user'[u].moved + 1
      BY <2>1, <3>1, <3>3, <3>6
    <3>. QED
      BY <3>1, <3>2, <3>7 DEF Copied
  <2>. QED
    BY <2>2, <2>3
<1>7. ASSUME NEW o \in Requests, Claim(o) PROVE Copied(t)'
  <2>1. UNCHANGED browser \/ Race(o, req[o].u)
    BY <1>7 DEF Claim
  <2>2. CASE Race(o, req[o].u)
    <3>1. \/ t = browser[b]
          \/ browser[b] # NoSession /\ t = [browser[b] EXCEPT !.raced = TRUE]
      BY <2>2 DEF Race
    <3>2. CASE browser[b] # NoSession /\ t = [browser[b] EXCEPT !.raced = TRUE]
      <4>1. browser[b] \in Session
        BY <1>0, <3>2 DEF Token
      <4>2. t.user = browser[b].user /\ t.roles = browser[b].roles /\ t.iat = browser[b].iat
            /\ t.user \in Users
        BY <3>2, <4>1 DEF Session
      <4>3. t # NoSession
        BY <4>2, AccessAssumption DEF AccessAssumption, NoSession
      <4>. QED
        BY <1>2, <3>2, <4>2, <4>3 DEF Kin
    <3>. QED
      BY <1>2, <3>1, <3>2 DEF Kin
  <2>. QED
    BY <1>3, <2>1, <2>2
<1>8. ASSUME NEW o \in Requests, Step(o) \/ Crash(o) PROVE Copied(t)'
  BY <1>3, <1>6, <1>7, <1>8, StepWrites
<1>. QED
  BY <1>4, <1>5, <1>8 DEF Next

LEMMA SignedStays ==
  ASSUME TypeOK, AccessInv, Timely, Next, NEW r \in Requests, Signed(req[r]),
         NEW q, q.pc \in {"stamp", "sign"} => req[r].pc \in {"stamp", "sign"},
         q.u = req[r].u, q.row.roles = req[r].row.roles, q.since = req[r].since
  PROVE  Signed(q)'
<1>. SUFFICES ASSUME q.pc \in {"stamp", "sign"} PROVE Signed(q)'
  BY DEF Signed
<1>1. req[r] \in Request /\ Fits(req[r]) /\ req[r].pc \in {"stamp", "sign"}
  BY RequestOf
<1>2. PICK u \in Users : u = req[r].u
  BY <1>1 DEF Fits
<1>3. PICK since \in Nat : since = req[r].since
  BY <1>1 DEF Request
<1>4. since <= now
  BY <1>1, <1>3 DEF Timely, Open
<1>5. UserMoves(u)
  BY <1>2, UsersMove
<1>6. /\ user[u].there
      /\ user[u].active \/ since <= user[u].off
      /\ \A x \in q.row.roles : x \in user[u].roles \/ since <= user[u].moved
  BY <1>1, <1>2, <1>3 DEF Signed
<1>7. /\ user'[u].there
      /\ user'[u].active \/ since <= user'[u].off
      /\ \A x \in q.row.roles : x \in user'[u].roles \/ since <= user'[u].moved
  BY <1>4, <1>5, <1>6 DEF UserMoves
<1>. QED
  BY <1>2, <1>3, <1>7 DEF Signed

LEMMA SignedStep ==
  ASSUME TypeOK, AccessInv, Timely, Next, NEW r \in Requests, Signed(req[r]),
         NEW q, q = req'[r]
  PROVE  Signed(q)'
<1>0. req[r] \in Request /\ now \in Nat
  BY RequestOf DEF TypeOK, RowTypes
<1>1. ASSUME Stays(q, req[r]) PROVE Signed(q)'
  BY <1>1, SignedStays DEF Stays
<1>2. CASE Tick
  <2>1. q = req[r]
    BY <1>2 DEF Tick
  <2>. QED
    BY <1>1, <2>1, StaysSame
<1>3. ASSUME NEW o \in Requests, Begin(o) PROVE Signed(q)'
  <2>1. CASE o # r
    BY <1>1, <1>3, <2>1, Arrivals DEF Enters
  <2>2. ASSUME NEW u \in Users, q.pc # "idle", q.u = u, q.row = user[u], q.since = now,
               user[u].there, user[u].active, o = r
        PROVE  Signed(q)'
    <3>1. user' = user
      BY <1>3, <2>2, BeginWrites
    <3>. QED
      BY <2>2, <3>1 DEF Signed
  <2>3. CASE o = r
    <3>1. q.since = now
      BY <1>3, <2>3, Arrivals DEF Enters
    <3>2. ASSUME NEW u \in Users, LoggingIn(r, u) PROVE Signed(q)'
      BY <2>2, <2>3, <3>1, <3>2 DEF LoggingIn
    <3>3. ASSUME NEW b \in Browsers, Refreshing(r, b) PROVE Signed(q)'
      <4>1. browser[b] # NoSession /\ browser[b] \in Token
        BY <3>3 DEF Refreshing, TypeOK, RowTypes
      <4>2. PICK u \in Users : u = browser[b].user
        BY <4>1 DEF Token, Session
      <4>. QED
        BY <2>2, <2>3, <3>1, <3>3, <4>2 DEF Refreshing
    <3>4. ASSUME \/ \E b \in Browsers : Calling(r, b) \/ Counting(r, b)
                 \/ Elsewise(r)
          PROVE  Signed(q)'
      <4>1. q.pc \notin {"stamp", "sign"}
        BY <3>4 DEF Calling, Counting, Elsewise, Early
      <4>. QED
        BY <4>1 DEF Signed
    <3>. QED
      BY <1>3, <2>3, <3>2, <3>3, <3>4, Arrivals
  <2>. QED
    BY <2>1, <2>3
<1>4. ASSUME NEW o \in Requests, Step(o) \/ Crash(o) PROVE Signed(q)'
  <2>0. Moves(o)
    BY <1>4, Movements
  <2>1. CASE o # r
    BY <1>1, <2>0, <2>1 DEF Moves, Goes
  <2>2. CASE o = r
    <3>1. CASE q.pc \notin {"stamp", "sign"}
      BY <3>1 DEF Signed
    <3>2. CASE q.pc \in {"stamp", "sign"}
      <4>1. Stamp(r)
        BY <2>0, <2>2, <3>2 DEF Moves, Onward
      <4>2. PICK trial : req' = [req EXCEPT ![r].pc = "sign", ![r].row.trial = trial]
        BY <4>1 DEF Stamp
      <4>3. req[r].pc = "stamp" /\ Fits(req[r])
        BY <4>1, RequestOf DEF Stamp
      <4>4. q = [req[r] EXCEPT !.pc = "sign", !.row.trial = trial]
        BY <4>2 DEF TypeOK, RequestTypes
      <4>5. q.u = req[r].u /\ q.since = req[r].since /\ q.row = [req[r].row EXCEPT !.trial = trial]
        BY <1>0, <4>4 DEF Request
      <4>6. req[r].row \in UserRow
        BY <4>3 DEF Fits
      <4>7. q.row.roles = req[r].row.roles
        BY <4>5, <4>6 DEF UserRow
      <4>. QED
        BY <4>3, <4>5, <4>7, SignedStays
    <3>. QED
      BY <3>1, <3>2
  <2>. QED
    BY <2>1, <2>2
<1>. QED
  BY <1>2, <1>3, <1>4 DEF Next

LEMMA LoadsOf ==
  ASSUME TypeOK, NEW r \in Requests, NEW x \in DOMAIN req[r].loads
  PROVE  x \in Roles /\ req[r].loads[x] \in Load
<1>1. req[r].loads \in Loads
  BY DEF TypeOK, RequestTypes, Request
<1>2. PICK S \in SUBSET Roles : req[r].loads \in [S -> Load]
  BY <1>1 DEF Loads
<1>. QED
  BY <1>2

LEMMA FetchedKept ==
  ASSUME TypeOK, Next, NEW x \in Roles, NEW load, NEW since \in Nat, since <= now,
         Fetched(x, load, since)
  PROVE  Fetched(x, load, since)'
<1>1. RoleMoved(x) /\ now \in Nat /\ CacheTTL \in Nat
  BY RolesMove, AccessAssumption DEF AccessAssumption, TypeOK, RowTypes
<1>2. since <= now + CacheTTL
  BY <1>1
<1>. QED
  BY <1>1, <1>2 DEF RoleMoved, Fetched

LEMMA LoadingStays ==
  ASSUME TypeOK, Timely, Next, NEW r \in Requests, Loading(req[r]),
         NEW q, Stays(q, req[r])
  PROVE  Loading(q)'
<1>0. /\ req[r] \in Request /\ now \in Nat
      /\ q.pc = req[r].pc /\ q.loads = req[r].loads /\ q.since = req[r].since
      /\ q.route = req[r].route
  BY DEF TypeOK, RowTypes, RequestTypes, Stays
<1>1. \/ q.token = req[r].token
      \/ q.token # NoSession /\ req[r].token # NoSession
         /\ q.token.roles = req[r].token.roles /\ q.token.iat = req[r].token.iat
  BY DEF Stays, Kin
<1>2. q.pc \in {"jwt", "permission"} => DOMAIN q.loads = q.token.roles \intersect Roles
  BY <1>0, <1>1 DEF Loading
<1>3. q.pc = "jwt" => \A x \in DOMAIN q.loads : q.loads[x] = ToLoad
  BY <1>0 DEF Loading
<1>4. ASSUME q.pc = "permission"
      PROVE  /\ q.token # NoSession /\ q.since < q.token.iat + AccessTTL
             /\ q.route.need.page # NoPage
  BY <1>0, <1>1, <1>4 DEF Loading
<1>5. ASSUME q.pc = "permission", NEW x \in DOMAIN q.loads
      PROVE  Fetched(x, q.loads[x], q.since)'
  <2>1. x \in Roles
    BY <1>0, <1>5, LoadsOf
  <2>2. q.since \in Nat /\ q.since <= now
    BY <1>0, <1>5 DEF Timely, Open, Request
  <2>3. Fetched(x, q.loads[x], q.since)
    BY <1>0, <1>5 DEF Loading
  <2>. QED
    BY <2>1, <2>2, <2>3, FetchedKept
<1>. QED
  BY <1>2, <1>3, <1>4, <1>5 DEF Loading

\* The token has been accepted: no role has been read yet.
LEMMA LoadingBegins ==
  ASSUME TypeOK, Timely, NEW r \in Requests, Loading(req[r]), CheckToken(r),
         NEW q, q = req'[r], q.pc = "permission"
  PROVE  Loading(q)'
<1>0. req[r] \in Request /\ now \in Nat /\ AccessTTL \in Nat /\ req[r].pc = "jwt"
  BY AccessAssumption DEF AccessAssumption, TypeOK, RowTypes, RequestTypes, CheckToken
<1>1. PICK pc : /\ Goto(r, pc)
                /\ pc = "permission" => /\ Unexpired(req[r].token)
                                        /\ req[r].route.need.page # NoPage
  BY DEF CheckToken, AfterDemo
<1>2. q.pc = pc /\ (pc \notin {"idle", "in"} => q = [req[r] EXCEPT !.pc = pc])
  BY <1>0, <1>1, WentTo DEF Open
<1>3. q = [req[r] EXCEPT !.pc = "permission"]
  BY <1>2
<1>4. q.loads = req[r].loads /\ q.token = req[r].token /\ q.since = req[r].since
      /\ q.route = req[r].route /\ q.since \in Nat
  BY <1>0, <1>3 DEF Request
<1>5. q.token # NoSession /\ now < q.token.iat + AccessTTL /\ q.route.need.page # NoPage
  BY <1>1, <1>2, <1>4 DEF Unexpired
<1>6. q.token.iat \in Nat
  BY <1>0, <1>4, <1>5 DEF Request, Token, Session
<1>7. q.since <= now
  BY <1>0, <1>4 DEF Timely, Open
<1>8. q.since < q.token.iat + AccessTTL
  BY <1>0, <1>4, <1>5, <1>6, <1>7
<1>9. /\ DOMAIN q.loads = q.token.roles \intersect Roles
      /\ \A x \in DOMAIN q.loads : q.loads[x] = ToLoad
  BY <1>0, <1>4 DEF Loading
<1>10. \A x \in DOMAIN q.loads : Fetched(x, q.loads[x], q.since)'
  BY <1>9 DEF Fetched, ToLoad
<1>. QED
  BY <1>5, <1>8, <1>9, <1>10 DEF Loading

\* A role is read, or stored: the others stay as they were read.
LEMMA LoadingOn ==
  ASSUME TypeOK, Timely, NEW r \in Requests, Loading(req[r]), Next,
         NEW x \in Roles, Cached(x), LoadRole(r, x) \/ StoreRole(r, x),
         NEW q, q = req'[r]
  PROVE  Loading(q)'
<1>0. /\ req \in [Requests -> Request] /\ req[r] \in Request /\ now \in Nat /\ CacheTTL \in Nat
      /\ req[r].pc = "permission" /\ x \in DOMAIN req[r].loads
      /\ req[r].since \in Nat /\ req[r].since <= now
      /\ role[x].edited \in Nat /\ cache[x].until \in Nat
  <2>1. req[r].pc = "permission" /\ x \in DOMAIN req[r].loads
    BY DEF LoadRole, StoreRole
  <2>2. /\ req \in [Requests -> Request] /\ req[r] \in Request /\ now \in Nat
        /\ CacheTTL \in Nat /\ role[x].edited \in Nat /\ cache[x].until \in Nat
    BY AccessAssumption
    DEF AccessAssumption, TypeOK, RowTypes, RequestTypes, RoleRow
  <2>. QED
    BY <2>1, <2>2 DEF Timely, Open, Request
<1>1. UNCHANGED role
  BY DEF LoadRole, StoreRole
<1>2. PICK load : /\ req' = [req EXCEPT ![r].loads[x] = load]
                  /\ Fetched(x, load, req[r].since)
  <2>1. CASE LoadRole(r, x)
    <3>1. CASE now < cache[x].until
      <4>1. req' = [req EXCEPT ![r].loads[x] = Loaded(cache[x].grants, FALSE)]
        BY <2>1, <3>1 DEF LoadRole
      <4>2. cache[x].grants = role[x].grants \/ req[r].since <= role[x].edited + CacheTTL
        BY <1>0, <3>1 DEF Cached
      <4>3. Fetched(x, Loaded(cache[x].grants, FALSE), req[r].since)
        BY <4>2 DEF Fetched, Loaded
      <4>. QED
        BY <4>1, <4>3
    <3>2. CASE ~(now < cache[x].until)
      <4>1. req' = [req EXCEPT ![r].loads[x] = Loaded(role[x].grants, TRUE)]
        BY <2>1, <3>2 DEF LoadRole
      <4>2. Fetched(x, Loaded(role[x].grants, TRUE), req[r].since)
        BY DEF Fetched, Loaded
      <4>. QED
        BY <4>1, <4>2
    <3>. QED
      BY <3>1, <3>2
  <2>2. CASE StoreRole(r, x)
    <3>. DEFINE load == [req[r].loads[x] EXCEPT !.fill = FALSE]
    <3>0. req[r].loads[x] \in Load /\ Fetched(x, req[r].loads[x], req[r].since)
          /\ req[r].loads[x].fill
      BY <1>0, <2>2, LoadsOf DEF Loading, StoreRole
    <3>1. req' = [req EXCEPT ![r].loads[x] = load]
      BY <1>0, <2>2 DEF StoreRole
    <3>2. load.grants = req[r].loads[x].grants /\ load.fill = FALSE
      BY <3>0 DEF Load
    <3>3. req[r].loads[x] # ToLoad
      BY <3>0 DEF ToLoad
    <3>4. Fetched(x, load, req[r].since)
      BY <3>0, <3>2, <3>3 DEF Fetched
    <3>. HIDE DEF load
    <3>. QED
      BY <3>1, <3>4
  <2>. QED
    BY <2>1, <2>2
<1>3. q = [req[r] EXCEPT !.loads = [req[r].loads EXCEPT ![x] = load]]
  BY <1>0, <1>2
<1>4. /\ q.loads = [req[r].loads EXCEPT ![x] = load]
      /\ q.pc = "permission" /\ q.token = req[r].token /\ q.since = req[r].since
      /\ q.route = req[r].route
  BY <1>0, <1>3 DEF Request
<1>5. \E S : req[r].loads \in [S -> Load]
  BY <1>0 DEF Request, Loads
<1>6. DOMAIN q.loads = DOMAIN req[r].loads /\ q.loads[x] = load
      /\ \A y \in DOMAIN q.loads : y # x => q.loads[y] = req[r].loads[y]
  BY <1>0, <1>4, <1>5
<1>7. ASSUME NEW y \in DOMAIN q.loads PROVE Fetched(y, q.loads[y], q.since)
  BY <1>0, <1>2, <1>4, <1>6, <1>7 DEF Loading
<1>8. ASSUME NEW y \in DOMAIN q.loads PROVE Fetched(y, q.loads[y], q.since)'
  BY <1>1, <1>7, <1>8 DEF Fetched
<1>9. /\ q.token # NoSession /\ q.since < q.token.iat + AccessTTL /\ q.route.need.page # NoPage
      /\ DOMAIN q.loads = q.token.roles \intersect Roles
  BY <1>0, <1>4, <1>6 DEF Loading
<1>. QED
  BY <1>4, <1>8, <1>9 DEF Loading

LEMMA LoadingStep ==
  ASSUME TypeOK, Timely, NEW r \in Requests, Loading(req[r]), Next,
         \A x \in Roles : Cached(x), NEW q, q = req'[r]
  PROVE  Loading(q)'
<1>1. ASSUME Stays(q, req[r]) PROVE Loading(q)'
  BY <1>1, LoadingStays
<1>2. ASSUME q.pc \notin {"jwt", "permission"} PROVE Loading(q)'
  BY <1>2 DEF Loading
<1>3. CASE Tick
  <2>1. q = req[r]
    BY <1>3 DEF Tick
  <2>. QED
    BY <1>1, <2>1, StaysSame
<1>4. ASSUME NEW o \in Requests, Begin(o) PROVE Loading(q)'
  <2>1. CASE o # r
    BY <1>1, <1>4, <2>1, Arrivals DEF Enters
  <2>2. CASE o = r
    <3>1. ASSUME NEW b \in Browsers, Calling(r, b) PROVE Loading(q)'
      BY <3>1 DEF Calling, Loading
    <3>2. q.pc \notin {"jwt", "permission"} \/ \E b \in Browsers : Calling(r, b)
      BY <1>4, <2>2, Arrivals DEF LoggingIn, Refreshing, Counting, Elsewise, Early
    <3>. QED
      BY <1>2, <3>1, <3>2
  <2>. QED
    BY <2>1, <2>2
<1>5. ASSUME NEW o \in Requests, Step(o) \/ Crash(o) PROVE Loading(q)'
  <2>0. Moves(o)
    BY <1>5, Movements
  <2>1. CASE o # r
    BY <1>1, <2>0, <2>1 DEF Moves, Goes
  <2>2. CASE o = r
    <3>1. \/ q.pc \notin {"jwt", "permission"}
          \/ q.pc = "permission" /\ (CheckToken(r) \/ \E x \in Roles : LoadRole(r, x) \/ StoreRole(r, x))
      BY <2>0, <2>2 DEF Moves, Onward
    <3>. QED
      BY <1>2, <3>1, LoadingBegins, LoadingOn
  <2>. QED
    BY <2>1, <2>2
<1>. QED
  BY <1>3, <1>4, <1>5 DEF Next
-----------------------------------------------------------------------------
(* All copies at once: the session of a browser and of a request, the row  *)
(* that is about to be signed, the roles in Redis and those being read.    *)
Ends ==
  /\ Timely
  /\ \A x \in Roles : Cached(x)
  /\ \A b \in Browsers : Copied(browser[b])
  /\ \A r \in Requests : Copied(req[r].token) /\ Signed(req[r]) /\ Loading(req[r])

LEMMA EndsBegin == ASSUME Init PROVE Ends
<1>1. now = 0 /\ \A r \in Requests : req[r] = Idle
  BY DEF Init
<1>2. Idle.pc = "idle" /\ Idle.token = NoSession
  BY DEF Idle
<1>3. Timely /\ \A r \in Requests : Copied(req[r].token) /\ Signed(req[r]) /\ Loading(req[r])
  BY <1>1, <1>2 DEF Timely, Open, Copied, Signed, Loading
<1>4. ASSUME NEW x \in Roles PROVE Cached(x)
  <2>0. CacheTTL \in Nat
    BY AccessAssumption DEF AccessAssumption
  <2>1. \E there, grants :
          role[x] = IF there THEN [there |-> TRUE, grants |-> grants, edited |-> 0]
                    ELSE [there |-> FALSE, grants |-> {}, edited |-> Never]
    BY DEF Init
  <2>2. \E grants : cache[x] \in {[grants |-> grants, until |-> CacheTTL], NoEntry}
    BY DEF Init
  <2>3. role[x].edited \in {0, Never} /\ cache[x].until \in {0, CacheTTL}
    BY <2>1, <2>2 DEF NoEntry
  <2>4. role[x].edited \in Nat
    BY <2>3 DEF Never
  <2>. QED
    BY <1>1, <2>0, <2>3, <2>4 DEF Cached
<1>5. ASSUME NEW b \in Browsers PROVE Copied(browser[b])
  <2>1. browser[b] = NoSession \/
        (/\ user[b].there
         /\ browser[b] = [user |-> b, roles |-> user[b].roles, demo |-> FALSE, trial |-> Never,
                          iat |-> 0, resets |-> 0, raced |-> FALSE])
    BY DEF Init
  <2>2. ASSUME browser[b] # NoSession PROVE b \in Users
    BY <2>2 DEF Init
  <2>3. ASSUME browser[b] # NoSession PROVE Copied(browser[b])
    <3>1. /\ browser[b].user = b /\ browser[b].roles = user[b].roles /\ browser[b].iat = 0
          /\ user[b].there
      BY <2>1, <2>3
    <3>2. user[b] \in UserRow
      BY <2>2, <2>3, InitHolds DEF TypeOK, RowTypes
    <3>3. user[b].off \in Nat /\ 0 <= user[b].off + 1
      BY <3>2 DEF UserRow
    <3>. QED
      BY <1>1, <3>1, <3>3 DEF Copied
  <2>. QED
    BY <2>3 DEF Copied
<1>. QED
  BY <1>3, <1>4, <1>5 DEF Ends

LEMMA EndsStep == ASSUME TypeOK, AccessInv, Ends, [Next]_vars PROVE Ends'
<1>1. CASE UNCHANGED vars
  BY <1>1 DEF vars, redis, Ends, Timely, Open, Cached, Copied, Signed, Loading, Fetched
<1>2. CASE Next
  <2>1. Timely'
    BY TimelyStep DEF Ends
  <2>2. \A x \in Roles : Cached(x)'
    BY <1>2, CachedStep DEF Ends
  <2>3. ASSUME NEW b \in Browsers PROVE Copied(browser[b])'
    <3>1. PICK t : t = browser'[b]
      OBVIOUS
    <3>2. Copied(t)'
      BY <1>2, <3>1, BrowsersCopied DEF Ends
    <3>. QED
      BY <3>1, <3>2 DEF Copied
  <2>4. ASSUME NEW r \in Requests PROVE Copied(req[r].token)' /\ Signed(req[r])' /\ Loading(req[r])'
    <3>1. PICK q : q = req'[r]
      OBVIOUS
    <3>2. PICK t : t = req'[r].token
      OBVIOUS
    <3>3. Copied(t)'
      BY <1>2, <3>2, RequestsCopied DEF Ends
    <3>4. Signed(q)' /\ Loading(q)'
      BY <1>2, <3>1, SignedStep, LoadingStep DEF Ends
    <3>5. Copied(req[r].token)'
      BY <3>2, <3>3 DEF Copied
    <3>. QED
      BY <3>1, <3>4, <3>5 DEF Signed, Loading, Fetched
  <2>. QED
    BY <2>1, <2>2, <2>3, <2>4 DEF Ends
<1>. QED
  BY <1>1, <1>2

LEMMA EndsInvariant == Spec => [](TypeOK /\ Ends)
  BY AccessInvariant, EndsBegin, EndsStep, PTL DEF Spec

(* A request leaves the permission guard for the module guard only by the  *)
(* guard's decision.                                                       *)
LEMMA PermissionDecides ==
  ASSUME TypeOK, Next, NEW r \in Requests, req[r].pc = "permission", req'[r].pc = "module"
  PROVE  CheckPermission(r)
<1>1. Open(r)
  BY DEF Open
<1>2. CASE Tick
  BY <1>2 DEF Tick
<1>3. ASSUME NEW o \in Requests, Begin(o) PROVE FALSE
  BY <1>1, <1>3, Arrivals DEF Enters, Stays
<1>4. ASSUME NEW o \in Requests, Step(o) \/ Crash(o) PROVE CheckPermission(r)
  <2>1. CASE o # r
    BY <1>4, <2>1, Movements DEF Moves, Goes, Stays
  <2>2. CASE o = r
    <3>1. Crash(r) => req'[r].pc = "idle"
      BY WentTo DEF Crash, Answer
    <3>2. ~Crash(r) => CheckPermission(r) \/ \E x \in Roles : LoadRole(r, x) \/ StoreRole(r, x)
      BY <1>4, <2>2 DEF Step, Stamp, Sign, Hash, Claim, Mark, NewLink, Assign, Activate,
           InsertUser, Edit, CountRoles, Delete, Invalidate, ClearPage, FillPage, CheckToken,
           ReadPage, CheckModule, CheckWho
    <3>3. ASSUME NEW x \in Roles, LoadRole(r, x) \/ StoreRole(r, x) PROVE FALSE
      <4>1. PICK loads : req' = [req EXCEPT ![r].loads = loads]
        <5>1. CASE LoadRole(r, x)
          <6>1. PICK load : req' = [req EXCEPT ![r].loads[x] = load]
            BY <5>1 DEF LoadRole
          <6>. QED
            BY <6>1
        <5>2. CASE StoreRole(r, x)
          <6>1. req' = [req EXCEPT ![r].loads[x].fill = FALSE]
            BY <5>2 DEF StoreRole
          <6>. QED
            BY <6>1
        <5>. QED
          BY <3>3, <5>1, <5>2
      <4>2. req'[r] = [req[r] EXCEPT !.loads = loads]
        BY <4>1 DEF TypeOK, RequestTypes
      <4>. QED
        BY <4>2, RequestOf DEF Request
    <3>. QED
      BY <3>1, <3>2, <3>3
  <2>. QED
    BY <2>1, <2>2
<1>. QED
  BY <1>2, <1>3, <1>4 DEF Next

(* Access ends in time.  PermissionGuard lets a call on from the roles of  *)
(* the token and from what was read of them, which may be older than both: *)
(* the user was active, held a role and the role had the permission no     *)
(* longer ago than an access token lives, or a cached role, and a tick     *)
(* more for the request itself.                                            *)
THEOREM AccessEndsInTime == Spec => AccessEnds
<1>1. ASSUME TypeOK, Ends, [Next]_vars, NEW r \in Requests,
             req[r].pc = "permission", req'[r].pc = "module"
      PROVE  LET t == req[r].token  u == user[t.user]
                 past(at, ttl) == now - at <= ttl IN
             /\ u.active \/ past(u.off, AccessTTL + 1)
             /\ \E x \in t.roles :
               /\ x \in u.roles \/ past(u.moved, AccessTTL + 1)
               /\ \/ x = Admin
                  \/ /\ x \in Roles
                     /\ \/ Granted(role[x].grants, req[r].route.need)
                        \/ past(role[x].edited, CacheTTL + 1)
  <2>. DEFINE t == req[r].token
              u == user[t.user]
              need == req[r].route.need
              loads == req[r].loads
  <2>1. Next
    BY <1>1 DEF vars
  <2>2. CheckPermission(r) /\ Open(r)
    BY <1>1, <2>1, PermissionDecides DEF Open
  <2>3. /\ req[r] \in Request /\ now \in Nat /\ AccessTTL \in Nat /\ CacheTTL \in Nat
        /\ req[r].since \in Nat
    <3>1. req[r] \in Request
      BY <1>1 DEF TypeOK, RequestTypes
    <3>. QED
      BY <1>1, <3>1, AccessAssumption DEF AccessAssumption, TypeOK, RowTypes, Request
  <2>4. /\ t # NoSession /\ req[r].since < t.iat + AccessTTL /\ need.page # NoPage
        /\ DOMAIN loads = t.roles \intersect Roles
        /\ \A x \in DOMAIN loads : Fetched(x, loads[x], req[r].since)
    BY <1>1 DEF Ends, Loading
  <2>5. now <= req[r].since + 1
    BY <1>1, <2>2 DEF Ends, Timely
  <2>6. t \in Session /\ t.iat \in Nat /\ t.user \in Users
    BY <2>3, <2>4 DEF Request, Token, Session
  <2>7. /\ u.active \/ t.iat <= u.off + 1
        /\ \A x \in t.roles : x \in u.roles \/ t.iat <= u.moved + 1
    BY <1>1, <2>4 DEF Ends, Copied
  <2>8. u \in UserRow
    BY <1>1, <2>6, UserRows
  <2>9. u.off \in Nat /\ u.moved \in Nat
    BY <2>8 DEF UserRow
  <2>10. now <= t.iat + AccessTTL
    BY <2>3, <2>4, <2>5, <2>6
  <2>11. /\ t.iat <= u.off + 1 => now - u.off <= AccessTTL + 1
         /\ t.iat <= u.moved + 1 => now - u.moved <= AccessTTL + 1
    BY <2>3, <2>6, <2>9, <2>10
  <2>12. PICK x \in t.roles : \/ x = Admin
                              \/ x \in DOMAIN loads /\ Granted(loads[x].grants, need)
    <3>1. Goto(r, IF \/ Admin \in t.roles
                     \/ Granted(UNION {loads[x].grants : x \in DOMAIN loads}, need)
                  THEN "module" ELSE "idle")
      BY <2>2 DEF CheckPermission
    <3>2. CASE Admin \in t.roles
      BY <3>2
    <3>3. CASE Admin \notin t.roles
      <4>1. Granted(UNION {loads[x].grants : x \in DOMAIN loads}, need)
        <5>1. CASE ~Granted(UNION {loads[x].grants : x \in DOMAIN loads}, need)
          <6>1. Goto(r, "idle")
            BY <3>1, <3>3, <5>1
          <6>2. req'[r].pc = "idle"
            BY <1>1, <2>2, <6>1, WentTo
          <6>. QED
            BY <1>1, <6>2
        <5>. QED
          BY <5>1
      <4>2. PICK x \in DOMAIN loads : Granted(loads[x].grants, need)
        BY <2>4, <4>1 DEF Granted
      <4>. QED
        BY <2>4, <4>2
    <3>. QED
      BY <3>2, <3>3
  <2>13. x \in u.roles \/ now - u.moved <= AccessTTL + 1
    BY <2>7, <2>11
  <2>14. CASE x = Admin
    BY <2>7, <2>11, <2>13, <2>14
  <2>15. CASE x \in DOMAIN loads /\ Granted(loads[x].grants, need)
    <3>1. x \in Roles /\ loads[x] # ToLoad
      BY <2>2, <2>4, <2>15 DEF CheckPermission
    <3>2. loads[x].grants = role[x].grants \/ req[r].since <= role[x].edited + CacheTTL
      BY <2>4, <2>15, <3>1 DEF Fetched
    <3>3. role[x].edited \in Nat
      BY <1>1, <3>1 DEF TypeOK, RowTypes, RoleRow
    <3>4. req[r].since <= role[x].edited + CacheTTL => now - role[x].edited <= CacheTTL + 1
      BY <2>3, <2>5, <3>3
    <3>5. Granted(role[x].grants, need) \/ now - role[x].edited <= CacheTTL + 1
      BY <2>15, <3>2, <3>4
    <3>. QED
      BY <2>7, <2>11, <2>13, <3>1, <3>5
  <2>. QED
    BY <2>12, <2>14, <2>15
<1>2. TypeOK /\ Ends /\ [Next]_vars =>
        [\A r \in Requests :
       LET t == req[r].token  u == user[t.user]
           past(at, ttl) == now - at <= ttl IN
       req[r].pc = "permission" /\ req'[r].pc = "module"
       => /\ u.active \/ past(u.off, AccessTTL + 1)
          /\ \E x \in t.roles :
               /\ x \in u.roles \/ past(u.moved, AccessTTL + 1)
               /\ \/ x = Admin
                  \/ /\ x \in Roles
                     /\ \/ Granted(role[x].grants, req[r].route.need)
                        \/ past(role[x].edited, CacheTTL + 1)]_vars
  BY <1>1
<1>. QED
  BY <1>2, EndsInvariant, PTL DEF Spec, AccessEnds
-----------------------------------------------------------------------------
(* The lists of pages and actions, controller by controller.               *)
MayGrant(need) == Offered(need) /\ CanGrant(need)
Grantable(routes) ==
  \A route \in routes : route.need \in {NoNeed, QuoteApproval} \/ MayGrant(route.need)
Editable == {"dashboards", "datasets", "accounts", "contacts", "calendar", "interactions",
             "opportunities", "product-lists", "products", "quotes", "quote-templates",
             "surveys", "projects", "purchase-orders", "warehouses", "drawings",
             "drawing-library", "drawing-templates", "settings"}

LEMMA Registered ==
  /\ \A page \in Editable : {page} \X {"CREATE", "UPDATE", "DELETE"} \subseteq PageRegistry
  /\ \A page \in {"post-sale-cases", "stock", "sales-orders"} : <<page, "UPDATE">> \in PageRegistry
  /\ \A page \in {"sales-orders", "messages"} : <<page, "CREATE">> \in PageRegistry
  /\ \A page \in {"accounts", "contacts", "interactions", "products", "quotes"} :
       <<page, "IMPORT">> \in PageRegistry
  /\ \A page \in {"dashboards", "accounts", "contacts", "interactions", "quotes",
                  "sales-orders", "reports", "drawings"} : <<page, "EXPORT">> \in PageRegistry
  /\ <<"quotes", "APPROVE">> \in PageRegistry
  BY DEF PageRegistry, Editable

LEMMA Keys ==
  Editable \union {"post-sale-cases", "stock", "sales-orders", "messages", "reports"}
    \subseteq PageKeys
<1>1. \A page, action : <<page, action>> \in PageRegistry => page \in PageKeys
  <2>. SUFFICES ASSUME NEW page, NEW action, <<page, action>> \in PageRegistry
                PROVE  page \in PageKeys
    OBVIOUS
  <2>1. <<page, action>>[1] = page
    OBVIOUS
  <2>. QED
    BY <2>1 DEF PageKeys
<1>2. \A page \in Editable : <<page, "CREATE">> \in PageRegistry
  BY Registered
<1>. QED
  BY <1>1, <1>2, Registered

(* The actions of a page that a route may ask for and still be granted.    *)
MayAsk(page, action) ==
  \/ action = "VIEW"
  \/ <<page, action>> \in PageRegistry /\ action \in RoleActions
  \/ page = "quotes" /\ action = "APPROVE"

LEMMA Fitting ==
  /\ \A page : MayAsk(page, "VIEW")
  /\ \A page \in Editable : /\ MayAsk(page, "CREATE")
                            /\ MayAsk(page, "UPDATE")
                            /\ MayAsk(page, "DELETE")
  /\ \A page \in {"post-sale-cases", "stock", "sales-orders"} : MayAsk(page, "UPDATE")
  /\ \A page \in {"sales-orders", "messages"} : MayAsk(page, "CREATE")
  /\ \A page \in {"accounts", "contacts", "interactions", "products", "quotes"} :
       MayAsk(page, "IMPORT")
  /\ \A page \in {"dashboards", "accounts", "contacts", "interactions", "quotes",
                  "sales-orders", "reports", "drawings"} : MayAsk(page, "EXPORT")
  /\ MayAsk("quotes", "APPROVE")
<1>1. /\ "VIEW" \in RoleActions /\ "CREATE" \in RoleActions /\ "UPDATE" \in RoleActions
      /\ "DELETE" \in RoleActions /\ "IMPORT" \in RoleActions /\ "EXPORT" \in RoleActions
  BY DEF RoleActions
<1>2. \A page \in Editable : /\ <<page, "CREATE">> \in PageRegistry
                             /\ <<page, "UPDATE">> \in PageRegistry
                             /\ <<page, "DELETE">> \in PageRegistry
  BY Registered
<1>. QED
  BY <1>1, <1>2, Registered DEF MayAsk

LEMMA GrantablePage ==
  ASSUME NEW page \in PageKeys, NEW actions,
         \A action \in actions : MayAsk(page, action)
  PROVE  Grantable(Page(page, actions))
<1>1. ASSUME NEW route \in Page(page, actions)
      PROVE  route.need = QuoteApproval \/ MayGrant(route.need)
  <2>1. PICK action \in actions : route \in Tabs(page, action, {})
    BY DEF Page
  <2>2. route.need = Needs(page, action, {})
    BY <2>1 DEF Tabs, Route
  <2>3. route.need.page = page /\ route.need.action = action /\ route.need.tabs = {}
    BY <2>2 DEF Needs
  <2>. QED
    BY <2>2, <2>3 DEF MayAsk, MayGrant, CanGrant, Offered, KnownPage, RoleActions, QuoteApproval
<1>. QED
  BY <1>1 DEF Grantable

LEMMA GrantableTabs ==
  ASSUME NEW action \in {"VIEW", "UPDATE"},
         NEW tabs \in SUBSET SettingsTabs
  PROVE  Grantable(Tabs("settings", action, tabs))
<1>1. "settings" \in PageKeys /\ <<"settings", "UPDATE">> \in PageRegistry
  BY Keys, Registered DEF Editable
<1>2. ASSUME NEW route \in Tabs("settings", action, tabs) PROVE MayGrant(route.need)
  <2>1. route.need = Needs("settings", action, tabs)
    BY DEF Tabs, Route
  <2>2. route.need.page = "settings" /\ route.need.action = action /\ route.need.tabs = tabs
    BY <2>1 DEF Needs
  <2>. QED
    BY <1>1, <2>2 DEF MayGrant, CanGrant, Offered, KnownPage, RoleActions
<1>. QED
  BY <1>2 DEF Grantable

LEMMA GrantablePages ==
  /\ \A page \in Editable : Grantable(Page(page, Crud))
  /\ \A page \in Editable, actions \in SUBSET {"VIEW", "CREATE", "UPDATE", "DELETE"} :
       Grantable(Page(page, actions))
  /\ \A page \in {"accounts", "contacts", "interactions", "drawings"} :
       Grantable(Page(page, Crud \union {"EXPORT"}))
  /\ Grantable(Page("quotes", Crud \union {"APPROVE"}))
  /\ Grantable(Page("messages", {"VIEW", "CREATE"}))
  /\ \A page \in {"stock", "post-sale-cases"} : Grantable(Page(page, {"VIEW", "UPDATE"}))
  /\ Grantable(Page("sales-orders", {"VIEW", "CREATE", "UPDATE", "EXPORT"}))
  /\ \A page \in {"accounts", "contacts"} : Grantable(Page(page, {"IMPORT", "EXPORT"}))
  /\ \A page \in {"interactions", "products", "quotes"} : Grantable(Page(page, {"IMPORT"}))
  /\ \A page \in {"dashboards", "quotes", "reports"} : Grantable(Page(page, {"EXPORT"}))
<1>1. ASSUME NEW page \in Editable
      PROVE  page \in PageKeys /\ \A action \in {"VIEW", "CREATE", "UPDATE", "DELETE"} :
                                     MayAsk(page, action)
  BY Fitting, Keys
<1>2. \A page \in Editable, actions \in SUBSET {"VIEW", "CREATE", "UPDATE", "DELETE"} :
       Grantable(Page(page, actions))
  BY <1>1, GrantablePage
<1>3. ASSUME NEW page \in {"accounts", "contacts", "interactions", "drawings"}
      PROVE  Grantable(Page(page, Crud \union {"EXPORT"}))
  <2>1. page \in Editable /\ MayAsk(page, "EXPORT")
    BY Fitting DEF Editable
  <2>. QED
    BY <1>1, <2>1, GrantablePage DEF Crud
<1>4. Grantable(Page("quotes", Crud \union {"APPROVE"}))
  <2>1. "quotes" \in Editable
    BY DEF Editable
  <2>. QED
    BY <1>1, <2>1, GrantablePage, Fitting DEF Crud
<1>5. /\ Grantable(Page("messages", {"VIEW", "CREATE"}))
      /\ Grantable(Page("sales-orders", {"VIEW", "CREATE", "UPDATE", "EXPORT"}))
      /\ \A page \in {"stock", "post-sale-cases"} : Grantable(Page(page, {"VIEW", "UPDATE"}))
  BY Keys, GrantablePage, Fitting
<1>6. /\ \A page \in {"accounts", "contacts"} : Grantable(Page(page, {"IMPORT", "EXPORT"}))
      /\ \A page \in {"interactions", "products", "quotes"} : Grantable(Page(page, {"IMPORT"}))
  BY Keys, GrantablePage, Fitting DEF Editable
<1>7. \A page \in {"dashboards", "quotes", "reports"} : Grantable(Page(page, {"EXPORT"}))
  BY Keys, GrantablePage, Fitting DEF Editable
<1>. QED
  BY <1>2, <1>3, <1>4, <1>5, <1>6, <1>7 DEF Crud

LEMMA GrantableRest ==
  /\ Grantable(Public) /\ Grantable(LogIn) /\ Grantable(Expired) /\ Grantable(Admins)
  /\ Grantable({[Route EXCEPT !.who = PlatformAdmin]}) /\ Grantable(Option)
  /\ \A action \in {"VIEW", "UPDATE"}, tabs \in SUBSET SettingsTabs :
       Grantable(Tabs("settings", action, tabs))
  /\ Grantable({[Route EXCEPT !.page = "quotes",
                              !.need = Needs("purchase-orders", "CREATE", {})]})
<1>1. Grantable(Public) /\ Grantable(LogIn) /\ Grantable(Expired) /\ Grantable(Admins)
      /\ Grantable({[Route EXCEPT !.who = PlatformAdmin]})
  BY DEF Grantable, Public, LogIn, Expired, Admins, Route
<1>2. \A page \in {"settings", "purchase-orders"} :
        /\ page \in PageKeys /\ <<page, "UPDATE">> \in PageRegistry
        /\ <<page, "CREATE">> \in PageRegistry
  BY Keys, Registered DEF Editable
<1>3. Grantable(Option)
  <2>1. Crm.need = NoNeed
    BY DEF Crm, Route
  <2>2. MayGrant(Needs("settings", "UPDATE", {}))
    BY <1>2 DEF MayGrant, CanGrant, Offered, KnownPage, RoleActions, Needs
  <2>3. [Crm EXCEPT !.need = Needs("settings", "UPDATE", {})].need = Needs("settings", "UPDATE", {})
    BY DEF Crm, Route
  <2>. QED
    BY <2>1, <2>2, <2>3 DEF Option, Grantable
<1>4. \A action \in {"VIEW", "UPDATE"}, tabs \in SUBSET SettingsTabs :
        Grantable(Tabs("settings", action, tabs))
  BY <1>2, GrantableTabs
<1>5. Grantable({[Route EXCEPT !.page = "quotes",
                               !.need = Needs("purchase-orders", "CREATE", {})]})
  <2>1. MayGrant(Needs("purchase-orders", "CREATE", {}))
    BY <1>2 DEF MayGrant, CanGrant, Offered, KnownPage, RoleActions, Needs
  <2>2. [Route EXCEPT !.page = "quotes", !.need = Needs("purchase-orders", "CREATE", {})].need
          = Needs("purchase-orders", "CREATE", {})
    BY DEF Route
  <2>. QED
    BY <2>1, <2>2 DEF Grantable
<1>. QED
  BY <1>1, <1>3, <1>4, <1>5

LEMMA GrantableBoth ==
  ASSUME NEW S, NEW T, Grantable(S), Grantable(T) PROVE Grantable(S \union T)
  BY DEF Grantable

LEMMA GrantableAll == Grantable(AllRoutes)
<1>1. /\ Grantable(HealthController) /\ Grantable(AuthController)
      /\ Grantable(UsersController) /\ Grantable(RolesController)
      /\ Grantable(PlatformAdminController) /\ Grantable(TenantsController)
      /\ Grantable(TenantSettingsController) /\ Grantable(AuditController)
      /\ Grantable(CacheController) /\ Grantable(DemoAccountsController)
  <2>1. \A tab \in {"users", "general"} : {tab} \in SUBSET SettingsTabs
    BY DEF SettingsTabs
  <2>2. {"roles", "pageAccess", "actionPermissions"} \in SUBSET SettingsTabs
    BY DEF SettingsTabs
  <2>3. "settings" \in Editable
    BY DEF Editable
  <2>4. Grantable(Page("settings", Update)) /\ Grantable(Page("settings", {"VIEW"}))
    BY <2>3, GrantablePages DEF Update
  <2>5. Grantable(Tabs("settings", "VIEW", {"users"}))
        /\ Grantable(Tabs("settings", "VIEW", {"roles", "pageAccess", "actionPermissions"}))
        /\ Grantable(Tabs("settings", "UPDATE", {"general"}))
    BY <2>1, <2>2, GrantableRest
  <2>. QED
    BY <2>4, <2>5, GrantableRest, GrantableBoth
    DEF HealthController, AuthController, UsersController, RolesController,
        PlatformAdminController, TenantsController, TenantSettingsController,
        AuditController, CacheController, DemoAccountsController
<1>2. /\ Grantable(FilesController) /\ Grantable(OnboardingController)
      /\ Grantable(QueryController) /\ Grantable(NotesController)
      /\ Grantable(NotificationsController) /\ Grantable(ChatbotController)
      /\ Grantable(PublicSurveysController)
  BY GrantableRest
  DEF FilesController, OnboardingController, QueryController, NotesController,
      NotificationsController, ChatbotController, PublicSurveysController
<1>3. /\ Grantable(BrandOptionsController) /\ Grantable(SectorOptionsController)
      /\ Grantable(DepartmentOptionsController) /\ Grantable(TitleOptionsController)
      /\ Grantable(ProductCategoriesController) /\ Grantable(PaymentMethodOptionsController)
      /\ Grantable(QuoteRejectionReasonOptionsController)
      /\ Grantable(InteractionTypeOptionsController) /\ Grantable(ReminderTypeOptionsController)
      /\ Grantable(UnitOptionsController) /\ Grantable(IbanOptionsController)
      /\ Grantable(IbanOptionGroupsController)
  BY GrantableRest
  DEF BrandOptionsController, SectorOptionsController, DepartmentOptionsController,
      TitleOptionsController, ProductCategoriesController, PaymentMethodOptionsController,
      QuoteRejectionReasonOptionsController, InteractionTypeOptionsController,
      ReminderTypeOptionsController, UnitOptionsController, IbanOptionsController,
      IbanOptionGroupsController
<1>4. /\ Grantable(AccountsController) /\ Grantable(ContactsController)
      /\ Grantable(OpportunitiesController) /\ Grantable(InteractionsController)
      /\ Grantable(CalendarEventsController) /\ Grantable(CalendarSharesController)
      /\ Grantable(MessagesController) /\ Grantable(ProductsController)
      /\ Grantable(ProductListsController) /\ Grantable(WarehousesController)
      /\ Grantable(StockItemsController) /\ Grantable(QuotesController)
  <2>1. \A page \in {"opportunities", "calendar", "products", "product-lists", "warehouses"} :
          page \in Editable
    BY DEF Editable
  <2>2. Grantable(Page("calendar", {"VIEW"}))
    BY <2>1, GrantablePages
  <2>. QED
    BY <2>1, <2>2, GrantablePages, GrantableRest, GrantableBoth
    DEF AccountsController, ContactsController, OpportunitiesController,
        InteractionsController, CalendarEventsController, CalendarSharesController,
        MessagesController, ProductsController, ProductListsController,
        WarehousesController, StockItemsController, QuotesController
<1>5. /\ Grantable(QuoteTemplatesController) /\ Grantable(SalesOrdersController)
      /\ Grantable(PurchaseOrdersController) /\ Grantable(PostSaleCasesController)
      /\ Grantable(SurveysController) /\ Grantable(ProjectsController)
      /\ Grantable(DrawingsController) /\ Grantable(DrawingLibraryController)
      /\ Grantable(DrawingTemplatesController) /\ Grantable(DrawingImportsController)
  <2>1. \A page \in {"quote-templates", "purchase-orders", "surveys", "projects",
                     "drawing-library", "drawing-templates", "drawings"} : page \in Editable
    BY DEF Editable
  <2>2. Grantable(Page("drawings", {"CREATE"}))
    BY <2>1, GrantablePages
  <2>. QED
    BY <2>1, <2>2, GrantablePages
    DEF QuoteTemplatesController, SalesOrdersController, PurchaseOrdersController,
        PostSaleCasesController, SurveysController, ProjectsController, DrawingsController,
        DrawingLibraryController, DrawingTemplatesController, DrawingImportsController
<1>6. /\ Grantable(ImportsController) /\ Grantable(InteractionImportsController)
      /\ Grantable(ProductImportsController) /\ Grantable(QuoteImportsController)
      /\ Grantable(ExportsController) /\ Grantable(ReportsController)
      /\ Grantable(AlertsController) /\ Grantable(DashboardsController)
      /\ Grantable(WidgetsController) /\ Grantable(DatasetsController)
      /\ Grantable(DatasourcesController)
  <2>1. \A page \in {"settings", "dashboards", "datasets"} : page \in Editable
    BY DEF Editable
  <2>2. Grantable(Page("datasets", {"VIEW", "UPDATE", "DELETE"}))
        /\ Grantable(Page("datasets", {"VIEW", "CREATE"}))
    BY <2>1, GrantablePages
  <2>. QED
    BY <2>1, <2>2, GrantablePages, GrantableBoth
    DEF ImportsController, InteractionImportsController, ProductImportsController,
        QuoteImportsController, ExportsController, ReportsController, AlertsController,
        DashboardsController, WidgetsController, DatasetsController, DatasourcesController
<1>7. ASSUME NEW route \in AllRoutes
      PROVE  \E routes : Grantable(routes) /\ route \in routes
  BY <1>1, <1>2, <1>3, <1>4, <1>5, <1>6, SMTT(60) DEF AllRoutes
<1>. QED
  BY <1>7 DEF Grantable

(* EveryNeedGrantable: what the decorator of any route asks for is on the  *)
(* matrix from which a company administrator fills a role, and accepted by *)
(* the endpoints that write one, the approval of a quote apart.            *)
THEOREM RoutesCanBeGranted == Spec => []EveryNeedGrantable
<1>1. EveryNeedGrantable
  BY GrantableAll DEF EveryNeedGrantable, Grantable, MayGrant
<1>. QED
  BY <1>1, PTL
=============================================================================
