------------------------------ MODULE MCAccess ------------------------------
(* Instances of Access: an administrator, a user who is an administrator   *)
(* or has custom roles, and a user yet to come; one call of each shape.    *)
EXTENDS Access, TLC

CONSTANTS u1, u2, u3, clerk, guest, r1, r2

User(there, roles) == [there |-> there, active |-> there, roles |-> roles, moved |-> 0,
  off |-> 0, demo |-> FALSE, trial |-> Never, changed |-> 0, resets |-> 0,
  unmarked |-> FALSE]
Team(roles, links, cached) ==
  [users  |-> (u1 :> User(TRUE, {Admin})) @@ (u2 :> User(TRUE, roles))
              @@ (u3 :> User(FALSE, {})),
   links  |-> [l \in Links |-> IF l \in links
                 THEN [NoLink EXCEPT !.user = u2, !.until = LinkTTL] ELSE NoLink],
   cached |-> cached]
TwoAdmins == Team({Admin}, {}, {})

View == <<"accounts", "VIEW", "none">>
Either == Permutations(Requests)
MCGrants == {{}, {View}}
Accounts == [Route EXCEPT !.page = "accounts", !.need = Needs("accounts", "VIEW", {})]
Offer(ops, calls, starts, last) ==
  [ops |-> ops, calls |-> calls, starts |-> starts, last |-> last]
MCOffers == {
  Offer({"login", "forgot", "reset"}, {}, {TwoAdmins, Team({Admin}, {"l1"}, {})}, 2),
  Offer({"login", "refresh", "logout", "reset", "call"},
        {Accounts}, {Team({Admin}, {"l1"}, {})}, 4),
  Offer({"refresh", "reset", "call", "redis fails"},
        {Accounts}, {Team({Admin}, {"l1"}, {})}, 4),
  Offer({"refresh", "assign", "activate", "call"},
        {Accounts}, {Team({clerk}, {}, {})}, 4),
  Offer({"refresh", "assign", "activate"}, {}, {TwoAdmins}, 3),
  Offer({"assign", "activate", "edit role", "remove role"},
        {}, {Team({clerk, guest}, {}, {})}, 1),
  Offer({"create user", "assign", "create role", "remove role"}, {}, {Team({clerk}, {}, {})}, 1),
  Offer({"refresh", "edit role", "remove role", "call", "crash"},
        {Accounts}, {Team({clerk}, {}, {}), Team({clerk}, {}, {clerk})}, 3),
  Offer({"call", "pages", "module", "crash"}, {Accounts, Crm}, {TwoAdmins}, 2),
  Offer({"demo", "trial", "login", "refresh", "call"},
        {Accounts, CHOOSE a \in Admins : TRUE, CHOOSE e \in Expired : TRUE},
        {TwoAdmins}, 4)}
=============================================================================
