---------------------------- MODULE MCTeamwork ----------------------------
(* Instances of Messages and the Agenda under it: what a behaviour offers. *)
EXTENDS Messages, TLC

CONSTANTS u1, u2, u3, e1, e2, r1, r2, c1, c2

Either == Permutations(Requests)
Nothing == [e \in Events |-> <<>>]
Planned(by, day, of, seats) ==
  [Nothing EXCEPT ![e1] = [by |-> by, day |-> day, of |-> of, seats |-> seats]]
Meeting == Planned(u1, 1, None, (u1 :> "ACCEPTED") @@ (u2 :> "DECLINED"))
Ready   == Planned(u1, 0, "t1", (u1 :> "ACCEPTED") @@ (u2 :> "ACCEPTED"))

Offer(ops, by, asks, start, last, most) == [ops |-> ops, by |-> by, asks |-> asks,
  meets |-> {c1}, starts |-> {start}, last |-> last, most |-> most]
Pair == {{u1, u2}}
Pairs == {{u1, u2}, {u2, u3}}
MCOffers == {
  Offer({"create", "update", "respond", "remove"}, {u1, u2}, Pairs, Meeting, 0, 3),
  Offer({"create", "update", "talk", "crash"}, {u1}, Pairs, Meeting, 0, 2),
  Offer({"talk", "contact"}, {u1}, Pair, Nothing, 1, 3),
  Offer({"grants"}, {u1, u2}, {}, Nothing, 0, 3),
  Offer({"new note", "note", "remove note"}, {u1}, {}, Nothing, 0, 3),
  Offer({"note", "remove note", "remove", "crash"}, {u1, u2}, {}, Nothing, 0, 3),
  Offer({"digest", "create", "respond", "crash"}, {u1, u2}, Pair, Ready, 1, 3),
  Offer({"mail", "close", "update", "crash"}, {u1}, Pairs, Ready, 1, 3),
  Offer({"check", "talk", "crash"}, {u1}, {}, Nothing, 3, 3),
  Offer({"check", "contact"}, {u1}, {}, Nothing, 3, 4),
  Offer({"write", "mailbox"}, {u1, u2}, Pair, Ready, 0, 3),
  Offer({"write", "remove", "crash"}, {u1, u2}, Pairs, Ready, 0, 2)}
=============================================================================
