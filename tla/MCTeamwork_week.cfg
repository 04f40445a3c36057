\* Three requests, two beside each other, of one group of operations.
SPECIFICATION Spec
CONSTANTS
  u1 = u1  u2 = u2  u3 = u3  e1 = e1  e2 = e2  r1 = r1  r2 = r2  c1 = c1  c2 = c2
  Requests = {r1, r2}
  Users = {u1, u2, u3}
  Events = {e1, e2}
  Talks = {"t1", "t2"}
  Notes = {"n1"}
  Contacts = {c1, c2}
  Messages = {"m1", "m2"}
  Threshold = 1
  Offers <- MCOffers
SYMMETRY Either
INVARIANTS EveryoneTold OneReminderPerNote RemindedOnce
PROPERTIES AnswersKept LoneChangesExact StaleContactsAlerted NewMailStaysNew
CHECK_DEADLOCK FALSE
