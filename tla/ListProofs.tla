----------------------------- MODULE ListProofs -----------------------------
(***************************************************************************)
(* Theorems about OptionLists, for any table, any lists of the kinds named *)
(* there, any number of requests and crashes: the types; that nothing is   *)
(* left referring to a removed row that a count could have seen; that a    *)
(* lone request for a default leaves one; that a row names a stored image, *)
(* but for requests that crossed or died between object and row.           *)
(***************************************************************************)
EXTENDS OptionLists, TLAPS

(* Where a request of each kind can be: a removal of a counted list comes  *)
(* to its delete by the count only, and a request for a default writes in  *)
(* the transaction that clears the others.                                 *)
Placed(q) ==
  /\ q.op.type = "use" => list.inUse \in Counted \union {"set null"}
  /\ q.pc = "count" => q.op.type = "remove"
  /\ q.pc = "delete object" /\ q.op.type = "remove" => list.inUse \notin Counted
  /\ q.pc \in {"others", "lock", "own"} => Marks(q.op)
  /\ q.pc \in {"write", "put object", "delete object", "count"} => ~Marks(q.op)

Kinds == \A r \in Requests : Open(r) => Placed(req[r])

(* A removal that has counted and not yet deleted: no user but a late one. *)
Counting ==
  /\ list.inUse \notin Counted \union {"set null"} => \A i \in Rows : ~uses[i]
  /\ \A r \in Requests :
       req[r].pc = "write" /\ req[r].op.type = "remove" /\ list.inUse = "hidden"
         => (uses[req[r].op.row] => req[r].op.row \in late)

(* What a request that is alone knows.                                     *)
Solitary == \A r \in Requests : Open(r) /\ req[r].alone =>
              \A o \in Requests \ {r} : ~Open(o)

Cleared == \A r \in Requests :
             req[r].pc \in {"lock", "own"} /\ req[r].alone =>
               req[r].seen = Marked \ {req[r].op.row}

Put == \A r \in Requests :
         req[r].op.type = "upload" /\ req[r].alone =>
           /\ req[r].pc \in {"delete object", "write"} =>
                <<req[r].op.row, req[r].op.ext>> \in stored
           /\ req[r].pc = "delete object" => req[r].old # req[r].op.ext

(* The image of a row that is not torn: one request at most is on its way  *)
(* to it, which knows the object the row names, and has put its own.       *)
Untorn(i) ==
  \A r \in Requests : AtImage(req[r], i) =>
    /\ \A o \in Requests \ {r} : ~AtImage(req[o], i)
    /\ There(i) => row[i].image \in {NoImage, req[r].old}
    /\ req[r].op.type = "upload" /\ req[r].pc \in {"delete object", "write"} =>
         <<i, req[r].op.ext>> \in stored

\* Only lists with images come to an object.
Imaged ==
  /\ \A i \in Rows : row[i].image # NoImage => list.images
  /\ \A r \in Requests :
       /\ Open(r) /\ req[r].op.type = "upload" => list.images
       /\ req[r].pc = "delete object" =>
            /\ AtImage(req[r], req[r].op.row) /\ req[r].old # NoImage
            /\ req[r].op.type = "upload" => req[r].old # req[r].op.ext

Named(i) == There(i) /\ row[i].image # NoImage /\ <<i, row[i].image>> \notin stored
            => \E r \in Requests : Deleted(req[r], i)

Images == Imaged /\ \A i \in Rows \ torn : Untorn(i) /\ Named(i)

ListInv == TypeOK /\ Kinds /\ Counting /\ Solitary /\ Cleared /\ Put /\ NoOrphans
           /\ Images
-----------------------------------------------------------------------------
ListType == [unique : BOOLEAN, upper : BOOLEAN,
             marks : SUBSET {"create", "update", "mark"},
             keeps : BOOLEAN, images : BOOLEAN, pushed : BOOLEAN,
             inUse : {"free text", "restrict", "hidden", "copied", "set null"}]

LEMMA KindsOfLists == AllLists \subseteq ListType
<1>1. /\ Plain \in ListType /\ InteractionTypes \in ListType /\ ReminderTypes \in ListType
  BY DEF Plain, ListType, InteractionTypes, ReminderTypes
<1>2. /\ Units \in ListType /\ Warehouses \in ListType /\ ProductLists \in ListType
  BY DEF Plain, ListType, Units, Warehouses, ProductLists
<1>3. /\ IbanOptions \in ListType /\ IbanGroups \in ListType
  BY DEF Plain, ListType, IbanOptions, IbanGroups
<1>4. /\ QuoteTemplates \in ListType /\ CompanyLogo \in ListType /\ Avatar \in ListType
  BY DEF Plain, ListType, QuoteTemplates, CompanyLogo, Avatar
<1> QED
  BY <1>1, <1>2, <1>3, <1>4 DEF AllLists, Brands, Sectors, Departments, Titles,
     ProductCategories, PaymentMethods, RejectionReasons

LEMMA ImagesUnrestricted == \A l \in AllLists : l.images => l.inUse # "restrict"
<1> DEFINE Free(l) == l.images => l.inUse # "restrict"
<1>1. Free(Plain) /\ Free(InteractionTypes) /\ Free(ReminderTypes) /\ Free(Units)
  BY DEF Plain, InteractionTypes, ReminderTypes, Units
<1>2. Free(Warehouses) /\ Free(ProductLists) /\ Free(IbanOptions) /\ Free(IbanGroups)
  BY DEF Plain, Warehouses, ProductLists, IbanOptions, IbanGroups
<1>3. Free(QuoteTemplates) /\ Free(CompanyLogo) /\ Free(Avatar)
  BY DEF Plain, QuoteTemplates, CompanyLogo, Avatar
<1> HIDE DEF Free
<1>4. \A l \in AllLists : Free(l)
  BY <1>1, <1>2, <1>3 DEF AllLists, Brands, Sectors, Departments, Titles,
     ProductCategories, PaymentMethods, RejectionReasons
<1> QED
  BY <1>4 DEF Free

LEMMA ShownIsView ==
  ASSUME TypeOK PROVE Shown \in Views
<1> DEFINE S == {j \in Rows : There(j)}
<1>1. Shown \in [S -> Labels \X BOOLEAN]
  BY DEF Shown, TypeOK, Row
<1>2. S \in SUBSET Rows
  OBVIOUS
<1> QED
  BY <1>1, <1>2 DEF Views

(* What a write makes of a row: a row again, and one that is there.        *)
LEMMA WrittenRow ==
  ASSUME TypeOK, NEW op \in Ops, op.type \notin {"remove", "use"},
         op.type # "create" => There(op.row)
  PROVE  /\ op.row \in Rows
         /\ Written(op) \in Row
         /\ Written(op).there
<1>1. op.type \in {"create", "update"} => Name(op) \in Labels
  BY ListsAssumption DEF Name, Ops, Flags, ListsAssumption
<1>2. op.row \in Rows /\ row[op.row] \in Row
  BY DEF Ops, TypeOK
<1>3. op.type = "upload" => op.ext \in Exts
  BY DEF Ops
<1> QED
  BY <1>1, <1>2, <1>3 DEF Written, Row
-----------------------------------------------------------------------------
(* A request that arrives changes nothing but itself and who is alone.     *)
LEMMA EnterTypes ==
  ASSUME TypeOK, NEW r \in Requests, NEW new \in Request, Enter(r, new),
         new.pc \notin {"idle", "done"} => Fits(new)
  PROVE  /\ req' \in [Requests -> Request]
         /\ \A o \in Requests : Open(o)' => Fits(req'[o])
<1> DEFINE others == {o \in Requests \ {r} : Open(o)}
<1>1. \A o \in Requests :
        /\ req'[o] \in Request
        /\ IF o = r THEN req'[o].pc = new.pc /\ req'[o].op = new.op
                    ELSE req'[o].pc = req[o].pc /\ req'[o].op = req[o].op
  BY DEF Enter, TypeOK, Request
<1>2. \A o \in Requests : Open(o)' => Fits(req'[o])
  BY <1>1 DEF Open, Fits, TypeOK
<1>3. req' \in [Requests -> Request]
  BY <1>1 DEF Enter
<1> QED
  BY <1>2, <1>3

(* A step of a request that is under way changes that request alone.       *)
LEMMA StepTypes ==
  ASSUME TypeOK, NEW r \in Requests, Open(r), NEW new \in Request,
         new.op = req[r].op, new.pc # "put object", req' = [req EXCEPT ![r] = new]
  PROVE  /\ req' \in [Requests -> Request]
         /\ \A o \in Requests : Open(o)' => Fits(req'[o])
<1>1. req' \in [Requests -> Request]
  BY DEF TypeOK
<1>2. \A o \in Requests : Open(o)' => Fits(req'[o])
  BY DEF TypeOK, Open, Fits
<1> QED
  BY <1>1, <1>2

LEMMA GotoTypes ==
  ASSUME TypeOK, NEW r \in Requests, Open(r), NEW pc, pc \in Places,
         pc # "put object", Goto(r, pc)
  PROVE  /\ req' \in [Requests -> Request]
         /\ \A o \in Requests : Open(o)' => Fits(req'[o])
<1>1. req[r] \in Request
  BY DEF TypeOK
<1>2. /\ [req[r] EXCEPT !.pc = pc] \in Request
      /\ [req[r] EXCEPT !.pc = pc].op = req[r].op
      /\ [req[r] EXCEPT !.pc = pc].pc = pc
  BY <1>1 DEF Request
<1> QED
  BY <1>2, StepTypes DEF Goto

LEMMA IdleTypes == Idle \in Request
  BY DEF Idle, Request, Places, Views

(* The type of every variable, in every reachable state.                   *)
THEOREM ListTypes == Spec => []TypeOK
<1>1. Init => TypeOK
  <2> SUFFICES ASSUME Init PROVE TypeOK
    OBVIOUS
  <2>1. row \in [Rows -> Row] /\ list \in AllLists
    BY ListsAssumption DEF Init, ListsAssumption
  <2>2. stored \subseteq Rows \X Exts
    BY <2>1 DEF Init, Row
  <2>3. /\ req \in [Requests -> Request] /\ uses \in [Rows -> BOOLEAN]
        /\ late \subseteq Rows /\ torn \subseteq Rows
        /\ \A r \in Requests : ~Open(r)
    BY IdleTypes DEF Init, Idle, Open
  <2>4. shown \in Views
    <3> DEFINE S == {j \in Rows : There(j)}
    <3>1. Shown \in [S -> Labels \X BOOLEAN]
      BY <2>1 DEF Shown, Row
    <3>2. S \in SUBSET Rows
      OBVIOUS
    <3>3. QED
      BY <3>1, <3>2 DEF Views, Init
  <2>5. QED
    BY <2>1, <2>2, <2>3, <2>4 DEF TypeOK
<1>2. TypeOK /\ [Next]_vars => TypeOK'
  <2> SUFFICES ASSUME TypeOK, [Next]_vars PROVE TypeOK'
    OBVIOUS
  <2>1. ASSUME NEW r \in Requests, NEW op \in Ops, Begin(r, op) PROVE TypeOK'
    <3> DEFINE old == IF op.type = "create" THEN NoImage ELSE row[op.row].image
               new(pc) == [Idle EXCEPT !.op = op, !.old = old, !.pc = pc]
               firsts == {"done", "others", "count", "delete object", "put object", "write"}
    <3>1. op.row \in Rows
      BY DEF Ops
    <3>2. old \in Exts \union {NoImage}
      BY <3>1 DEF TypeOK, Row
    <3>3. \A pc \in firsts : new(pc) \in Request /\ new(pc).op = op /\ new(pc).pc = pc
      BY <3>2, IdleTypes DEF Request, Places
    <3>4. PICK pc \in firsts : Enter(r, new(pc)) /\ (pc = "put object" => op.type = "upload")
      BY <2>1 DEF Begin
    <3>5. /\ req' \in [Requests -> Request]
          /\ \A o \in Requests : Open(o)' => Fits(req'[o])
      <4> HIDE DEF new
      <4>1. QED
        BY <3>3, <3>4, EnterTypes DEF Fits
    <3>6. QED
      BY <2>1, <3>5 DEF Begin, TypeOK, Crossed
  <2>2. ASSUME NEW r \in Requests, SeeOthers(r) PROVE TypeOK'
    <3> DEFINE new == [req[r] EXCEPT !.pc = "lock", !.seen = Marked \ {req[r].op.row}]
    <3>1. Marked \subseteq Rows /\ req[r] \in Request
      BY DEF Marked, TypeOK
    <3>2. new \in Request /\ new.op = req[r].op /\ new.pc # "put object"
      BY <3>1 DEF Request, Places
    <3>3. req' = [req EXCEPT ![r] = new]
      BY <2>2 DEF SeeOthers
    <3>4. QED
      BY <2>2, <3>2, <3>3, StepTypes DEF SeeOthers, Open, TypeOK
  <2>3. ASSUME NEW r \in Requests, LockOthers(r) PROVE TypeOK'
    <3> DEFINE new == [req[r] EXCEPT !.pc = "own", !.seen = @ \intersect Marked]
    <3>1. req[r] \in Request
      BY DEF TypeOK
    <3>2. new \in Request /\ new.op = req[r].op /\ new.pc # "put object"
      BY <3>1 DEF Request, Places
    <3>3. req' = [req EXCEPT ![r] = new]
      BY <2>3 DEF LockOthers
    <3>4. QED
      BY <2>3, <3>2, <3>3, StepTypes DEF LockOthers, Open, TypeOK
  <2>4. ASSUME NEW r \in Requests, Write(r) PROVE TypeOK'
    <3> DEFINE op == req[r].op
    <3>1. PICK pc \in Places \ {"put object"} : Goto(r, pc)
      BY <2>4 DEF Write, Places
    <3>2. op \in Ops /\ op.type \notin {"remove", "use"} /\ Open(r)
      BY <2>4 DEF Write, Open, Fits, TypeOK
    <3>3. row' \in [Rows -> Row]
      <4>1. CASE row' = row
        BY <4>1 DEF TypeOK
      <4>2. CASE row' # row
        <5>1. op.type # "create" => There(op.row)
          BY <2>4, <4>2 DEF Write
        <5>2. Written(op) \in Row
          BY <3>2, <5>1, WrittenRow
        <5>3. \A i \in Rows : [row[i] EXCEPT !.default = FALSE] \in Row
          BY DEF TypeOK, Row
        <5>4. row' = [i \in Rows |->
                        IF i = op.row THEN Written(op)
                        ELSE IF req[r].pc = "own" /\ i \in req[r].seen
                             THEN [row[i] EXCEPT !.default = FALSE]
                        ELSE row[i]]
          BY <2>4, <4>2 DEF Write
        <5>5. \A i \in Rows : row[i] \in Row
          BY DEF TypeOK
        <5> HIDE DEF op
        <5>6. QED
          BY <5>2, <5>3, <5>4, <5>5
      <4>3. QED
        BY <4>1, <4>2
    <3>4. QED
      BY <2>4, <3>1, <3>2, <3>3, GotoTypes DEF Write, TypeOK
  <2>5. ASSUME NEW r \in Requests, Deadlock(r) PROVE TypeOK'
    <3>1. PICK pc \in Places \ {"put object"} : Goto(r, pc)
      BY <2>5 DEF Deadlock, Places
    <3>2. QED
      BY <2>5, <3>1, GotoTypes DEF Deadlock, Open, TypeOK
  <2>6. ASSUME NEW r \in Requests, PutObject(r) PROVE TypeOK'
    <3>1. PICK pc \in Places \ {"put object"} : Goto(r, pc)
      BY <2>6 DEF PutObject, Places
    <3>2. Open(r) /\ req[r].op \in Ops /\ req[r].op.type = "upload"
      <4>1. req[r].pc = "put object"
        BY <2>6 DEF PutObject
      <4>2. Open(r)
        BY <4>1 DEF Open
      <4>3. QED
        BY <4>1, <4>2 DEF Fits, TypeOK
    <3>3. stored' \subseteq Rows \X Exts
      <4>1. req[r].op.row \in Rows /\ req[r].op.ext \in Exts
        BY <3>2 DEF Ops
      <4>2. stored' = stored \union {<<req[r].op.row, req[r].op.ext>>}
        BY <2>6 DEF PutObject
      <4>3. stored \subseteq Rows \X Exts
        BY DEF TypeOK
      <4>4. <<req[r].op.row, req[r].op.ext>> \in Rows \X Exts
        BY <4>1
      <4>5. QED
        BY <4>2, <4>3, <4>4
    <3>4. QED
      BY <2>6, <3>1, <3>2, <3>3, GotoTypes DEF PutObject, TypeOK
  <2>7. ASSUME NEW r \in Requests, DeleteObject(r) PROVE TypeOK'
    <3>1. PICK pc \in Places \ {"put object"} : Goto(r, pc)
      BY <2>7 DEF DeleteObject, Places
    <3>2. QED
      BY <2>7, <3>1, GotoTypes DEF DeleteObject, Open, TypeOK
  <2>8. ASSUME NEW r \in Requests, Count(r) PROVE TypeOK'
    <3>1. PICK pc \in Places \ {"put object"} : Goto(r, pc)
      BY <2>8 DEF Count, Places
    <3>2. QED
      BY <2>8, <3>1, GotoTypes DEF Count, Open, TypeOK
  <2>9. ASSUME NEW r \in Requests, Remove(r) PROVE TypeOK'
    <3> DEFINE i == req[r].op.row
    <3>1. PICK pc \in Places \ {"put object"} : Goto(r, pc)
      BY <2>9 DEF Remove, Places
    <3>2. i \in Rows /\ Open(r)
      BY <2>9 DEF Remove, Open, Fits, TypeOK, Ops
    <3>3. [row[i] EXCEPT !.there = FALSE, !.default = FALSE, !.image = NoImage] \in Row
      BY <3>2 DEF TypeOK, Row
    <3>4. row' \in [Rows -> Row] /\ uses' \in [Rows -> BOOLEAN]
      BY <2>9, <3>3 DEF Remove, TypeOK
    <3>5. QED
      BY <2>9, <3>1, <3>2, <3>4, GotoTypes DEF Remove, TypeOK
  <2>10. ASSUME NEW r \in Requests, Use(r) PROVE TypeOK'
    <3>1. PICK pc \in Places \ {"put object"} : Goto(r, pc)
      BY <2>10 DEF Use, Places
    <3>2. req[r].op.row \in Rows /\ Open(r)
      BY <2>10 DEF Use, Open, Fits, TypeOK, Ops
    <3>3. late' \subseteq Rows /\ uses' \in [Rows -> BOOLEAN]
      BY <2>10, <3>2 DEF Use, TypeOK
    <3>4. QED
      BY <2>10, <3>1, <3>2, <3>3, GotoTypes DEF Use, TypeOK
  <2>11. ASSUME NEW r \in Requests, ReadList(r) PROVE TypeOK'
    <3> DEFINE new == [req[r] EXCEPT !.pc = "push", !.read = Shown]
    <3>1. req[r] \in Request
      BY DEF TypeOK
    <3>2. new \in Request /\ new.op = req[r].op /\ new.pc # "put object"
      BY <3>1, ShownIsView DEF Request, Places
    <3>3. req' = [req EXCEPT ![r] = new]
      BY <2>11 DEF ReadList
    <3>4. QED
      BY <2>11, <3>2, <3>3, StepTypes DEF ReadList, Open, TypeOK
  <2>12. ASSUME NEW r \in Requests, Push(r) PROVE TypeOK'
    <3>1. Goto(r, "done") /\ "done" \in Places /\ Open(r)
      BY <2>12 DEF Push, Places, Open
    <3>2. shown' \in Views
      BY <2>12 DEF Push, TypeOK, Request
    <3>3. QED
      BY <2>12, <3>1, <3>2, GotoTypes DEF Push, TypeOK
  <2>13. ASSUME NEW r \in Requests, Crash(r) PROVE TypeOK'
    <3>1. PICK pc \in Places \ {"put object"} : Goto(r, pc)
      BY <2>13 DEF Crash, Places
    <3>2. QED
      BY <2>13, <3>1, GotoTypes DEF Crash, Open, TypeOK
  <2>14. CASE UNCHANGED vars
    BY <2>14 DEF vars, TypeOK, Open, Fits
  <2>15. QED
    BY <2>1, <2>2, <2>3, <2>4, <2>5, <2>6, <2>7, <2>8, <2>9, <2>10, <2>11, <2>12,
       <2>13, <2>14 DEF Next, Step
<1>3. QED
  BY <1>1, <1>2, PTL DEF Spec
-----------------------------------------------------------------------------
LEMMA Jumps ==
  ASSUME TypeOK, NEW r \in Requests, NEW pc, Goto(r, pc)
  PROVE  /\ \A o \in Requests \ {r} : req'[o] = req[o]
         /\ req'[r].pc = pc /\ req'[r].op = req[r].op
         /\ req'[r].alone = req[r].alone /\ req'[r].old = req[r].old
<1>1. req[r] \in Request /\ req \in [Requests -> Request]
  BY DEF TypeOK
<1> QED
  BY <1>1 DEF Goto, Request

(* What a step of a request does to the requests ...                       *)
LEMMA Moves ==
  ASSUME TypeOK, NEW r \in Requests, Step(r) \/ Crash(r)
  PROVE  /\ list' = list /\ Open(r)
         /\ \A o \in Requests \ {r} : req'[o] = req[o]
         /\ req'[r].op = req[r].op /\ req'[r].alone = req[r].alone
         /\ req'[r].old = req[r].old
         /\ \/ req'[r].pc \in {"done", "list", "push"}
            \/ req[r].pc = "others" /\ req'[r].pc = "lock"
            \/ req[r].pc = "lock" /\ req'[r].pc = "own"
            \/ req[r].pc = "put object" /\ req'[r].pc \in {"write", "delete object"}
            \/ req[r].pc \in {"delete object", "count"} /\ req'[r].pc = "write"
<1>0. req[r] \in Request /\ req \in [Requests -> Request]
  BY DEF TypeOK
<1>1. CASE SeeOthers(r)
  BY <1>0, <1>1 DEF SeeOthers, Request, Open
<1>2. CASE LockOthers(r)
  BY <1>0, <1>2 DEF LockOthers, Request, Open
<1>3. CASE Write(r)
  BY <1>3, Jumps DEF Write, Open
<1>4. CASE Deadlock(r)
  BY <1>4, Jumps DEF Deadlock, Open
<1>5. CASE PutObject(r) \/ DeleteObject(r)
  BY <1>5, Jumps DEF PutObject, DeleteObject, Open
<1>6. CASE Count(r)
  BY <1>6, Jumps DEF Count, Open
<1>7. CASE Remove(r)
  BY <1>7, Jumps DEF Remove, Open
<1>8. CASE Use(r)
  BY <1>8, Jumps DEF Use, Open
<1>9. CASE ReadList(r)
  BY <1>0, <1>9 DEF ReadList, Request, Open
<1>11. CASE Push(r)
  BY <1>11, Jumps DEF Push, Open
<1>10. CASE Crash(r)
  BY <1>10, Jumps DEF Crash, Open
<1> QED
  BY <1>1, <1>2, <1>3, <1>4, <1>5, <1>6, <1>7, <1>8, <1>9, <1>10, <1>11 DEF Step

(* ... and what an arrival does.                                           *)
LEMMA Arrives ==
  ASSUME TypeOK, NEW r \in Requests, NEW op \in Ops, Begin(r, op)
  PROVE  /\ UNCHANGED <<list, row, stored, uses, shown, late>> /\ ~Open(r)
         /\ \A o \in Requests \ {r} :
              /\ req'[o].pc = req[o].pc /\ req'[o].op = req[o].op
              /\ req'[o].seen = req[o].seen /\ req'[o].old = req[o].old
              /\ Open(o) => ~req'[o].alone
              /\ req'[o].alone => req[o].alone
         /\ req'[r].op = op
         /\ req'[r].alone <=> \A o \in Requests \ {r} : ~Open(o)
         /\ req'[r].pc \notin {"done"} => Placed(req'[r])
         /\ req'[r].pc \notin {"lock", "own"}
         /\ op.type = "upload" => req'[r].pc \in {"done", "others", "put object"}
         /\ op.type = "remove" /\ list.inUse \in Counted => req'[r].pc # "write"
<1> DEFINE old == IF op.type = "create" THEN NoImage ELSE row[op.row].image
           pc == IF op.type \notin {"create", "use"} /\ ~There(op.row) THEN "done"
                 ELSE IF Marks(op) THEN "others"
                 ELSE IF op.type = "remove" /\ list.inUse \in Counted THEN "count"
                 ELSE IF op.type \in {"remove", "clear image"} /\ row[op.row].image # NoImage
                      THEN "delete object"
                 ELSE IF op.type = "upload" THEN "put object" ELSE "write"
           new == [Idle EXCEPT !.op = op, !.old = old, !.pc = pc]
           others == {o \in Requests \ {r} : Open(o)}
<1>1. Enter(r, new) /\ Offered(op) /\ req[r].pc = "idle"
      /\ UNCHANGED <<list, row, stored, uses, shown, late>>
  BY DEF Begin
<1>2. op.row \in Rows /\ old \in Exts \union {NoImage}
  BY DEF Ops, TypeOK, Row
<1>3. pc \in {"done", "others", "count", "delete object", "put object", "write"}
  OBVIOUS
<1>4. new \in Request /\ new.op = op /\ new.pc = pc
  <2> HIDE DEF pc, old
  <2>1. QED
    BY <1>2, <1>3, IdleTypes DEF Request, Places
<1>5. /\ req'[r].op = op /\ req'[r].pc = pc
      /\ req'[r].alone <=> others = {}
  <2> HIDE DEF new, others, pc, old
  <2>1. req'[r] = [new EXCEPT !.alone = (others = {})]
    BY <1>1 DEF Enter, others
  <2>2. CASE others = {}
    <3>1. req'[r] = [new EXCEPT !.alone = TRUE]
      BY <2>1, <2>2
    <3>2. QED
      BY <1>4, <2>2, <3>1 DEF Request
  <2>3. CASE others # {}
    <3>1. req'[r] = [new EXCEPT !.alone = FALSE]
      BY <2>1, <2>3
    <3>2. QED
      BY <1>4, <2>3, <3>1 DEF Request
  <2>4. QED
    BY <2>2, <2>3
<1>6. \A o \in Requests \ {r} :
        /\ req'[o].pc = req[o].pc /\ req'[o].op = req[o].op
        /\ req'[o].seen = req[o].seen /\ req'[o].old = req[o].old
        /\ Open(o) => ~req'[o].alone
        /\ req'[o].alone => req[o].alone
  <2> HIDE DEF new
  <2>1. QED
    BY <1>1 DEF Enter, TypeOK, Request
<1>7. pc # "done" => Placed(req'[r])
  <2> HIDE DEF new, others
  <2>1. QED
    BY <1>1, <1>5 DEF Placed, Offered, Counted
<1>8. /\ op.type = "upload" => pc \in {"done", "others", "put object"}
      /\ op.type = "remove" /\ list.inUse \in Counted => pc # "write"
  OBVIOUS
<1> HIDE DEF pc, new, old
<1> QED
  BY <1>1, <1>3, <1>5, <1>6, <1>7, <1>8 DEF Open
-----------------------------------------------------------------------------
LEMMA PlacedStays ==
  ASSUME list' = list, NEW o, req'[o].pc = req[o].pc, req'[o].op = req[o].op, Placed(req[o])
  PROVE  Placed(req[o])'
<1> DEFINE pc == req[o].pc
           op == req[o].op
<1>2. (op.type = "use" => list.inUse \in Counted \union {"set null"})'
  BY DEF Placed
<1>3. (pc = "count" => op.type = "remove")'
  BY DEF Placed
<1>4. (pc = "delete object" /\ op.type = "remove" => list.inUse \notin Counted)'
  BY DEF Placed
<1>5. (pc \in {"others", "lock", "own"} => Marks(op))'
  BY DEF Placed, Marks
<1>6. (pc \in {"write", "put object", "delete object", "count"} => ~Marks(op))'
  BY DEF Placed, Marks
<1> QED
  BY <1>2, <1>3, <1>4, <1>5, <1>6 DEF Placed

LEMMA KindsNext ==
  ASSUME TypeOK, Kinds, [Next]_vars PROVE Kinds'
<1>1. ASSUME NEW r \in Requests, NEW op \in Ops, Begin(r, op) PROVE Kinds'
  <2> SUFFICES ASSUME NEW o \in Requests, Open(o)' PROVE Placed(req[o])'
    BY DEF Kinds
  <2>1. CASE o = r
    BY <1>1, <2>1, Arrives DEF Open, Placed, Marks
  <2>2. CASE o # r
    <3>1. req'[o].pc = req[o].pc /\ req'[o].op = req[o].op /\ list' = list
      BY <1>1, <2>2, Arrives
    <3>2. Placed(req[o])
      BY <3>1 DEF Kinds, Open
    <3>3. QED
      BY <3>1, <3>2, PlacedStays
  <2>3. QED
    BY <2>1, <2>2
<1>2. ASSUME NEW r \in Requests, Step(r) \/ Crash(r) PROVE Kinds'
  <2> SUFFICES ASSUME NEW o \in Requests, Open(o)' PROVE Placed(req[o])'
    BY DEF Kinds
  <2>1. list' = list /\ Open(r)
    BY <1>2, Moves
  <2>2. CASE o = r
    <3>1. Placed(req[r])
      BY <2>1 DEF Kinds
    <3>2. req[r].pc = "put object" => req[r].op.type # "remove"
      BY <2>1 DEF TypeOK, Fits
    <3>3. QED
      BY <1>2, <2>1, <2>2, <3>1, <3>2, Moves DEF Placed, Marks
  <2>3. CASE o # r
    <3>1. req'[o] = req[o]
      BY <1>2, <2>3, Moves
    <3>2. Placed(req[o])
      BY <3>1 DEF Kinds, Open
    <3>3. QED
      BY <2>1, <3>1, <3>2 DEF Placed, Marks
  <2>4. QED
    BY <2>2, <2>3
<1>3. CASE UNCHANGED vars
  BY <1>3 DEF vars, Kinds, Placed, Marks, Open
<1> QED
  BY <1>1, <1>2, <1>3 DEF Next

LEMMA SolitaryNext ==
  ASSUME TypeOK, Solitary, [Next]_vars PROVE Solitary'
<1>1. ASSUME NEW r \in Requests, NEW op \in Ops, Begin(r, op) PROVE Solitary'
  <2>1. /\ req'[r].alone <=> \A o \in Requests \ {r} : ~Open(o)
        /\ \A o \in Requests \ {r} : /\ req'[o].pc = req[o].pc
                                     /\ Open(o) => ~req'[o].alone
    BY <1>1, Arrives
  <2> SUFFICES ASSUME NEW o \in Requests, Open(o)', req'[o].alone,
                      NEW p \in Requests \ {o}
               PROVE  ~Open(p)'
    BY DEF Solitary
  <2>2. o = r
    BY <2>1 DEF Open
  <2>3. QED
    BY <2>1, <2>2 DEF Open
<1>2. ASSUME NEW r \in Requests, Step(r) \/ Crash(r) PROVE Solitary'
  <2>1. \A o \in Requests : /\ Open(o)' => Open(o)
                            /\ req'[o].alone = req[o].alone
    BY <1>2, Moves DEF Open
  <2>2. QED
    BY <2>1 DEF Solitary
<1>3. CASE UNCHANGED vars
  BY <1>3 DEF vars, Solitary, Open
<1> QED
  BY <1>1, <1>2, <1>3 DEF Next

LEMMA CountingNext ==
  ASSUME TypeOK, Kinds, Counting, [Next]_vars PROVE Counting'
<1> DEFINE Deleting(q) == q.pc = "write" /\ q.op.type = "remove" /\ list.inUse = "hidden"
<1>0. /\ list.inUse \notin Counted \union {"set null"} => \A i \in Rows : ~uses[i]
      /\ \A o \in Requests : Deleting(req[o]) => (uses[req[o].op.row] => req[o].op.row \in late)
  BY DEF Counting
<1>1. ASSUME NEW r \in Requests, NEW op \in Ops, Begin(r, op) PROVE Counting'
  <2>1. \A o \in Requests : Deleting(req[o])' => Deleting(req[o]) /\ req'[o].op = req[o].op
    <3> SUFFICES ASSUME NEW o \in Requests, Deleting(req[o])'
                 PROVE  Deleting(req[o]) /\ req'[o].op = req[o].op
      OBVIOUS
    <3>1. list' = list /\ list.inUse \in Counted
      BY <1>1, Arrives DEF Counted
    <3>2. req'[r].op = op /\ (op.type = "remove" => req'[r].pc # "write")
      BY <1>1, <3>1, Arrives
    <3>3. o # r
      BY <3>2
    <3>4. req'[o].pc = req[o].pc /\ req'[o].op = req[o].op
      BY <1>1, <3>3, Arrives
    <3>5. QED
      BY <3>1, <3>4
  <2>2. UNCHANGED <<list, uses, late>>
    BY <1>1, Arrives
  <2>3. QED
    BY <1>0, <2>1, <2>2 DEF Counting
<1>2. ASSUME NEW r \in Requests, Step(r) \/ Crash(r), UNCHANGED <<uses, late>>,
             req[r].pc # "count"
      PROVE  Counting'
  <2>1. list' = list /\ Open(r)
    BY <1>2, Moves
  <2>2. Placed(req[r]) /\ (req[r].pc = "put object" => req[r].op.type = "upload")
    BY <2>1 DEF Kinds, TypeOK, Fits
  <2>3. \A o \in Requests : Deleting(req[o])' => Deleting(req[o]) /\ req'[o].op = req[o].op
    BY <1>2, <2>1, <2>2, Moves DEF Placed, Counted
  <2>4. QED
    BY <1>0, <1>2, <2>1, <2>3 DEF Counting
<1>3. ASSUME NEW r \in Requests, Count(r) PROVE Counting'
  <2>1. /\ \A o \in Requests \ {r} : req'[o] = req[o]
        /\ req'[r].op = req[r].op /\ UNCHANGED <<list, uses, late>>
    BY <1>3, Moves DEF Step, Count
  <2>2. req'[r].pc = "write" => ~uses[req[r].op.row]
    BY <1>3, Jumps DEF Count
  <2>3. QED
    BY <1>0, <2>1, <2>2 DEF Counting
<1>4. ASSUME NEW r \in Requests, Remove(r) PROVE Counting'
  <2>1. /\ \A o \in Requests \ {r} : req'[o] = req[o]
        /\ req'[r].pc \in {"done", "list"} /\ UNCHANGED <<list, late>>
    BY <1>4, Moves, Jumps DEF Step, Remove
  <2>2. \A i \in Rows : uses'[i] => uses[i]
    BY <1>4 DEF Remove, TypeOK
  <2>3. \A o \in Requests : Open(o) => req[o].op.row \in Rows
    BY DEF TypeOK, Fits, Ops
  <2>4. QED
    BY <1>0, <2>1, <2>2, <2>3 DEF Counting, Open
<1>5. ASSUME NEW r \in Requests, Use(r) PROVE Counting'
  <2>1. /\ \A o \in Requests \ {r} : req'[o] = req[o]
        /\ req'[r].pc = "done" /\ UNCHANGED list
        /\ Open(r) /\ req[r].op.type = "use"
    BY <1>5, Moves, Jumps DEF Step, Use
  <2>2. list.inUse \in Counted \union {"set null"}
    BY <2>1 DEF Kinds, Placed
  <2>3. ASSUME NEW o \in Requests, Deleting(req[o])', uses'[req'[o].op.row]
        PROVE  req'[o].op.row \in late'
    <3>1. o # r /\ Deleting(req[o]) /\ req'[o] = req[o]
      BY <2>1, <2>3
    <3>2. CASE req[o].op.row = req[r].op.row
      BY <1>5, <3>1, <3>2 DEF Use
    <3>3. CASE req[o].op.row # req[r].op.row
      <4>1. uses[req[o].op.row]
        <5>1. req[o].op.row \in Rows
          BY <3>1 DEF TypeOK, Fits, Ops, Open
        <5>2. QED
          BY <1>5, <2>3, <3>1, <3>3, <5>1 DEF Use, TypeOK
      <4>2. QED
        BY <1>0, <1>5, <3>1, <4>1 DEF Use
    <3>4. QED
      BY <3>2, <3>3
  <2>4. QED
    BY <2>1, <2>2, <2>3 DEF Counting
<1>6. CASE UNCHANGED vars
  BY <1>6 DEF vars, Counting
<1>7. ASSUME NEW r \in Requests, Step(r) \/ Crash(r) PROVE Counting'
  <2>1. CASE SeeOthers(r) \/ LockOthers(r) \/ Write(r) \/ Deadlock(r)
    <3>1. UNCHANGED <<uses, late>> /\ req[r].pc # "count"
      BY <2>1 DEF SeeOthers, LockOthers, Write, Deadlock
    <3>2. QED
      BY <1>2, <1>7, <3>1
  <2>2. CASE PutObject(r) \/ DeleteObject(r) \/ ReadList(r) \/ Push(r)
    <3>1. UNCHANGED <<uses, late>> /\ req[r].pc # "count"
      BY <2>2 DEF PutObject, DeleteObject, ReadList, Push
    <3>2. QED
      BY <1>2, <1>7, <3>1
  <2>3. CASE Crash(r)
    <3>1. /\ \A o \in Requests \ {r} : req'[o] = req[o]
          /\ req'[r].pc = "done" /\ UNCHANGED <<list, uses, late>>
      BY <2>3, Jumps DEF Crash
    <3>2. QED
      BY <1>0, <3>1 DEF Counting
  <2>4. QED
    BY <1>3, <1>4, <1>5, <1>7, <2>1, <2>2, <2>3 DEF Step
<1> QED
  BY <1>1, <1>6, <1>7 DEF Next
-----------------------------------------------------------------------------
LEMMA ClearedNext ==
  ASSUME TypeOK, Solitary, Cleared, [Next]_vars PROVE Cleared'
<1>1. ASSUME NEW r \in Requests, NEW op \in Ops, Begin(r, op) PROVE Cleared'
  <2> SUFFICES ASSUME NEW o \in Requests, req'[o].pc \in {"lock", "own"}, req'[o].alone
               PROVE  FALSE
    BY DEF Cleared
  <2>1. o # r
    BY <1>1, Arrives
  <2>2. req'[o].pc = req[o].pc /\ (Open(o) => ~req'[o].alone)
    BY <1>1, <2>1, Arrives
  <2>3. QED
    BY <2>2 DEF Open
<1>2. ASSUME NEW r \in Requests, Step(r) \/ Crash(r) PROVE Cleared'
  <2> SUFFICES ASSUME NEW o \in Requests, req'[o].pc \in {"lock", "own"}, req'[o].alone
               PROVE  req'[o].seen = (Marked \ {req[o].op.row})'
    BY DEF Cleared
  <2>1. CASE o # r
    <3>1. req'[o] = req[o] /\ Open(r)
      BY <1>2, <2>1, Moves
    <3>2. Open(o) /\ req[o].alone
      BY <3>1 DEF Open
    <3>3. QED
      BY <2>1, <3>1, <3>2 DEF Solitary
  <2>2. CASE o = r
    <3>1. \/ req[r].pc = "others" \/ req[r].pc = "lock"
      BY <1>2, <2>2, Moves
    <3>2. ~Crash(r)
      <4>1. Goto(r, "done") => req'[r].pc = "done"
        BY Jumps
      <4>2. QED
        BY <2>2, <4>1 DEF Crash
    <3>3. SeeOthers(r) \/ LockOthers(r)
      BY <1>2, <3>1, <3>2 DEF Step, Write, Deadlock, PutObject, DeleteObject, Count,
         Remove, Use, ReadList, Push
    <3>4. Marked' = Marked
      BY <3>3 DEF SeeOthers, LockOthers, Marked, There
    <3>5. req[r] \in Request
      BY DEF TypeOK
    <3>6. req'[r].op = req[r].op /\ req'[r].alone = req[r].alone
      BY <1>2, Moves
    <3>7. CASE SeeOthers(r)
      <4>1. req'[r].seen = Marked \ {req[r].op.row}
        BY <3>5, <3>7 DEF SeeOthers, Request, TypeOK
      <4>2. QED
        BY <2>2, <3>4, <3>6, <4>1
    <3>8. CASE LockOthers(r)
      <4>1. req'[r].seen = req[r].seen \intersect Marked
        BY <3>5, <3>8 DEF LockOthers, Request, TypeOK
      <4>2. req[r].seen = Marked \ {req[r].op.row}
        BY <2>2, <3>6, <3>8 DEF LockOthers, Cleared
      <4>3. QED
        BY <2>2, <3>4, <3>6, <4>1, <4>2
    <3>9. QED
      BY <3>3, <3>7, <3>8
  <2>3. QED
    BY <2>1, <2>2
<1>3. CASE UNCHANGED vars
  BY <1>3 DEF vars, Cleared, Marked, There
<1> QED
  BY <1>1, <1>2, <1>3 DEF Next

LEMMA PutNext ==
  ASSUME TypeOK, Kinds, Solitary, Put, [Next]_vars PROVE Put'
<1> DEFINE Sure(q, there) ==
      /\ q.pc \in {"delete object", "write"} => <<q.op.row, q.op.ext>> \in there
      /\ q.pc = "delete object" => q.old # q.op.ext
<1>0. \A o \in Requests : req[o].op.type = "upload" /\ req[o].alone => Sure(req[o], stored)
  BY DEF Put
<1>1. ASSUME NEW r \in Requests, NEW op \in Ops, Begin(r, op) PROVE Put'
  <2> SUFFICES ASSUME NEW o \in Requests, req'[o].op.type = "upload", req'[o].alone,
                      req'[o].pc \in {"delete object", "write"}
               PROVE  FALSE
    BY DEF Put
  <2>1. o # r
    BY <1>1, Arrives
  <2>2. req'[o].pc = req[o].pc /\ (Open(o) => ~req'[o].alone)
    BY <1>1, <2>1, Arrives
  <2>3. QED
    BY <2>2 DEF Open
<1>2. ASSUME NEW r \in Requests, Step(r) \/ Crash(r) PROVE Put'
  <2> SUFFICES ASSUME NEW o \in Requests, req'[o].op.type = "upload", req'[o].alone,
                      req'[o].pc \in {"delete object", "write"}
               PROVE  Sure(req'[o], stored')
    BY DEF Put
  <2>1. CASE o # r
    <3>1. req'[o] = req[o] /\ Open(r)
      BY <1>2, <2>1, Moves
    <3>2. Open(o) /\ req[o].alone
      BY <3>1 DEF Open
    <3>3. QED
      BY <2>1, <3>1, <3>2 DEF Solitary
  <2>2. CASE o = r
    <3>1. /\ req'[r].op = req[r].op /\ req'[r].alone = req[r].alone
          /\ req'[r].old = req[r].old /\ Open(r)
      BY <1>2, Moves
    <3>2. req[r].pc \in {"put object", "delete object"}
      <4>1. req[r].pc # "count"
        BY <2>2, <3>1 DEF Kinds, Placed
      <4>2. QED
        BY <1>2, <2>2, <4>1, Moves
    <3>3. ~Crash(r)
      <4>1. Goto(r, "done") => req'[r].pc = "done"
        BY Jumps
      <4>2. QED
        BY <2>2, <4>1 DEF Crash
    <3>4. PutObject(r) \/ DeleteObject(r)
      BY <1>2, <3>2, <3>3 DEF Step, SeeOthers, LockOthers, Write, Deadlock, Count,
         Remove, Use, ReadList, Push
    <3>5. CASE PutObject(r)
      <4>1. stored' = stored \union {<<req[r].op.row, req[r].op.ext>>}
        BY <3>5 DEF PutObject
      <4>2. req'[r].pc = "delete object" => req[r].old # req[r].op.ext
        <5>1. req[r].old = req[r].op.ext => Goto(r, "write")
          BY <3>5 DEF PutObject
        <5>2. Goto(r, "write") => req'[r].pc = "write"
          BY Jumps
        <5>3. QED
          BY <5>1, <5>2
      <4>3. QED
        BY <2>2, <3>1, <4>1, <4>2
    <3>6. CASE DeleteObject(r)
      <4>1. stored' = stored \ {<<req[r].op.row, req[r].old>>} /\ req[r].pc = "delete object"
        BY <3>6 DEF DeleteObject
      <4>2. req'[r].pc = "write"
        BY <3>6, Jumps DEF DeleteObject
      <4>3. <<req[r].op.row, req[r].op.ext>> \in stored /\ req[r].old # req[r].op.ext
        BY <1>0, <2>2, <3>1, <4>1
      <4>4. QED
        BY <2>2, <3>1, <4>1, <4>2, <4>3
    <3>7. QED
      BY <3>4, <3>5, <3>6
  <2>3. QED
    BY <2>1, <2>2
<1>3. CASE UNCHANGED vars
  BY <1>3 DEF vars, Put
<1> QED
  BY <1>1, <1>2, <1>3 DEF Next
-----------------------------------------------------------------------------
(* A request for an image that arrives has read the row it will write.     *)
LEMMA ImageArrives ==
  ASSUME TypeOK, NEW r \in Requests, NEW op \in Ops, Begin(r, op)
  PROVE  /\ torn' = torn \union Crossed'
         /\ \A i : AtImage(req'[r], i) => /\ i = op.row /\ There(i)
                                          /\ req'[r].old = row[i].image
                                          /\ op.type = "upload" => req'[r].pc = "put object"
         /\ req'[r].pc = "delete object" => /\ op.type \in {"remove", "clear image"}
                                            /\ req'[r].old # NoImage
         /\ op.type = "upload" => list.images
<1> DEFINE old == IF op.type = "create" THEN NoImage ELSE row[op.row].image
           pc == IF op.type \notin {"create", "use"} /\ ~There(op.row) THEN "done"
                 ELSE IF Marks(op) THEN "others"
                 ELSE IF op.type = "remove" /\ list.inUse \in Counted THEN "count"
                 ELSE IF op.type \in {"remove", "clear image"} /\ row[op.row].image # NoImage
                      THEN "delete object"
                 ELSE IF op.type = "upload" THEN "put object" ELSE "write"
           new == [Idle EXCEPT !.op = op, !.old = old, !.pc = pc]
<1>1. Enter(r, new) /\ Offered(op) /\ torn' = torn \union Crossed'
  BY DEF Begin
<1>2. req'[r].op = op /\ req'[r].pc = pc /\ req'[r].old = old
  <2>1. DOMAIN Idle = {"pc", "op", "seen", "old", "read", "alone"}
    BY DEF Idle
  <2> HIDE DEF pc, old
  <2>2. QED
    BY <1>1, <2>1 DEF Enter, TypeOK
<1>3. op.type = "upload" => list.images
  BY <1>1 DEF Offered
<1>4. pc = "delete object" => op.type \in {"remove", "clear image"} /\ old # NoImage
  OBVIOUS
<1>5. /\ pc \in {"put object", "delete object", "count", "write"}
      /\ op.type \in {"upload", "clear image", "remove"}
      => There(op.row) /\ old = row[op.row].image /\ (op.type = "upload" => pc = "put object")
  OBVIOUS
<1> HIDE DEF pc, old, new
<1>6. \A i : AtImage(req'[r], i) => /\ i = op.row /\ There(i)
                                    /\ req'[r].old = row[i].image
                                    /\ op.type = "upload" => req'[r].pc = "put object"
  BY <1>2, <1>5 DEF AtImage
<1> QED
  BY <1>1, <1>2, <1>3, <1>4, <1>6

\* A step of a request leaves the others where they are, and itself no nearer
\* to an image that it was not on its way to.
LEMMA ImageMoves ==
  ASSUME TypeOK, Kinds, NEW r \in Requests, Step(r) \/ Crash(r)
  PROVE  /\ \A o \in Requests : \A i : AtImage(req'[o], i) =>
              /\ AtImage(req[o], i) /\ req'[o].old = req[o].old /\ req'[o].op = req[o].op
         /\ \A i : AtImage(req'[r], i) => req[r].pc \in {"put object", "delete object", "count"}
         /\ \A o \in Requests \ {r} : req'[o] = req[o]
<1>1. /\ Open(r) /\ \A o \in Requests \ {r} : req'[o] = req[o]
      /\ req'[r].op = req[r].op /\ req'[r].old = req[r].old
  BY Moves
<1>2. \A i : AtImage(req'[r], i) => /\ AtImage(req[r], i)
                                    /\ req[r].pc \in {"put object", "delete object", "count"}
  BY <1>1, Moves DEF AtImage
<1> QED
  BY <1>1, <1>2

LEMMA ImageBegins ==
  ASSUME TypeOK, Images, NEW r \in Requests, NEW op \in Ops, Begin(r, op)
  PROVE  Images'
<1>1. /\ UNCHANGED <<list, row, stored>> /\ ~Open(r)
      /\ \A o \in Requests \ {r} :
           req'[o].pc = req[o].pc /\ req'[o].op = req[o].op /\ req'[o].old = req[o].old
      /\ req'[r].op = op
  BY Arrives
<1>2. /\ torn' = torn \union Crossed'
      /\ \A i : AtImage(req'[r], i) => /\ i = op.row /\ There(i)
                                       /\ req'[r].old = row[i].image
                                       /\ op.type = "upload" => req'[r].pc = "put object"
      /\ req'[r].pc = "delete object" => /\ op.type \in {"remove", "clear image"}
                                         /\ req'[r].old # NoImage
      /\ op.type = "upload" => list.images
  BY ImageArrives
<1>3. \A o \in Requests \ {r} : \A i :
        /\ AtImage(req'[o], i) <=> AtImage(req[o], i)
        /\ Deleted(req'[o], i) <=> Deleted(req[o], i)
  BY <1>1 DEF AtImage, Deleted
<1>4. Imaged'
  <2>1. req'[r].pc = "delete object" => AtImage(req'[r], op.row)
    BY <1>1, <1>2 DEF AtImage
  <2>2. \A o \in Requests \ {r} : req'[o].pc = "delete object" =>
          AtImage(req'[o], req'[o].op.row)
    BY <1>1, <1>3 DEF Images, Imaged
  <2>3. QED
    BY <1>1, <1>2, <2>1, <2>2 DEF Images, Imaged, Open
<1>5. ASSUME NEW i \in Rows \ torn', NEW o \in Requests, AtImage(req'[o], i)
      PROVE  /\ \A p \in Requests \ {o} : ~AtImage(req'[p], i)
             /\ There(i)' => row'[i].image \in {NoImage, req'[o].old}
             /\ req'[o].op.type = "upload" /\ req'[o].pc \in {"delete object", "write"} =>
                  <<i, req'[o].op.ext>> \in stored'
  <2>1. \A p \in Requests \ {o} : ~AtImage(req'[p], i)
    BY <1>2, <1>5 DEF Crossed
  <2>2. CASE o = r
    BY <1>1, <1>2, <1>5, <2>1, <2>2
  <2>3. CASE o # r
    <3>1. i \in Rows \ torn /\ AtImage(req[o], i)
      BY <1>2, <1>3, <1>5, <2>3
    <3>2. /\ There(i) => row[i].image \in {NoImage, req[o].old}
          /\ req[o].op.type = "upload" /\ req[o].pc \in {"delete object", "write"} =>
               <<i, req[o].op.ext>> \in stored
      BY <3>1 DEF Images, Untorn
    <3>3. QED
      BY <1>1, <2>1, <2>3, <3>2 DEF There
  <2>4. QED
    BY <2>2, <2>3
<1>6. \A i \in Rows \ torn' : Named(i)'
  <2>1. \A o \in Requests : \A i : Deleted(req[o], i) => Deleted(req'[o], i)
    BY <1>1, <1>3 DEF Deleted, AtImage, Open
  <2>2. QED
    BY <1>1, <1>2, <2>1 DEF Images, Named, There
<1> QED
  BY <1>4, <1>5, <1>6 DEF Images, Untorn

\* What a step must do to the image of a row for it to stay named.
LEMMA ImageSteps ==
  ASSUME TypeOK, Kinds, Images, NEW r \in Requests, Step(r) \/ Crash(r),
         NEW i \in Rows \ torn, i \notin torn',
         \A s \in Exts : <<i, s>> \in stored /\ <<i, s>> \notin stored' =>
           AtImage(req[r], i) /\ req[r].old = s /\ req[r].pc = "delete object",
         There(i)' => \/ There(i) /\ row'[i].image = row[i].image
                      \/ row'[i].image = NoImage
                      \/ /\ AtImage(req[r], i) /\ ~AtImage(req'[r], i)
                         /\ <<i, row'[i].image>> \in stored',
         There(i)' /\ row'[i].image # NoImage /\ Deleted(req[r], i) =>
           <<i, row'[i].image>> \in stored',
         AtImage(req[r], i) /\ req[r].pc = "delete object" => Deleted(req'[r], i),
         AtImage(req[r], i) /\ req[r].pc = "put object" => <<i, req[r].op.ext>> \in stored'
  PROVE  Untorn(i)' /\ Named(i)'
<1>1. /\ \A o \in Requests : AtImage(req'[o], i) =>
           /\ AtImage(req[o], i) /\ req'[o].old = req[o].old /\ req'[o].op = req[o].op
      /\ AtImage(req'[r], i) => req[r].pc \in {"put object", "delete object", "count"}
      /\ \A o \in Requests \ {r} : req'[o] = req[o]
  BY ImageMoves
<1>2. ASSUME NEW o \in Requests, AtImage(req'[o], i)
      PROVE  /\ \A p \in Requests \ {o} : ~AtImage(req'[p], i)
             /\ There(i)' => row'[i].image \in {NoImage, req'[o].old}
             /\ req'[o].op.type = "upload" /\ req'[o].pc \in {"delete object", "write"} =>
                  <<i, req'[o].op.ext>> \in stored'
  <2>1. AtImage(req[o], i)
    BY <1>1, <1>2
  <2>2. /\ \A p \in Requests \ {o} : ~AtImage(req[p], i)
        /\ There(i) => row[i].image \in {NoImage, req[o].old}
        /\ req[o].op.type = "upload" /\ req[o].pc \in {"delete object", "write"} =>
             <<i, req[o].op.ext>> \in stored
    BY <2>1 DEF Images, Untorn
  <2>3. \A p \in Requests \ {o} : ~AtImage(req'[p], i)
    BY <1>1, <2>2
  <2>4. There(i)' => row'[i].image \in {NoImage, req'[o].old}
    <3>1. o # r => ~AtImage(req[r], i)
      BY <2>2
    <3>2. req'[o].old = req[o].old
      BY <1>1, <1>2
    <3>3. QED
      BY <1>2, <2>2, <3>1, <3>2
  <2>5. ASSUME req'[o].op.type = "upload", req'[o].pc \in {"delete object", "write"}
        PROVE  <<i, req'[o].op.ext>> \in stored'
    <3>1. req'[o].op = req[o].op /\ i = req[o].op.row /\ req[o].op \in Ops
      BY <1>1, <1>2, <2>1 DEF AtImage, TypeOK, Fits, Open
    <3>2. req[o].op.ext \in Exts
      BY <2>5, <3>1 DEF Ops
    <3>3. CASE o = r /\ req[r].pc = "put object"
      BY <2>1, <3>1, <3>3
    <3>4. CASE o = r /\ req[r].pc # "put object"
      <4>1. req[r].pc = "delete object"
        <5>1. req[r].pc # "count"
          BY <2>1, <2>5, <3>1, <3>4 DEF Kinds, Placed, AtImage, Open
        <5>2. QED
          BY <1>1, <1>2, <3>4, <5>1
      <4>2. req[r].old # req[r].op.ext
        BY <2>5, <3>1, <3>4, <4>1 DEF Images, Imaged
      <4>3. QED
        BY <2>2, <2>5, <3>1, <3>2, <3>4, <4>1, <4>2
    <3>5. CASE o # r
      <4>1. ~AtImage(req[r], i) /\ req'[o] = req[o]
        BY <1>1, <2>2, <3>5
      <4>2. QED
        BY <2>2, <2>5, <3>1, <3>2, <4>1
    <3>6. QED
      BY <3>3, <3>4, <3>5
  <2>6. QED
    BY <2>3, <2>4, <2>5
<1>3. ASSUME There(i)', row'[i].image # NoImage, <<i, row'[i].image>> \notin stored'
      PROVE  \E o \in Requests : Deleted(req'[o], i)
  <2>1. There(i) /\ row'[i].image = row[i].image
    BY <1>3
  <2>2. CASE <<i, row[i].image>> \in stored
    <3>1. row[i].image \in Exts
      BY <1>3, <2>1 DEF TypeOK, Row
    <3>2. AtImage(req[r], i) /\ req[r].pc = "delete object"
      BY <1>3, <2>1, <2>2, <3>1
    <3>3. QED
      BY <3>2
  <2>3. CASE <<i, row[i].image>> \notin stored
    <3>1. PICK o \in Requests : Deleted(req[o], i)
      BY <1>3, <2>1, <2>3 DEF Images, Named
    <3>2. o # r
      BY <1>3, <3>1
    <3>3. QED
      BY <1>1, <3>1, <3>2
  <2>4. QED
    BY <2>2, <2>3
<1> QED
  BY <1>2, <1>3 DEF Untorn, Named

\* Where a step needs images, the list has them.
LEMMA ImagedStep ==
  ASSUME TypeOK, Images, NEW r \in Requests, Step(r) \/ Crash(r),
         \A i \in Rows : row'[i].image # NoImage /\ row'[i].image # row[i].image =>
           Open(r) /\ req[r].op.type = "upload",
         req'[r].pc = "delete object" =>
           /\ req[r].op.type = "upload" /\ req[r].old \notin {NoImage, req[r].op.ext}
  PROVE  Imaged'
<1>1. /\ list' = list /\ Open(r) /\ \A o \in Requests \ {r} : req'[o] = req[o]
      /\ req'[r].op = req[r].op /\ req'[r].old = req[r].old
  BY Moves
<1>2. \A i \in Rows : row'[i].image # NoImage => list'.images
  BY <1>1 DEF Images, Imaged
<1>3. ASSUME NEW o \in Requests
      PROVE  /\ Open(o)' /\ req'[o].op.type = "upload" => list'.images
             /\ req'[o].pc = "delete object" =>
                  /\ AtImage(req'[o], req'[o].op.row) /\ req'[o].old # NoImage
                  /\ req'[o].op.type = "upload" => req'[o].old # req'[o].op.ext
  <2>1. CASE o = r
    BY <1>1, <2>1 DEF Images, Imaged, AtImage
  <2>2. CASE o # r
    BY <1>1, <2>2 DEF Images, Imaged, Open
  <2>3. QED
    BY <2>1, <2>2
<1> QED
  BY <1>2, <1>3 DEF Imaged

LEMMA ImageWritten ==
  ASSUME TypeOK, Kinds, Solitary, Put, Images, NEW r \in Requests, Write(r)
  PROVE  Images'
<1> DEFINE op == req[r].op
           fails == \/ op.type # "create" /\ ~There(op.row)
                    \/ op.type \in {"create", "update"} /\ Taken(op)
           lone == op.type \in {"upload", "clear image"} /\ req[r].alone
<1>1. /\ op \in Ops /\ op.type \notin {"remove", "use"} /\ op.row \in Rows /\ Open(r)
      /\ stored' = stored /\ list' = list
  BY DEF Write, Open, Fits, TypeOK, Ops
<1>2. req'[r].pc \in {"list", "done"} /\ \A o \in Requests \ {r} : req'[o] = req[o]
  BY Moves, Jumps DEF Step, Write
<1>3. fails => row' = row /\ torn' = torn
  BY DEF Write
<1>4. ~fails => /\ \A i \in Rows \ {op.row} :
                     row'[i].there = row[i].there /\ row'[i].image = row[i].image
                /\ row'[op.row].there /\ row'[op.row] = Written(op)
                /\ torn' = torn \ {i \in {op.row} : lone}
  <2> SUFFICES ASSUME ~fails PROVE
                /\ \A i \in Rows \ {op.row} :
                     row'[i].there = row[i].there /\ row'[i].image = row[i].image
                /\ row'[op.row].there /\ row'[op.row] = Written(op)
                /\ torn' = torn \ {i \in {op.row} : lone}
    OBVIOUS
  <2>1. /\ row' = [i \in Rows |->
                     IF i = op.row THEN Written(op)
                     ELSE IF req[r].pc = "own" /\ i \in req[r].seen
                          THEN [row[i] EXCEPT !.default = FALSE]
                     ELSE row[i]]
        /\ torn' = torn \ {i \in {op.row} : lone}
    BY DEF Write
  <2>2. \A i \in Rows : /\ [row[i] EXCEPT !.default = FALSE].there = row[i].there
                        /\ [row[i] EXCEPT !.default = FALSE].image = row[i].image
    BY DEF TypeOK, Row
  <2>3. Written(op).there
    BY DEF Written
  <2>4. QED
    BY <1>1, <2>1, <2>2, <2>3 DEF There
<1>5. Written(op).image = IF op.type = "upload" THEN op.ext
                          ELSE IF op.type \in {"create", "clear image"} THEN NoImage
                          ELSE row[op.row].image
  BY DEF Written
<1>6. op.type = "upload" => req[r].pc = "write" /\ AtImage(req[r], op.row)
  <2>1. Marks(op) => op.type # "upload"
    BY KindsOfLists DEF Marks, TypeOK, ListType
  <2>2. req[r].pc = "own" => Marks(op)
    BY <1>1 DEF Kinds, Placed
  <2>3. QED
    BY <2>1, <2>2 DEF Write, AtImage
<1>7. Imaged'
  <2>1. \A i \in Rows : row'[i].image # NoImage /\ row'[i].image # row[i].image =>
          op.type = "upload"
    BY <1>3, <1>4, <1>5
  <2>2. QED
    BY <1>1, <1>2, <2>1, ImagedStep DEF Step
<1>8. \A i : ~AtImage(req'[r], i)
  BY <1>2 DEF AtImage
<1>9. ASSUME NEW i \in Rows \ torn', i \notin torn PROVE Untorn(i)' /\ Named(i)'
  <2>1. AtImage(req[r], i) => i = op.row
    BY DEF AtImage
  <2>2. op.type = "upload" => <<op.row, op.ext>> \in stored \/ op.row \in torn
    BY <1>1, <1>6 DEF Images, Untorn
  <2>3. There(i)' => \/ There(i) /\ row'[i].image = row[i].image
                     \/ row'[i].image = NoImage
                     \/ AtImage(req[r], i) /\ <<i, row'[i].image>> \in stored'
    <3>1. CASE fails \/ i # op.row
      BY <1>3, <1>4, <3>1 DEF There
    <3>2. CASE ~fails /\ i = op.row
      <4>1. CASE op.type = "upload"
        BY <1>1, <1>4, <1>5, <1>6, <1>9, <2>2, <3>2, <4>1
      <4>2. CASE op.type \in {"create", "clear image"}
        BY <1>4, <1>5, <3>2, <4>2
      <4>3. CASE op.type \notin {"upload", "create", "clear image"}
        BY <1>4, <1>5, <3>2, <4>3
      <4>4. QED
        BY <4>1, <4>2, <4>3
    <3>3. QED
      BY <3>1, <3>2
  <2>4. There(i)' /\ row'[i].image # NoImage /\ Deleted(req[r], i) =>
          <<i, row'[i].image>> \in stored'
    <3> SUFFICES ASSUME There(i)', row'[i].image # NoImage, Deleted(req[r], i)
                 PROVE  <<i, row'[i].image>> \in stored'
      OBVIOUS
    <3>1. AtImage(req[r], i) /\ i = op.row /\ op.type \in {"upload", "clear image"}
      BY <1>1, <2>1 DEF Deleted, AtImage
    <3>2. ~fails
      BY <1>3, <3>1 DEF There
    <3>3. QED
      BY <1>1, <1>4, <1>5, <1>9, <2>2, <3>1, <3>2
  <2>5. /\ \A s \in Exts : ~(<<i, s>> \in stored /\ <<i, s>> \notin stored')
        /\ req[r].pc \notin {"delete object", "put object"}
    BY <1>1 DEF Write
  <2>6. QED
    BY <1>8, <1>9, <2>3, <2>4, <2>5, ImageSteps DEF Step
<1>10. ASSUME NEW i \in Rows \ torn', i \in torn PROVE Untorn(i)' /\ Named(i)'
  <2>1. i = op.row /\ lone /\ ~fails
    BY <1>3, <1>4, <1>10
  <2>2. \A o \in Requests : ~AtImage(req'[o], i)
    <3>1. \A o \in Requests \ {r} : ~Open(o)
      BY <1>1, <2>1 DEF Solitary
    <3>2. QED
      BY <1>2, <1>8, <3>1 DEF Open, AtImage
  <2>3. op.type = "upload" => <<op.row, op.ext>> \in stored
    BY <1>6, <2>1 DEF Put
  <2>4. Named(i)'
    BY <1>1, <1>4, <1>5, <2>1, <2>3 DEF Named
  <2>5. QED
    BY <2>2, <2>4 DEF Untorn
<1> QED
  BY <1>7, <1>9, <1>10 DEF Images

\* A step that leaves rows and objects alone.
LEMMA ImageQuiet ==
  ASSUME TypeOK, Kinds, Images, NEW r \in Requests, Step(r) \/ Crash(r),
         UNCHANGED <<row, stored>>, torn \subseteq torn',
         req'[r].pc # "delete object", req[r].pc \notin {"delete object", "put object"} \/ Crash(r),
         \A i \in Rows : Deleted(req[r], i) => i \in torn'
  PROVE  Images'
<1>1. Imaged'
  BY ImagedStep
<1>2. ASSUME NEW i \in Rows \ torn' PROVE Untorn(i)' /\ Named(i)'
  <2>1. CASE req[r].pc \notin {"delete object", "put object"}
    BY <1>2, <2>1, ImageSteps DEF There
  <2>2. CASE Crash(r)
    <3>1. /\ req'[r].pc = "done" /\ \A o \in Requests \ {r} : req'[o] = req[o]
      BY <2>2, Jumps DEF Crash
    <3>2. \A o \in Requests : AtImage(req'[o], i) => o # r
      BY <3>1 DEF AtImage
    <3>3. Untorn(i) /\ Named(i)
      BY <1>2 DEF Images
    <3>4. Untorn(i)'
      BY <3>1, <3>2, <3>3 DEF Untorn, There
    <3>5. \A o \in Requests : Deleted(req[o], i) => Deleted(req'[o], i)
      BY <1>2, <3>1
    <3>6. Named(i)'
      BY <3>3, <3>5 DEF Named, There
    <3>7. QED
      BY <3>4, <3>6
  <2>3. QED
    BY <2>1, <2>2
<1> QED
  BY <1>1, <1>2 DEF Images

LEMMA ImagesNext ==
  ASSUME TypeOK, Kinds, Solitary, Put, Images, [Next]_vars PROVE Images'
<1>1. ASSUME NEW r \in Requests, SeeOthers(r) \/ LockOthers(r) \/ Deadlock(r) \/ Count(r)
                                 \/ Use(r) \/ ReadList(r) \/ Push(r)
      PROVE  Images'
  <2>1. Step(r) /\ UNCHANGED <<row, stored, torn>>
    BY <1>1 DEF Step, SeeOthers, LockOthers, Deadlock, Count, Use, ReadList, Push
  <2>2. req[r].pc \notin {"delete object", "put object"} /\ req'[r].pc # "delete object"
    <3>1. req[r].pc \notin {"delete object", "put object"}
      BY <1>1 DEF SeeOthers, LockOthers, Deadlock, Count, Use, ReadList, Push
    <3>2. QED
      BY <2>1, <3>1, Moves
  <2>3. \A i \in Rows : ~Deleted(req[r], i)
    BY <1>1 DEF SeeOthers, LockOthers, Deadlock, Count, Use, ReadList, Push, Deleted, AtImage
  <2>4. QED
    BY <2>1, <2>2, <2>3, ImageQuiet
<1>2. ASSUME NEW r \in Requests, Crash(r) PROVE Images'
  <2>1. UNCHANGED <<row, stored>> /\ torn' = torn \union {i \in Rows : Deleted(req[r], i)}
    BY <1>2 DEF Crash
  <2>2. req'[r].pc = "done"
    BY <1>2, Jumps DEF Crash
  <2>3. QED
    BY <1>2, <2>1, <2>2, ImageQuiet
<1>3. ASSUME NEW r \in Requests, PutObject(r) PROVE Images'
  <2> DEFINE op == req[r].op
  <2>1. /\ stored' = stored \union {<<op.row, op.ext>>} /\ UNCHANGED <<row, torn>>
        /\ req[r].pc = "put object"
    BY <1>3 DEF PutObject
  <2>2. Open(r) /\ op.type = "upload"
    BY <2>1 DEF Open, TypeOK, Fits
  <2>3. req'[r].pc = "delete object" => req[r].old \notin {NoImage, op.ext}
    <3>1. req[r].old \in {NoImage, op.ext} => Goto(r, "write")
      BY <1>3 DEF PutObject
    <3>2. Goto(r, "write") => req'[r].pc = "write"
      BY Jumps
    <3>3. QED
      BY <3>1, <3>2
  <2>4. Imaged'
    BY <1>3, <2>1, <2>2, <2>3, ImagedStep DEF Step
  <2>5. ASSUME NEW i \in Rows \ torn' PROVE Untorn(i)' /\ Named(i)'
    <3>1. /\ ~Deleted(req[r], i) /\ (AtImage(req[r], i) => i = op.row)
      BY <2>1 DEF Deleted, AtImage
    <3>2. QED
      BY <1>3, <2>1, <2>5, <3>1, ImageSteps DEF Step, There
  <2>6. QED
    BY <2>4, <2>5 DEF Images
<1>4. ASSUME NEW r \in Requests, DeleteObject(r) PROVE Images'
  <2> DEFINE op == req[r].op
  <2>1. /\ stored' = stored \ {<<op.row, req[r].old>>} /\ UNCHANGED <<row, torn>>
        /\ req[r].pc = "delete object"
    BY <1>4 DEF DeleteObject
  <2>2. /\ req'[r].pc = "write" /\ req'[r].op = op /\ req'[r].old = req[r].old
    BY <1>4, Jumps DEF DeleteObject
  <2>3. /\ AtImage(req[r], op.row) /\ req[r].old # NoImage
        /\ op.type = "upload" => req[r].old # op.ext
    BY <2>1 DEF Images, Imaged
  <2>4. Imaged'
    BY <1>4, <2>1, <2>2, ImagedStep DEF Step
  <2>5. ASSUME NEW i \in Rows \ torn' PROVE Untorn(i)' /\ Named(i)'
    <3>1. AtImage(req[r], i) => i = op.row
      BY DEF AtImage
    <3>2. ~Deleted(req[r], i)
      BY <2>1 DEF Deleted
    <3>3. AtImage(req[r], i) => Deleted(req'[r], i)
      BY <2>2, <2>3, <3>1 DEF Deleted, AtImage
    <3>4. \A s \in Exts : <<i, s>> \in stored /\ <<i, s>> \notin stored' =>
            AtImage(req[r], i) /\ req[r].old = s
      BY <2>1, <2>3
    <3>5. QED
      BY <1>4, <2>1, <2>5, <3>2, <3>3, <3>4, ImageSteps DEF Step, There
  <2>6. QED
    BY <2>4, <2>5 DEF Images
<1>5. ASSUME NEW r \in Requests, Remove(r) PROVE Images'
  <2> DEFINE i == req[r].op.row
  <2>1. /\ req[r].pc = "write" /\ UNCHANGED <<stored, torn, list>> /\ Open(r)
        /\ i \in Rows /\ req'[r].pc \in {"done", "list"} /\ req[r].op.type = "remove"
    <3>1. req'[r].pc \in {"done", "list"}
      BY <1>5, Jumps DEF Remove
    <3>2. QED
      BY <1>5, <3>1 DEF Remove, Open, Fits, TypeOK, Ops
  <2>2. \/ row' = row /\ (~There(i) \/ list.inUse = "restrict")
        \/ /\ ~row'[i].there /\ row'[i].image = NoImage
           /\ \A j \in Rows \ {i} : row'[j] = row[j]
    <3>1. CASE ~There(i) \/ (list.inUse = "restrict" /\ uses[i])
      BY <1>5, <3>1 DEF Remove
    <3>2. CASE ~(~There(i) \/ (list.inUse = "restrict" /\ uses[i]))
      <4>1. row' = [row EXCEPT ![i] = [@ EXCEPT !.there = FALSE, !.default = FALSE,
                                                !.image = NoImage]]
        BY <1>5, <3>2 DEF Remove
      <4>2. row[i] \in Row
        BY <2>1 DEF TypeOK
      <4>3. row'[i].there = FALSE /\ row'[i].image = NoImage
        BY <2>1, <4>1, <4>2 DEF TypeOK, Row
      <4>4. QED
        BY <2>1, <4>1, <4>3 DEF TypeOK, There
    <3>3. QED
      BY <3>1, <3>2
  <2>3. Imaged'
    <3>1. \A j \in Rows : row'[j].image = NoImage \/ row'[j].image = row[j].image
      BY <2>1, <2>2
    <3>2. QED
      BY <1>5, <2>1, <3>1, ImagedStep DEF Step
  <2>4. ASSUME NEW j \in Rows \ torn' PROVE Untorn(j)' /\ Named(j)'
    <3>1. There(j)' => There(j) /\ row'[j].image = row[j].image
      BY <2>2 DEF There
    <3>2. There(j)' /\ row'[j].image # NoImage => ~Deleted(req[r], j)
      <4> SUFFICES ASSUME There(j)', row'[j].image # NoImage, Deleted(req[r], j) PROVE FALSE
        OBVIOUS
      <4>1. j = i
        BY DEF Deleted, AtImage
      <4>2. list.inUse = "restrict"
        BY <2>2, <3>1, <4>1
      <4>3. list.images
        BY <3>1 DEF Images, Imaged
      <4>4. QED
        BY <4>2, <4>3, ImagesUnrestricted DEF TypeOK
    <3>3. QED
      BY <1>5, <2>1, <2>4, <3>1, <3>2, ImageSteps DEF Step
  <2>5. QED
    BY <2>3, <2>4 DEF Images
<1>6. CASE UNCHANGED vars
  BY <1>6 DEF vars, Images, Imaged, Untorn, Named, There, Open
<1>7. ASSUME NEW r \in Requests, Step(r) \/ Crash(r) PROVE Images'
  BY <1>1, <1>2, <1>3, <1>4, <1>5, <1>7, ImageWritten DEF Step
<1> QED
  BY <1>6, <1>7, ImageBegins DEF Next
-----------------------------------------------------------------------------
LEMMA NoOrphansNext ==
  ASSUME TypeOK, Kinds, Counting, NoOrphans, [Next]_vars PROVE NoOrphans'
<1>1. CASE UNCHANGED <<row, uses, late>>
  BY <1>1 DEF NoOrphans, There
<1>2. ASSUME NEW r \in Requests, Write(r), row' # row PROVE NoOrphans'
  <2> DEFINE op == req[r].op
  <2>1. /\ op \in Ops /\ op.type \notin {"remove", "use"}
        /\ op.type # "create" => There(op.row)
    BY <1>2 DEF Write, Open, Fits, TypeOK
  <2>2. op.row \in Rows /\ Written(op).there
    BY <2>1, WrittenRow
  <2>3. \A i \in Rows : There(i) => There(i)'
    <3> SUFFICES ASSUME NEW i \in Rows, There(i) PROVE row'[i].there
      BY DEF There
    <3>1. row[i] \in Row
      BY DEF TypeOK
    <3>2. [row[i] EXCEPT !.default = FALSE].there = row[i].there
      BY <3>1 DEF Row
    <3>3. row'[i] \in {Written(op), row[i], [row[i] EXCEPT !.default = FALSE]}
          /\ (i = op.row => row'[i] = Written(op))
      BY <1>2, <2>2 DEF Write
    <3>4. CASE i = op.row
      BY <2>2, <3>3, <3>4
    <3>5. CASE row'[i] \in {row[i], [row[i] EXCEPT !.default = FALSE]}
      BY <3>2, <3>5 DEF There
    <3>6. QED
      BY <2>2, <3>3, <3>4, <3>5
  <2>4. UNCHANGED <<uses, late>>
    BY <1>2 DEF Write
  <2>5. QED
    BY <2>3, <2>4 DEF NoOrphans
<1>3. ASSUME NEW r \in Requests, Remove(r), There(req[r].op.row),
             ~(list.inUse = "restrict" /\ uses[req[r].op.row])
      PROVE  NoOrphans'
  <2> DEFINE i == req[r].op.row
  <2>1. /\ row' = [row EXCEPT ![i] = [@ EXCEPT !.there = FALSE, !.default = FALSE,
                                              !.image = NoImage]]
        /\ uses' = IF list.inUse = "set null" THEN [uses EXCEPT ![i] = FALSE] ELSE uses
        /\ late' = late
        /\ req[r].pc = "write" /\ req[r].op.type = "remove"
    BY <1>3 DEF Remove
  <2>2. i \in Rows
    BY <2>1 DEF TypeOK, Fits, Ops, Open
  <2>3. uses'[i] => i \in late
    <3>1. CASE list.inUse = "set null"
      BY <2>1, <2>2, <3>1 DEF TypeOK
    <3>2. CASE list.inUse \in Counted
      BY <1>3, <2>1, <3>2 DEF Counting, Counted
    <3>3. CASE list.inUse \notin Counted \union {"set null"}
      BY <2>1, <2>2, <3>3 DEF Counting
    <3>4. QED
      BY <3>1, <3>2, <3>3
  <2>4. \A j \in Rows \ {i} : uses'[j] = uses[j] /\ row'[j] = row[j]
    BY <2>1 DEF TypeOK
  <2>5. QED
    BY <2>1, <2>3, <2>4 DEF NoOrphans, There
<1>4. ASSUME NEW r \in Requests, Use(r) PROVE NoOrphans'
  <2> DEFINE i == req[r].op.row
  <2>1. /\ row' = row /\ late \subseteq late'
        /\ ~There(i) => i \in late'
        /\ \A j \in Rows \ {i} : uses'[j] = uses[j]
    BY <1>4 DEF Use, TypeOK
  <2>2. QED
    BY <2>1 DEF NoOrphans, There
<1>5. ASSUME NEW r \in Requests, Step(r) \/ Crash(r) PROVE NoOrphans'
  <2>1. CASE Write(r)
    <3>1. UNCHANGED <<uses, late>>
      BY <2>1 DEF Write
    <3>2. QED
      BY <1>1, <1>2, <2>1, <3>1
  <2>2. CASE Remove(r)
    <3>1. CASE There(req[r].op.row) /\ ~(list.inUse = "restrict" /\ uses[req[r].op.row])
      BY <1>3, <2>2, <3>1
    <3>2. CASE ~(There(req[r].op.row) /\ ~(list.inUse = "restrict" /\ uses[req[r].op.row]))
      <4>1. UNCHANGED <<row, uses, late>>
        BY <2>2, <3>2 DEF Remove
      <4>2. QED
        BY <1>1, <4>1
    <3>3. QED
      BY <3>1, <3>2
  <2>3. CASE SeeOthers(r) \/ LockOthers(r) \/ Deadlock(r) \/ Count(r) \/ Crash(r)
    BY <1>1, <2>3 DEF SeeOthers, LockOthers, Deadlock, Count, Crash
  <2>4. CASE PutObject(r) \/ DeleteObject(r) \/ ReadList(r) \/ Push(r)
    BY <1>1, <2>4 DEF PutObject, DeleteObject, ReadList, Push
  <2>5. QED
    BY <1>4, <1>5, <2>1, <2>2, <2>3, <2>4 DEF Step
<1>6. ASSUME NEW r \in Requests, NEW op \in Ops, Begin(r, op) PROVE NoOrphans'
  BY <1>1, <1>6 DEF Begin
<1>7. CASE UNCHANGED vars
  BY <1>1, <1>7 DEF vars
<1> QED
  BY <1>5, <1>6, <1>7 DEF Next

(* The inductive invariant: types, where requests can be, what a count and *)
(* a lone request may rely on.                                             *)
LEMMA ListInvariant == Spec => []ListInv
<1>1. Init /\ TypeOK => ListInv
  <2> SUFFICES ASSUME Init, TypeOK PROVE ListInv
    OBVIOUS
  <2>1. \A r \in Requests : req[r].pc = "idle"
    BY DEF Init, Idle
  <2>2. \A i \in Rows : ~uses[i]
    BY DEF Init
  <2>3. Images
    <3>1. \A r \in Requests : ~Open(r) /\ \A i : ~AtImage(req[r], i)
      BY <2>1 DEF Open, AtImage
    <3>2. \A i \in Rows : row[i].image # NoImage => <<i, row[i].image>> \in stored /\ list.images
      BY DEF Init
    <3>3. QED
      BY <2>1, <3>1, <3>2 DEF Images, Imaged, Untorn, Named
  <2>4. QED
    BY <2>1, <2>2, <2>3 DEF ListInv, Kinds, Counting, Solitary, Cleared, Put, NoOrphans, Open
<1>2. ListInv /\ TypeOK' /\ [Next]_vars => ListInv'
  BY KindsNext, CountingNext, SolitaryNext, ClearedNext, PutNext, NoOrphansNext, ImagesNext
  DEF ListInv
<1>3. QED
  BY <1>1, <1>2, ListTypes, PTL DEF Spec

(* Nothing refers to a removed row but what came after the removal had     *)
(* counted: warehouses.service, product-lists.service, quote-templates and *)
(* bank-account groups.                                                    *)
THEOREM ListsLeaveNoOrphans == Spec => []NoOrphans
<1>1. ListInv => NoOrphans
  BY DEF ListInv
<1>2. QED
  BY <1>1, ListInvariant, PTL

LEMMA CommitOfLone ==
  ASSUME ListInv, Next, NEW r \in Requests, Commits(r), req[r].alone
  PROVE  Write(r) \/ Remove(r)
<1>1. Open(r) /\ row' # row
  BY DEF Commits, Open
<1>2. PICK s \in Requests : Step(s) \/ Crash(s)
  BY <1>1 DEF Next, Begin
<1>3. Write(s) \/ Remove(s)
  BY <1>1, <1>2 DEF Step, SeeOthers, LockOthers, Deadlock, Count, Use, PutObject,
     DeleteObject, ReadList, Push, Crash
<1>4. Open(s)
  BY <1>3 DEF Write, Remove, Open
<1>5. s = r
  BY <1>1, <1>4 DEF ListInv, Solitary
<1> QED
  BY <1>3, <1>5

(* Making a row the default leaves it the only one, when no other request  *)
(* runs beside: updateMany clears what it saw, and it saw them all.        *)
THEOREM ListsKeepOneDefault == Spec => LoneMarkLeavesOne
<1>1. ListInv /\ Next =>
        \A r \in Requests :
          Commits(r) /\ req[r].alone /\ Marks(req[r].op) => Marked' = {req[r].op.row}
  <2> SUFFICES ASSUME ListInv, Next, NEW r \in Requests, Commits(r), req[r].alone,
                      Marks(req[r].op)
               PROVE  Marked' = {req[r].op.row}
    OBVIOUS
  <2> DEFINE op == req[r].op
  <2>1. /\ req[r].pc = "own" /\ row' # row /\ op \in Ops
        /\ req[r].seen = Marked \ {op.row}
    <3>1. Open(r) /\ req[r].pc \in {"write", "own"} /\ row' # row
      BY DEF Commits, Open
    <3>2. req[r].pc = "own"
      BY <3>1 DEF ListInv, Kinds, Placed
    <3>3. QED
      BY <3>1, <3>2 DEF ListInv, Cleared, TypeOK, Fits
  <2>2. Write(r)
    BY <2>1, CommitOfLone DEF Remove
  <2>3. op.type \in {"create", "update", "mark"} /\ (op.type # "mark" => op.flag = "yes")
    <3>1. list.marks \subseteq {"create", "update", "mark"}
      BY KindsOfLists DEF ListInv, TypeOK, ListType
    <3>2. QED
      BY <3>1 DEF Marks
  <2>4. op.row \in Rows /\ Written(op).there /\ Written(op).default
    BY <2>1, <2>3 DEF Ops, Written
  <2>5. \A i \in Rows : row'[i] = IF i = op.row THEN Written(op)
                                  ELSE IF i \in req[r].seen
                                       THEN [row[i] EXCEPT !.default = FALSE]
                                  ELSE row[i]
    BY <2>1, <2>2 DEF Write
  <2>6. \A i \in Rows \ {op.row} : ~(row'[i].there /\ row'[i].default)
    <3> SUFFICES ASSUME NEW i \in Rows \ {op.row} PROVE ~(row'[i].there /\ row'[i].default)
      OBVIOUS
    <3>1. row[i] \in Row
      BY DEF ListInv, TypeOK
    <3>2. CASE i \in req[r].seen
      BY <2>5, <3>1, <3>2 DEF Row
    <3>3. CASE i \notin req[r].seen
      BY <2>1, <2>5, <3>3 DEF Marked, There
    <3>4. QED
      BY <3>2, <3>3
  <2>7. QED
    BY <2>4, <2>5, <2>6 DEF Marked, There
<1>2. ListInv /\ [Next]_vars =>
        [\A r \in Requests :
           Commits(r) /\ req[r].alone /\ Marks(req[r].op) => Marked' = {req[r].op.row}]_vars
  BY <1>1
<1>3. QED
  BY <1>2, ListInvariant, PTL DEF Spec, LoneMarkLeavesOne

(* A row names a stored image or none, but for the exceptions of           *)
(* ImagesStored: uploadImage, removeImage and remove of quote-templates,   *)
(* tenants, users and bank-account groups.                                 *)
THEOREM ListsKeepImages == Spec => []ImagesStored
<1>1. ListInv => ImagesStored
  BY DEF ListInv, Images, ImagesStored, Named
<1>2. QED
  BY <1>1, ListInvariant, PTL
=============================================================================
