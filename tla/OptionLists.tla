---------------------------- MODULE OptionLists ----------------------------
(***************************************************************************)
(* The lists a tenant keeps under its settings: labels for the forms       *)
(* (brands, units, sectors, ...), warehouses, product lists, bank account  *)
(* groups and quote templates.  Their services are one pattern with small  *)
(* differences, so a list is described by a record and the handlers are    *)
(* written once:                                                           *)
(*                                                                         *)
(*  - a request finds its row, and writes it in a later statement;         *)
(*  - "at most one default" is kept by a READ COMMITTED transaction that   *)
(*    clears the flag of the other rows and then sets its own;             *)
(*  - an image lives in object storage and is named by the row;            *)
(*  - after the commit the whole list is read again and pushed to every    *)
(*    open screen of the tenant.                                           *)
(***************************************************************************)
EXTENDS Naturals, FiniteSets

CONSTANTS Requests,
          Rows,       \* identities of rows, used and not yet used
          Labels,     \* names a row may be given
          Capitals,   \* toLocaleUpperCase('tr-TR') of each
          Exts,       \* file types of an image
          Start,      \* the tables a behaviour may begin with
          MayCrash    \* whether the server may die inside a request

NoImage == "no image"
Row     == [there : BOOLEAN, label : Labels, default : BOOLEAN,
            image : Exts \union {NoImage}]

ASSUME ListsAssumption == /\ Start \subseteq [Rows -> Row]
                          /\ Capitals \in [Labels -> Labels]
                          /\ \A l \in Labels : Capitals[Capitals[l]] = Capitals[l]
                          /\ MayCrash \in BOOLEAN

(***************************************************************************)
(* The lists.  unique: a second row of one name is refused; upper: names   *)
(* are stored in capitals; marks: the requests that can make a row the     *)
(* default; keeps: an update without the flag leaves it; images: rows      *)
(* carry an image; pushed: open screens get every change; inUse: what      *)
(* becomes of the rows that refer to a removed one.                        *)
(***************************************************************************)
Plain == [unique |-> TRUE, upper |-> FALSE, marks |-> {}, keeps |-> TRUE,
          images |-> FALSE, pushed |-> TRUE, inUse |-> "free text"]

Brands            == Plain
Sectors           == Plain
Departments       == Plain
Titles            == Plain
ProductCategories == Plain
PaymentMethods    == Plain
RejectionReasons  == Plain
InteractionTypes  == [Plain EXCEPT !.upper = TRUE]
ReminderTypes     == [Plain EXCEPT !.upper = TRUE]
Units      == [Plain EXCEPT !.marks = {"mark"}]
Warehouses == [Plain EXCEPT !.marks = {"create", "update"}, !.inUse = "restrict"]
ProductLists == [Plain EXCEPT !.unique = FALSE, !.inUse = "hidden"]
IbanOptions  == [Plain EXCEPT !.unique = FALSE, !.inUse = "copied"]
IbanGroups   == [Plain EXCEPT !.unique = FALSE, !.marks = {"create", "update"},
                              !.keeps = FALSE, !.images = TRUE, !.inUse = "set null"]
QuoteTemplates == [Plain EXCEPT !.unique = FALSE, !.images = TRUE,
                     !.marks = {"create", "update", "mark"}, !.inUse = "set null"]

\* One row each, of which only the image is written here.
CompanyLogo == [Plain EXCEPT !.unique = FALSE, !.images = TRUE, !.pushed = FALSE]
Avatar      == [Plain EXCEPT !.unique = FALSE, !.images = TRUE, !.pushed = FALSE]

AllLists == {Brands, Sectors, Departments, Titles, ProductCategories,
             PaymentMethods, RejectionReasons, InteractionTypes, ReminderTypes,
             Units, Warehouses, ProductLists, IbanOptions, IbanGroups,
             QuoteTemplates, CompanyLogo, Avatar}

\* The lists a removal first counts the users of.
Counted == {"restrict", "hidden"}
-----------------------------------------------------------------------------
VARIABLES list,      \* the list this behaviour is about
          row,       \* its table
          stored,    \* the image objects in storage, <<row, ext>>
          uses,      \* per row, whether something refers to it
          shown,     \* the list last pushed to the tenant's screens
          req,       \* requests
          late,      \* rows that got a user after a removal had counted none
          torn       \* rows whose image was deleted or replaced by requests
                     \* that crossed, or by one that died before its write

vars == <<list, row, stored, uses, shown, req, late, torn>>

There(i) == row[i].there
Shown    == [i \in {j \in Rows : There(j)} |-> <<row[i].label, row[i].default>>]
Marked   == {i \in Rows : There(i) /\ row[i].default}

Flags == {"yes", "no", "unset"}
Ops == [type : {"create", "update"}, row : Rows, label : Labels, flag : Flags]
       \union [type : {"mark", "remove", "use", "clear image"}, row : Rows]
       \union [type : {"upload"}, row : Rows, ext : Exts]

\* Whether a request of this list runs the transaction that moves the default.
Marks(op) == /\ op.type \in list.marks
             /\ op.type \in {"create", "update"} => op.flag = "yes"

Offered(op) ==
  /\ ~list.pushed => op.type \in {"upload", "clear image"}
  /\ op.type \in {"create", "update"} /\ list.marks \intersect {"create", "update"} = {}
       => op.flag = "unset"
  /\ op.type = "mark" => "mark" \in list.marks
  /\ op.type \in {"upload", "clear image"} => list.images
  /\ op.type = "use" => list.inUse \in Counted \union {"set null"}

Open(r) == req[r].pc \notin {"idle", "done"}
Idle    == [pc |-> "idle", op |-> [type |-> "none"], seen |-> {}, old |-> NoImage,
            read |-> <<>>, alone |-> TRUE]

Init ==
  /\ list \in AllLists
  /\ row \in Start
  /\ \A i \in Rows : /\ row[i].image # NoImage => list.images
                     /\ row[i].default => list.marks # {}
                     /\ list.upper => row[i].label = Capitals[row[i].label]
                     /\ list.unique => \A j \in Rows \ {i} :
                          There(i) /\ There(j) => row[i].label # row[j].label
  /\ stored = {<<i, row[i].image>> : i \in {j \in Rows : row[j].image # NoImage}}
  /\ uses = [i \in Rows |-> FALSE]
  /\ shown = Shown
  /\ req = [r \in Requests |-> Idle]
  /\ late = {}
  /\ torn = {}

(* A request is alone when no other is under way while it is.              *)
Enter(r, new) ==
  LET others == {o \in Requests \ {r} : Open(o)} IN
  req' = [o \in Requests |->
            IF o = r THEN [new EXCEPT !.alone = (others = {})]
            ELSE IF o \in others THEN [req[o] EXCEPT !.alone = FALSE]
            ELSE req[o]]

Goto(r, pc) == req' = [req EXCEPT ![r].pc = pc]
-----------------------------------------------------------------------------
\* On its way to write the row's image, and past the deletion of the old one.
AtImage(q, i) == /\ q.pc \in {"put object", "delete object", "count", "write"}
                 /\ q.op.type \in {"upload", "clear image", "remove"} /\ q.op.row = i
Deleted(q, i) == /\ AtImage(q, i) /\ q.pc = "write" /\ q.old # NoImage
                 /\ q.op.type = "upload" => q.old # q.op.ext
Crossed == {i \in Rows : \E o, p \in Requests :
                            o # p /\ AtImage(req[o], i) /\ AtImage(req[p], i)}

(* A request arrives and looks its row up: 404 when there is none.         *)
Begin(r, op) ==
  /\ req[r].pc = "idle" /\ Offered(op)
  /\ op.type = "create" => /\ ~There(op.row)
                           /\ \A o \in Requests : Open(o) => req[o].op.row # op.row
  /\ Enter(r, [Idle EXCEPT
       !.op = op,
       !.old = IF op.type = "create" THEN NoImage ELSE row[op.row].image,
       !.pc = IF op.type \notin {"create", "use"} /\ ~There(op.row) THEN "done"
              ELSE IF Marks(op) THEN "others"
              ELSE IF op.type = "remove" /\ list.inUse \in Counted THEN "count"
              ELSE IF op.type \in {"remove", "clear image"} /\ row[op.row].image # NoImage
                   THEN "delete object"
              ELSE IF op.type = "upload" THEN "put object" ELSE "write"])
  /\ torn' = torn \union Crossed'
  /\ UNCHANGED <<list, row, stored, uses, shown, late>>

(* Rows a transaction has written and not committed are locked.            *)
Held(r) == IF req[r].pc = "own" THEN req[r].seen ELSE {}
LockedFor(r, rows) == \E o \in Requests \ {r} : Held(o) \intersect rows # {}

(* updateMany: its snapshot is taken now, its rows are locked as they come *)
(* free; a row that is no default any more by then is left alone.          *)
SeeOthers(r) ==
  /\ req[r].pc = "others"
  /\ req' = [req EXCEPT ![r].pc = "lock", ![r].seen = Marked \ {req[r].op.row}]
  /\ UNCHANGED <<list, row, stored, uses, shown, late, torn>>

LockOthers(r) ==
  /\ req[r].pc = "lock"
  /\ ~LockedFor(r, req[r].seen)
  /\ req' = [req EXCEPT ![r].pc = "own", ![r].seen = @ \intersect Marked]
  /\ UNCHANGED <<list, row, stored, uses, shown, late, torn>>

Name(op) == IF list.upper THEN Capitals[op.label] ELSE op.label
Taken(op) == /\ list.unique
             /\ \E i \in Rows \ {op.row} : There(i) /\ row[i].label = Name(op)

(* Mutant of Written. *)
WrittenFlagKept(op) ==
  LET old == row[op.row]
      named == op.type \in {"create", "update"} IN
  [there   |-> TRUE,
   label   |-> IF named THEN Name(op) ELSE old.label,
   default |-> IF op.type = "mark" THEN TRUE
               ELSE IF op.type = "create" THEN op.flag = "yes" ELSE old.default,
   image   |-> IF op.type = "upload" THEN op.ext
               ELSE IF op.type \in {"create", "clear image"} THEN NoImage ELSE old.image]

(* What the row, which is there or being created, holds after a request's  *)
(* own statement.                                                          *)
Written(op) ==
  LET old == row[op.row]
      named == op.type \in {"create", "update"}
      kept == op.type = "update" /\ op.flag = "unset" /\ list.keeps IN
  [there   |-> TRUE,
   label   |-> IF named THEN Name(op) ELSE old.label,
   default |-> IF op.type = "mark" THEN TRUE
               ELSE IF named /\ ~kept THEN op.flag = "yes" ELSE old.default,
   image   |-> IF op.type = "upload" THEN op.ext
               ELSE IF op.type \in {"create", "clear image"} THEN NoImage ELSE old.image]

(* The insert or update, and the commit of a transaction that moved the    *)
(* default.  A taken name (P2002) or a row that is gone (P2025) rolls back.*)
Write(r) ==
  LET op == req[r].op IN
  /\ req[r].pc \in {"write", "own"} /\ op.type \notin {"remove", "use"}
  /\ ~LockedFor(r, {op.row})
  /\ IF \/ op.type # "create" /\ ~There(op.row)
        \/ op.type \in {"create", "update"} /\ Taken(op)
     THEN Goto(r, "done") /\ UNCHANGED <<row, torn>>
     ELSE /\ row' = [i \in Rows |->
                       IF i = op.row THEN Written(op)
                       ELSE IF req[r].pc = "own" /\ i \in req[r].seen
                            THEN [row[i] EXCEPT !.default = FALSE]
                       ELSE row[i]]
          /\ torn' = torn \ {i \in {op.row} : op.type \in {"upload", "clear image"}
                                               /\ req[r].alone}
          /\ Goto(r, IF list.pushed THEN "list" ELSE "done")
  /\ UNCHANGED <<list, stored, uses, shown, late>>

(* Two transactions that wait for each other: Postgres cancels one.        *)
Deadlock(r) ==
  /\ req[r].pc = "own"
  /\ \E o \in Requests \ {r} : /\ req[o].pc = "own"
                               /\ req[r].op.row \in Held(o)
                               /\ req[o].op.row \in Held(r)
  /\ Goto(r, "done")
  /\ UNCHANGED <<list, row, stored, uses, shown, late, torn>>
-----------------------------------------------------------------------------
(* uploadLogo, uploadImage: the new object, then the old one if the file   *)
(* type changed.                                                           *)
PutObject(r) ==
  LET op == req[r].op IN
  /\ req[r].pc = "put object"
  /\ stored' = stored \union {<<op.row, op.ext>>}
  /\ Goto(r, IF req[r].old \in {NoImage, op.ext} THEN "write" ELSE "delete object")
  /\ UNCHANGED <<list, row, uses, shown, late, torn>>

(* Mutant of DeleteObject: clears everything under the row's prefix. *)
DeletePrefix(r) ==
  /\ req[r].pc = "delete object"
  /\ stored' = {s \in stored : s[1] # req[r].op.row}
  /\ Goto(r, "write")
  /\ UNCHANGED <<list, row, uses, shown, late, torn>>

DeleteObject(r) ==
  /\ req[r].pc = "delete object"
  /\ stored' = stored \ {<<req[r].op.row, req[r].old>>}
  /\ Goto(r, "write")
  /\ UNCHANGED <<list, row, uses, shown, late, torn>>
-----------------------------------------------------------------------------
(* Mutant of Count. *)
CountUnread(r) ==
  /\ req[r].pc = "count"
  /\ Goto(r, "write")
  /\ UNCHANGED <<list, row, stored, uses, shown, late, torn>>

(* remove: WAREHOUSE_NOT_EMPTY and PRODUCT_LIST_NOT_EMPTY.                  *)
Count(r) ==
  /\ req[r].pc = "count"
  /\ Goto(r, IF uses[req[r].op.row] THEN "done" ELSE "write")
  /\ UNCHANGED <<list, row, stored, uses, shown, late, torn>>

(* remove, its delete.  The foreign key of a warehouse refuses it, the one *)
(* of a product list sees only deletedAt being set, the others null what   *)
(* refers to the row.                                                      *)
Remove(r) ==
  LET i == req[r].op.row IN
  /\ req[r].pc = "write" /\ req[r].op.type = "remove"
  /\ ~LockedFor(r, {i})
  /\ IF ~There(i) \/ (list.inUse = "restrict" /\ uses[i])
     THEN Goto(r, "done") /\ UNCHANGED <<row, uses>>
     ELSE /\ row' = [row EXCEPT ![i] = [@ EXCEPT !.there = FALSE, !.default = FALSE,
                                                 !.image = NoImage]]
          /\ uses' = IF list.inUse = "set null" THEN [uses EXCEPT ![i] = FALSE] ELSE uses
          /\ Goto(r, "list")
  /\ UNCHANGED <<list, stored, shown, late, torn>>

(* A product, stock row, quote or account that names a row: one insert,    *)
(* checked by the foreign key alone.                                       *)
Use(r) ==
  LET i == req[r].op.row IN
  /\ req[r].pc = "write" /\ req[r].op.type = "use"
  /\ uses' = IF There(i) \/ list.inUse = "hidden" THEN [uses EXCEPT ![i] = TRUE] ELSE uses
  /\ late' = IF ~There(i) \/ \E o \in Requests \ {r} : /\ req[o].op.type = "remove"
                                                       /\ req[o].op.row = i
                                                       /\ req[o].pc = "write"
             THEN late \union {i} ELSE late
  /\ Goto(r, "done")
  /\ UNCHANGED <<list, row, stored, shown, torn>>
-----------------------------------------------------------------------------
(* emitUpdated: read the list, then push what was read.                    *)
ReadList(r) ==
  /\ req[r].pc = "list"
  /\ req' = [req EXCEPT ![r].pc = "push", ![r].read = Shown]
  /\ UNCHANGED <<list, row, stored, uses, shown, late, torn>>

Push(r) ==
  /\ req[r].pc = "push"
  /\ shown' = req[r].read
  /\ Goto(r, "done")
  /\ UNCHANGED <<list, row, stored, uses, late, torn>>

(* The server dies, or a call of the request fails: an open transaction is *)
(* rolled back, the rest stays.                                            *)
Crash(r) == /\ MayCrash /\ Open(r)
            /\ Goto(r, "done")
            /\ torn' = torn \union {i \in Rows : Deleted(req[r], i)}
            /\ UNCHANGED <<list, row, stored, uses, shown, late>>

Step(r) == \/ SeeOthers(r) \/ LockOthers(r) \/ Write(r) \/ Deadlock(r)
           \/ PutObject(r) \/ DeleteObject(r) \/ Count(r) \/ Remove(r) \/ Use(r)
           \/ ReadList(r) \/ Push(r)

Next == \E r \in Requests : \/ \E op \in Ops : Begin(r, op)
                            \/ Step(r)
                            \/ Crash(r)

Spec == Init /\ [][Next]_vars
-----------------------------------------------------------------------------
Views == {<<>>} \union UNION {[S -> Labels \X BOOLEAN] : S \in SUBSET Rows}

Places == {"idle", "others", "lock", "own", "write", "count", "put object",
           "delete object", "list", "push", "done"}

Request == [pc : Places, op : Ops \union {[type |-> "none"]},
            seen : SUBSET Rows, old : Exts \union {NoImage},
            read : Views, alone : BOOLEAN]

Fits(q) == q.op \in Ops /\ (q.pc = "put object" => q.op.type = "upload")

TypeOK ==
  /\ list \in AllLists
  /\ row \in [Rows -> Row]
  /\ stored \subseteq Rows \X Exts
  /\ uses \in [Rows -> BOOLEAN]
  /\ shown \in Views
  /\ req \in [Requests -> Request]
  /\ \A r \in Requests : Open(r) => Fits(req[r])
  /\ late \subseteq Rows /\ torn \subseteq Rows

Commits(r) == req[r].pc \in {"write", "own"} /\ row' # row

(* Making a row the default leaves it the only one, and repairs what an    *)
(* overlap left behind, unless two such requests run beside each other:    *)
(* each clears the rows it could see.                                      *)
LoneMarkLeavesOne ==
  [][\A r \in Requests :
       Commits(r) /\ req[r].alone /\ Marks(req[r].op) => Marked' = {req[r].op.row}]_vars

(* A row never names an image that is not stored, but while the request    *)
(* that deleted the object has still to write the row, when it died before *)
(* it did, and when requests for the image of one row crossed.  The next   *)
(* upload or removal of the image that runs alone repairs the row.         *)
ImagesStored ==
  \A i \in Rows :
    There(i) /\ row[i].image # NoImage /\ <<i, row[i].image>> \notin stored
    => i \in torn \/ \E r \in Requests : Deleted(req[r], i)

(* What refers to a removed row came after the removal had counted.        *)
NoOrphans == \A i \in Rows : uses[i] /\ ~There(i) => i \in late
=============================================================================
