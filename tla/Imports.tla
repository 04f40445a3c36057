------------------------------ MODULE Imports ------------------------------
(***************************************************************************)
(* Spreadsheet imports: firms, contacts, products, interactions and        *)
(* quotes, from a file whose columns the user has mapped.  An import is a  *)
(* loop of single statements (quotes: a transaction per row) that decides  *)
(* for each row whether a record of it is there already.  Firms, contacts, *)
(* products and interactions decide it from a copy of the table taken once *)
(* and kept up by the loop; quotes read the table for every row.  Contacts,*)
(* interactions and quotes name their firm, which is found or opened.      *)
(*                                                                         *)
(* Imported quotes keep their numbers: they are rows of DocNumbers' docs.  *)
(***************************************************************************)
EXTENDS DocNumbers, Sequences

CONSTANTS Importers,   \* imports, each of one file
          None,
          Offers       \* what a behaviour starts from and what it is offered

ASSUME ImportsAssumption == /\ Importers \intersect Requests = {}
                            /\ None \notin Importers

VARIABLES recs,    \* the firms, contacts, products and interactions
          imp,     \* the imports
          last,    \* the import that was last alone and has left all as it is
          offer

tables == <<docs, recs>>
allVars == <<vars, recs, imp, last, offer>>

(* A row of a file: whether it passes the checks of its columns, its name  *)
(* (product name, day and type of an interaction, number of a quote ...),  *)
(* tax number or e-mail, firm, person spoken to, and unmapped columns.     *)
Line(ok, name, code, firm, person, keys) ==
  [ok |-> ok, name |-> name, code |-> code, firm |-> firm, person |-> person,
   keys |-> keys]

Record(kind, id, name, code, of, who, keys) ==
  [kind |-> kind, id |-> id, name |-> name, code |-> code, of |-> of,
   who |-> who, keys |-> keys, live |-> TRUE]

(* What a behaviour starts from: records under primary keys of their own,  *)
(* none of them an import's, and files of rows.                            *)
ASSUME OffersAssumption ==
  \A o \in Offers :
    /\ \A file \in o.files : DOMAIN file = 1 .. Len(file)
    /\ \A x \in o.start :
         /\ x = Record(x.kind, x.id, x.name, x.code, x.of, x.who, x.keys)
         /\ x.id[1] \notin Importers
    /\ \A x, y \in o.start : x.kind = y.kind /\ x.id = y.id => x = y

Live(kind) == {x \in recs : x.kind = kind /\ x.live}
Named(kind, name) == {x \in Live(kind) : x.name = name}

Running(i) == imp[i].pc \notin {"idle", "done", "died"}
Valid(q) == {n \in DOMAIN q.file : q.file[n].ok} \ q.errors

Blank == [pc |-> "idle", kind |-> "accounts", file |-> <<>>, at |-> 0,
          of |-> <<>>, who |-> None, opened |-> {}, quote |-> None,
          byCode |-> <<>>, byName |-> <<>>, made |-> {}, changed |-> {},
          errors |-> {}, renamed |-> FALSE, again |-> FALSE, alone |-> TRUE]

ImportsInit ==
  /\ Init
  /\ offer \in Offers
  /\ recs = offer.start
  /\ imp = [i \in Importers |-> Blank]
  /\ last = None

(* A change that somebody else makes while imports run.                    *)
Disturbed == [o \in Importers |-> IF Running(o) THEN [imp[o] EXCEPT !.alone = FALSE]
                                                ELSE imp[o]]
-----------------------------------------------------------------------------
(* The next row of a loop over the valid rows, or the end of it.           *)
Onward(q, n) ==
  LET rest == {m \in Valid(q) : m > n} IN
  IF rest = {} THEN [q EXCEPT !.pc = "clear"]
  ELSE [q EXCEPT !.at = CHOOSE m \in rest : \A o \in rest : m <= o,
                 !.pc = IF q.kind \in {"interactions", "quotes"} THEN "firm" ELSE "row"]

(* The file is read; errors are the rows that are turned down at once.     *)
Start(i, kind, file, errors) ==
  [Blank EXCEPT !.kind = kind, !.file = file, !.errors = errors,
                !.of = [n \in DOMAIN file |-> None],
                !.again = last = <<kind, file>>,
                !.alone = ~\E o \in Importers : Running(o)]

Enter(i, q) == /\ imp[i].pc = "idle"
                /\ imp' = [Disturbed EXCEPT ![i] = q]
                /\ last' = None
                /\ UNCHANGED <<vars, recs, offer>>

TurnedDown(file) == {n \in DOMAIN file : ~file[n].ok}

(* Firms and products: all rows are checked before any is written.         *)
BeginFirms(i, file) ==
  LET q == Start(i, "accounts", file, TurnedDown(file)) IN
  Enter(i, [q EXCEPT !.pc = IF Valid(q) = {} THEN "clear" ELSE "load"])

BeginProducts(i, file) ==
  LET q == Start(i, "products", file, TurnedDown(file)) IN
  Enter(i, [q EXCEPT !.pc = IF Valid(q) = {} THEN "clear" ELSE "load"])

(* Contacts: a row's firm is looked up, and opened, before it is checked.  *)
BeginContacts(i, file) ==
  Enter(i, [Start(i, "contacts", file, {}) EXCEPT !.pc = "firm", !.at = 1])

(* Interactions: the table is copied first, each row checked when reached. *)
BeginInteractions(i, file) ==
  Enter(i, [Start(i, "interactions", file, TurnedDown(file)) EXCEPT !.pc = "load"])

(* Quotes: checked first; the table is read row by row.                    *)
BeginQuotes(i, file) ==
  Enter(i, Onward(Start(i, "quotes", file, TurnedDown(file)), 0))

BeginImport(i, kind, file) ==
  \/ kind = "accounts" /\ BeginFirms(i, file)
  \/ kind = "products" /\ BeginProducts(i, file)
  \/ kind = "contacts" /\ BeginContacts(i, file)
  \/ kind = "interactions" /\ BeginInteractions(i, file)
  \/ kind = "quotes" /\ BeginQuotes(i, file)

(* A row after its firm.  importContacts checks the row now, the firm's    *)
(* presence too, and goes on with the next; importInteractions looks for   *)
(* the person.                                                             *)
AfterFirm(q, of, there) ==
  LET done == [q EXCEPT !.of[q.at] = of,
                !.errors = IF q.file[q.at].ok /\ there THEN @ ELSE @ \union {q.at}] IN
  IF q.kind = "interactions"
  THEN [done EXCEPT !.errors = q.errors,
                    !.pc = IF q.file[q.at].person = None THEN "row" ELSE "person"]
  ELSE IF q.at < Len(q.file) THEN [done EXCEPT !.pc = "firm", !.at = @ + 1]
  ELSE [done EXCEPT !.pc = IF Valid(done) = {} THEN "clear" ELSE "load"]

(* The firm of a row: one this import has already used, or any firm of the *)
(* name (accountIdByName, account.findFirst).                              *)
FindFirm(i) ==
  LET q    == imp[i]
      line == q.file[q.at]
      used == {x.id : x \in {y \in q.opened : y.name = line.firm}}
      ids  == IF line.firm = None THEN {None}
              ELSE IF used # {} THEN used
              ELSE {x.id : x \in Named("accounts", line.firm)} IN
  /\ q.pc = "firm" /\ q.kind # "quotes"
  /\ \/ \E id \in ids :
          imp' = [imp EXCEPT ![i] =
            AfterFirm([q EXCEPT !.opened = IF line.firm = None THEN @
                         ELSE @ \union {[name |-> line.firm, id |-> id]}],
                      id, id = None \/ \E x \in Live("accounts") : x.id = id)]
     \/ /\ ids = {}
        /\ imp' = [imp EXCEPT ![i] = [q EXCEPT !.pc = "open"]]
  /\ UNCHANGED <<vars, recs, last, offer>>

(* The reads of a quote's transaction: its firm and the quote itself.      *)
FindQuote(i) ==
  LET q     == imp[i]
      line  == q.file[q.at]
      firms == {x.id : x \in Named("accounts", line.firm)}
      same  == {d \in Rows("quote") : d.live /\ d.number = line.name} IN
  /\ q.pc = "firm" /\ q.kind = "quotes"
  /\ \E id \in IF firms = {} THEN {None} ELSE firms :
       imp' = [imp EXCEPT ![i] =
         [q EXCEPT !.pc = "row", !.of[q.at] = id,
                   !.quote = IF same = {} THEN None ELSE CHOOSE d \in same : TRUE]]
  /\ UNCHANGED <<vars, recs, last, offer>>

Firm(i, name) == Record("accounts", <<i, imp[i].at, "firm">>, name, None, None, None, {})

(* ... or a new one, before the row itself has been checked or written.    *)
OpenFirm(i) ==
  LET q == imp[i]
      firm == Firm(i, q.file[q.at].firm) IN
  /\ q.pc = "open"
  /\ recs' = recs \union {firm}
  /\ imp' = [imp EXCEPT ![i] =
       AfterFirm([q EXCEPT !.opened = @ \union {[name |-> firm.name, id |-> firm.id]}],
                 firm.id, TRUE)]
  /\ UNCHANGED <<vars, last, offer>>

(* importInteractions, the person spoken to: any contact of the name, at   *)
(* the firm if the row names one; his firm is the row's if it names none.  *)
FindPerson(i) ==
  LET q == imp[i]
      line == q.file[q.at]
      known == {x \in Named("contacts", line.person) :
                  q.of[q.at] # None => x.of = q.of[q.at]} IN
  /\ q.pc = "person"
  /\ \/ \E x \in known :
          /\ imp' = [imp EXCEPT ![i] =
               [q EXCEPT !.pc = "row", !.who = x.id,
                         !.of[q.at] = IF @ = None THEN x.of ELSE @]]
          /\ UNCHANGED recs
     \/ /\ known = {}
        /\ imp' = [imp EXCEPT ![i].pc = "add person"]
        /\ UNCHANGED recs
  /\ UNCHANGED <<vars, last, offer>>

AddPerson(i) ==
  LET q == imp[i]
      id == <<i, q.at, "person">> IN
  /\ q.pc = "add person"
  /\ recs' = recs \union {Record("contacts", id, q.file[q.at].person, None,
                                 q.of[q.at], None, {})}
  /\ imp' = [imp EXCEPT ![i].pc = "row", ![i].who = id]
  /\ UNCHANGED <<vars, last, offer>>
-----------------------------------------------------------------------------
(* What a record is looked up under when it has no tax number or e-mail.   *)
NameKey(kind, name, of, who) ==
  CASE kind \in {"accounts", "products"} -> name
    [] kind = "contacts" -> <<name, of>>
    [] kind = "interactions" -> <<name, IF of = None THEN who ELSE of>>

\* A contact without a firm cannot be told from a namesake.
HasKey(x) == x.kind # "contacts" \/ x.of # None

KeyOf(x) == NameKey(x.kind, x.name, x.of, x.who)

\* A map with one of the records under each key.
Maps(rows, Key(_)) ==
  {f \in [{Key(x) : x \in rows} -> rows] : \A k \in DOMAIN f : Key(f[k]) = k}

Code(x) == x.code

(* findMany, and the maps of the whole table.                              *)
Load(i) ==
  LET q == imp[i] IN
  /\ q.pc = "load"
  /\ \E byCode \in Maps({x \in Live(q.kind) : x.code # None}, Code),
        byName \in Maps({x \in Live(q.kind) : HasKey(x)}, KeyOf) :
       imp' = [imp EXCEPT ![i] = Onward([q EXCEPT !.byCode = byCode, !.byName = byName], 0)]
  /\ UNCHANGED <<vars, recs, last, offer>>

\* What a map has under a key.
At(f, k) == IF k \in DOMAIN f THEN {f[k]} ELSE {}

(* The record that stands for a row: a firm by its tax number if the row   *)
(* has one, by its name otherwise; a contact by its e-mail, or by name and *)
(* firm; a product by its name; an interaction by its firm or person, day  *)
(* and type.                                                               *)
FirmFound(q, line) ==
  IF line.code # None THEN At(q.byCode, line.code) ELSE At(q.byName, line.name)

ContactFound(q, line) ==
  IF line.code # None THEN At(q.byCode, line.code)
  ELSE IF q.of[q.at] = None THEN {}
  ELSE At(q.byName, NameKey("contacts", line.name, q.of[q.at], None))

ProductFound(q, line) == At(q.byName, line.name)

InteractionFound(q, line) ==
  At(q.byName, NameKey("interactions", line.name, q.of[q.at], q.who))

Match(q) ==
  LET line == q.file[q.at] IN
  CASE q.kind = "accounts"     -> FirmFound(q, line)
    [] q.kind = "contacts"     -> ContactFound(q, line)
    [] q.kind = "products"     -> ProductFound(q, line)
    [] q.kind = "interactions" -> InteractionFound(q, line)

Put(f, k, x) == [j \in DOMAIN f \union {k} |-> IF j = k THEN x ELSE f[j]]

(* Mutant of Columns. *)
ColumnsOver(old, copy, line) == IF line.keys = {} THEN old.keys ELSE line.keys

(* The unmapped columns: those of the row over those of the copy that the  *)
(* import has of the record.                                               *)
Columns(old, copy, line) == IF line.keys = {} THEN old.keys ELSE copy.keys \union line.keys

(* What an update writes: the mapped columns that the row fills.           *)
FirmWritten(old, copy, line) ==
  [old EXCEPT !.name = line.name, !.code = IF line.code = None THEN @ ELSE line.code,
              !.keys = Columns(old, copy, line)]

ContactWritten(old, copy, line, of) ==
  [old EXCEPT !.name = line.name, !.code = IF line.code = None THEN @ ELSE line.code,
              !.of = IF of = None THEN @ ELSE of, !.keys = Columns(old, copy, line)]

ProductWritten(old, copy, line) ==
  [old EXCEPT !.name = line.name, !.keys = Columns(old, copy, line)]

InteractionWritten(old, copy, line) == [old EXCEPT !.keys = Columns(old, copy, line)]

Written(q, old, copy) ==
  LET line == q.file[q.at] IN
  CASE q.kind = "accounts"     -> FirmWritten(old, copy, line)
    [] q.kind = "contacts"     -> ContactWritten(old, copy, line, q.of[q.at])
    [] q.kind = "products"     -> ProductWritten(old, copy, line)
    [] q.kind = "interactions" -> InteractionWritten(old, copy, line)

(* Mutant of Noted. *)
NotedNothing(q, x) == [q EXCEPT !.who = None]

(* The record goes back into the maps; keys it no longer has stay.         *)
Noted(q, x) ==
  [q EXCEPT !.byCode = IF x.code = None THEN @ ELSE Put(@, x.code, x),
            !.byName = IF HasKey(x) THEN Put(@, KeyOf(x), x) ELSE @,
            !.who = None]

(* A row of a firm, contact, product or interaction.  The update finds its *)
(* record by id, removed or not.                                           *)
WriteRow(i) ==
  LET q == imp[i]
      line == q.file[q.at] IN
  /\ q.pc = "row" /\ q.kind # "quotes"
  /\ \/ \E copy \in Match(q) : \E old \in {x \in recs : x.kind = q.kind /\ x.id = copy.id} :
          LET new == Written(q, old, copy) IN
          /\ recs' = (recs \ {old}) \union {new}
          /\ imp' = [imp EXCEPT ![i] =
               Onward([Noted(q, new) EXCEPT
                         !.changed = @ \union {q.at},
                         !.renamed = @ \/ KeyOf(new) # KeyOf(old)], q.at)]
     \/ /\ Match(q) = {}
        /\ LET new == Record(q.kind, <<i, q.at, "row">>, line.name, line.code,
                             q.of[q.at], q.who, line.keys) IN
           /\ recs' = recs \union {new}
           /\ imp' = [imp EXCEPT ![i] =
                Onward([Noted(q, new) EXCEPT !.made = @ \union {q.at}], q.at)]
  /\ UNCHANGED <<vars, last, offer>>

(* upsertQuote and its commit: the firm is opened if the read found none,  *)
(* and the quote inserted or updated.  A number that is taken after all    *)
(* (P2002: a removed quote has it, or a create has been faster) rolls the  *)
(* row back and is reported with it.                                       *)
WriteQuote(i) ==
  LET q == imp[i]
      line == q.file[q.at]
      taken == {d \in Rows("quote") : d.number = line.name}
      new == [table |-> "quote", number |-> line.name, key |-> NoKey, live |-> TRUE,
              whole |-> TRUE, by |-> i, attributes |-> line.keys]
      firms == IF q.of[q.at] = None THEN {Firm(i, line.firm)} ELSE {} IN
  /\ q.pc = "row" /\ q.kind = "quotes"
  /\ \/ /\ q.quote = None /\ taken = {}
        /\ docs' = docs \union {new}
        /\ recs' = recs \union firms
        /\ req' = [r \in Requests |->
             IF Open(r) /\ Table(req[r].kind) = "quote"
             THEN [req[r] EXCEPT !.rivals = @ \union {<<i, q.at>>}] ELSE req[r]]
        /\ imp' = [imp EXCEPT ![i] = Onward([q EXCEPT !.made = @ \union {q.at}], q.at)]
     \/ /\ q.quote = None /\ taken # {}
        /\ imp' = [imp EXCEPT ![i] = Onward([q EXCEPT !.errors = @ \union {q.at}], q.at)]
        /\ UNCHANGED <<docs, recs, req>>
     \/ /\ q.quote # None
        /\ docs' = {IF d \in taken
                    THEN [d EXCEPT !.attributes = q.quote.attributes \union line.keys]
                    ELSE d : d \in docs}
        /\ recs' = recs \union firms
        /\ imp' = [imp EXCEPT ![i] = Onward([q EXCEPT !.changed = @ \union {q.at}], q.at)]
        /\ UNCHANGED req
  /\ UNCHANGED <<last, offer>>

(* The lists in Redis are cleared and the answer counts the rows.          *)
Answer(i) ==
  LET q == imp[i] IN
  /\ q.pc = "clear"
  /\ imp' = [imp EXCEPT ![i].pc = "done"]
  /\ last' = IF q.alone /\ ~q.renamed THEN <<q.kind, q.file>> ELSE None
  /\ UNCHANGED <<vars, recs, offer>>

(* The server dies: what has been written row by row stays.                *)
Die(i) ==
  /\ MayCrash /\ Running(i)
  /\ imp' = [imp EXCEPT ![i].pc = "died"]
  /\ last' = None
  /\ UNCHANGED <<vars, recs, offer>>

(* A user removes a record: a soft delete.                                 *)
RemoveRecord(x) ==
  /\ MayRemove /\ offer.removes /\ x.live
  /\ recs' = (recs \ {x}) \union {[x EXCEPT !.live = FALSE]}
  /\ imp' = Disturbed /\ last' = None
  /\ UNCHANGED <<vars, offer>>
-----------------------------------------------------------------------------
ImportStep(i) == \/ FindFirm(i) \/ FindQuote(i) \/ OpenFirm(i) \/ FindPerson(i) \/ AddPerson(i)
                 \/ Load(i) \/ WriteRow(i) \/ WriteQuote(i) \/ Answer(i)

(* The creates and removals of numbered documents go on beside.            *)
CreateStep ==
  /\ Next
  /\ \A r \in Requests :
       req[r].pc = "idle" /\ req'[r].pc # "idle" =>
         r \in offer.creators /\ req'[r].kind \in offer.creates
  /\ imp' = Disturbed /\ last' = None
  /\ UNCHANGED <<recs, offer>>

ImportsNext ==
  \/ CreateStep
  \/ \E i \in Importers :
       \/ \E file \in offer.files : BeginImport(i, offer.kind, file)
       \/ ImportStep(i)
       \/ Die(i)
  \/ \E x \in recs : RemoveRecord(x)

ImportsSpec == ImportsInit /\ [][ImportsNext]_allVars
-----------------------------------------------------------------------------
(* Records of the rows that an import has made anew.                       *)
Made(i) == {x \in recs : \E n \in imp[i].made : x.id = <<i, n, "row">>}

(* What a record or a row is recognised by.                                *)
Sign(x) == IF x.code # None THEN <<"code", x.code>> ELSE <<"name", KeyOf(x)>>

FirmNamed(id, name) ==
  \E a \in recs : a.kind = "accounts" /\ a.id = id /\ a.name = name

\* The record, if any, that stands for a row.
Stands(kind, line) ==
  IF kind = "quotes"
  THEN \E d \in Rows("quote") : /\ d.live /\ d.number = line.name
                                /\ line.keys \subseteq d.attributes
  ELSE \E x \in Named(kind, line.name) :
         /\ line.code # None => x.code = line.code
         /\ line.firm # None => FirmNamed(x.of, line.firm)
         /\ line.keys \subseteq x.keys

\* Two firms or two contacts of one name: a row that names them may mean either.
Namesakes == \E x, y \in recs : /\ x.live /\ y.live /\ x # y
                                /\ x.kind = y.kind /\ x.name = y.name
                                /\ x.kind \in {"accounts", "contacts"}

(* When an import ends that ran alone, every row of its file stands in the *)
(* database, once, but for those it reports: the ones that do not pass the *)
(* checks, and quotes whose number a removed quote holds.  The same file,  *)
(* imported again, adds nothing to what is recognised.  (Renaming a record *)
(* leaves its old name in the maps and is excepted.)                       *)
LoneImportComplete ==
  [][\A i \in Importers :
       LET q == imp[i] IN
       q.pc = "clear" /\ imp'[i].pc = "done" /\ q.alone /\ ~q.renamed =>
         /\ q.made \union q.changed \union q.errors = DOMAIN q.file
         /\ \A n \in q.made \union q.changed : Stands(q.kind, q.file[n])
         /\ \A n \in q.errors :
              \/ ~q.file[n].ok
              \/ q.kind = "quotes" /\ \E d \in Rows("quote") :
                                       d.number = q.file[n].name /\ ~d.live
         /\ \A x, y \in Made(i) : HasKey(x) /\ x # y => Sign(x) # Sign(y)
         /\ q.again /\ ~Namesakes =>
              /\ q.kind = "quotes" => q.made = {}
              /\ \A x \in Made(i) : x.code = None /\ ~HasKey(x)]_allVars

(* An import adds to the unmapped columns of a record and drops none, also *)
(* when several rows are about one record, unless another request or a     *)
(* renaming has made the import's copies of the records stale.             *)
KeysKept ==
  [][\A i \in Importers :
       imp[i].pc = "row" /\ imp[i].alone /\ ~imp[i].renamed =>
         /\ \A x \in recs : \E y \in recs' :
              y.kind = x.kind /\ y.id = x.id /\ x.keys \subseteq y.keys
         /\ \A d \in docs : \E e \in docs' :
              e.table = d.table /\ e.number = d.number
                /\ d.attributes \subseteq e.attributes]_allVars
=============================================================================
