------------------------------ MODULE ListCache ------------------------------
(***************************************************************************)
(* The Redis copies of the list screens.  Every list endpoint looks its    *)
(* query up in Redis, on a miss runs its database queries and stores the   *)
(* answer; every writer commits to the database first and then scans for   *)
(* and deletes the keys of the lists it knows it changed.  No list has a   *)
(* time to live, except the aggregation queries on datasets (60 seconds).  *)
(*                                                                         *)
(* A row is abstracted to the version of the table it comes from, a list   *)
(* to the versions of the tables it shows.  A page of a list stands for    *)
(* one combination of query parameters, hashed into the key.               *)
(***************************************************************************)
EXTENDS Naturals, Sequences, FiniteSets

CONSTANTS
  Lists,      \* the lists of this instance, a subset of DOMAIN Shows
  Pages,      \* query parameters of a list
  Ops,        \* the writing operations of this instance
  Readers, Writers,
  MaxOpen,    \* how many requests and jobs are under way at once
  MayCrash    \* whether the process may die (or an audit write throw)

(***************************************************************************)
(* The tables each list shows: its own rows and what they are joined with. *)
(***************************************************************************)
AccountList     == {"account", "quote", "interaction"}   \* with both counts
ContactList     == {"contact", "account"}
OpportunityList == {"opportunity", "account"}
ProductList     == {"product", "stock"}
LowStockList    == {"product", "stock"}
QuoteList       == {"quote", "account", "contact", "opportunity", "project", "product"}
ProjectList     == {"project"}
SalesOrderList  == {"order", "account", "contact", "quote", "project", "product"}
PurchaseList    == {"purchase", "product", "quote", "project"}
CaseList        == {"case", "survey", "order", "quote", "account", "contact"}
InteractionList == {"interaction", "account", "contact", "opportunity"}
EventList       == {"event"}
ProfileCard     == {"tenant"}
QueryResult     == {"dataset", "rows"}

Shows == [accounts |-> AccountList, contacts |-> ContactList,
          opportunities |-> OpportunityList, products |-> ProductList,
          lowStock |-> LowStockList, quotes |-> QuoteList,
          projects |-> ProjectList, salesOrders |-> SalesOrderList,
          purchases |-> PurchaseList, cases |-> CaseList,
          interactions |-> InteractionList, events |-> EventList,
          profile |-> ProfileCard, query |-> QueryResult]

\* The tables a list is about, as against the ones it is joined with.
Own == [accounts |-> {"account"}, contacts |-> {"contact"},
        opportunities |-> {"opportunity"}, products |-> {"product", "stock"},
        lowStock |-> {"product", "stock"}, quotes |-> {"quote"},
        projects |-> {"project"}, salesOrders |-> {"order"},
        purchases |-> {"purchase"}, cases |-> {"case", "survey"},
        interactions |-> {"interaction"}, events |-> {"event"},
        profile |-> {"tenant"}, query |-> {"dataset"}]

(* Mutant of Expiring: query results stored without EX. *)
ExpiringNothing == {}

\* Lists stored with an expiry.
Expiring == {"query"}

Tables == UNION {Shows[l] : l \in DOMAIN Shows}

(***************************************************************************)
(* The writers: each stage commits to some tables and then clears some     *)
(* lists.  The clears of one stage are taken in any order.                 *)
(***************************************************************************)
Stage(tables, lists) == [commit |-> tables, clear |-> lists]

(* Mutant of MarkFeedback: the keys are deleted before the second statement. *)
MarkFeedbackClearsFirst == <<Stage({"case"}, {"cases"}), Stage({"survey"}, {})>>

SaveAccount           == <<Stage({"account"}, {"accounts"})>>
AddAccountWithContact == <<Stage({"account", "contact"}, {"accounts"})>>
SaveContact           == <<Stage({"contact"}, {"contacts"})>>
SaveOpportunity       == <<Stage({"opportunity"}, {"opportunities"})>>
SaveProduct           == <<Stage({"product"}, {"products", "lowStock"})>>
MoveStock             == <<Stage({"stock"}, {"products", "lowStock"})>>
CreateQuote           == <<Stage({"quote", "opportunity"}, {"quotes", "opportunities"})>>
SaveQuote             == <<Stage({"quote"}, {"quotes"})>>
ApproveQuote          == <<Stage({"quote", "stock", "order", "case"},
                                 {"quotes", "cases", "salesOrders", "products", "lowStock"})>>
SaveProject           == <<Stage({"project"}, {"projects"})>>
LinkQuotesToProject   == <<Stage({"project", "quote"}, {"projects"})>>
CreateSalesOrder      == <<Stage({"order"}, {"salesOrders"}), Stage({"case"}, {"cases"})>>
SaveSalesOrder        == <<Stage({"order"}, {"salesOrders"})>>
SavePurchase          == <<Stage({"purchase"}, {"purchases"})>>
MailSurvey            == <<Stage({"survey"}, {"cases"})>>
AnswerSurvey          == <<Stage({"survey", "case"}, {})>>
MarkFeedback          == <<Stage({"case"}, {}), Stage({"survey"}, {"cases"})>>
RemindOfCase          == <<Stage({"case"}, {"cases"})>>
LogInteraction        == <<Stage({"interaction", "account", "event", "opportunity"},
                                 {"accounts", "events", "opportunities", "interactions"})>>
SaveEvent             == <<Stage({"event"}, {"events"})>>
SaveCompany           == <<Stage({"tenant"}, {"profile"})>>
SaveColumns           == <<Stage({"dataset"}, {"query"})>>
ChangeReportedRows    == <<Stage({"rows"}, {})>>

\* The button of the settings screen: no write, every list it knows of.
ClearAll == <<Stage({}, {"accounts", "opportunities", "quotes", "projects", "purchases",
                         "cases", "interactions", "products", "lowStock", "events",
                         "profile"})>>

Program == [saveAccount |-> SaveAccount, addAccountWithContact |-> AddAccountWithContact,
            saveContact |-> SaveContact, saveOpportunity |-> SaveOpportunity,
            saveProduct |-> SaveProduct, moveStock |-> MoveStock,
            createQuote |-> CreateQuote, saveQuote |-> SaveQuote,
            approveQuote |-> ApproveQuote, saveProject |-> SaveProject,
            linkQuotesToProject |-> LinkQuotesToProject,
            createSalesOrder |-> CreateSalesOrder, saveSalesOrder |-> SaveSalesOrder,
            savePurchase |-> SavePurchase, mailSurvey |-> MailSurvey,
            answerSurvey |-> AnswerSurvey, markFeedback |-> MarkFeedback,
            remindOfCase |-> RemindOfCase, logInteraction |-> LogInteraction,
            saveEvent |-> SaveEvent, saveCompany |-> SaveCompany,
            saveColumns |-> SaveColumns, changeReportedRows |-> ChangeReportedRows,
            clearAll |-> ClearAll]

ASSUME CacheAssumption ==
  /\ Lists \subseteq DOMAIN Shows
  /\ Ops \subseteq DOMAIN Program
  /\ MaxOpen \in Nat \ {0}
  /\ MayCrash \in BOOLEAN

Keys == Lists \X Pages
ListOf(k) == k[1]
Zero == [t \in Tables |-> 0]
None == [held |-> FALSE, seen |-> Zero, at |-> Zero]   \* no value under a key
NoKey == <<>>
NoOp == "none"

VARIABLES
  version,   \* version of each table in the database
  cache,     \* value under each Redis key: versions shown, and versions at the time it was stored
  reader,    \* list requests
  writer     \* writing requests and jobs

vars == <<version, cache, reader, writer>>

Versions == [Tables -> Nat]
Entry == [held : BOOLEAN, seen : Versions, at : Versions]
ReaderState == [pc : {"new", "loading", "done"}, key : Keys \cup {NoKey},
                seen : Versions, todo : SUBSET Tables]
WriterState == [pc : {"new", "commit", "clear", "done", "dead"}, op : Ops \cup {NoOp},
                stage : Nat, left : SUBSET Keys]

TypeOK ==
  /\ version \in Versions
  /\ cache \in [Keys -> Entry]
  /\ reader \in [Readers -> ReaderState]
  /\ writer \in [Writers -> WriterState]
  /\ \A w \in Writers : writer[w].pc # "new" =>
        writer[w].op \in Ops /\ writer[w].stage \in 1..Len(Program[writer[w].op])

Init ==
  /\ version = Zero
  /\ cache = [k \in Keys |-> None]
  /\ reader = [r \in Readers |-> [pc |-> "new", key |-> NoKey,
                                  seen |-> Zero, todo |-> {}]]
  /\ writer = [w \in Writers |-> [pc |-> "new", op |-> NoOp, stage |-> 0, left |-> {}]]

Open == {r \in Readers : reader[r].pc = "loading"}
          \cup {w \in Writers : writer[w].pc \in {"commit", "clear"}}
Idle == Open = {}
Cached(k) == cache[k].held
MayBegin == Cardinality(Open) < MaxOpen

-----------------------------------------------------------------------------
\* A list request looks up its key: a hit is answered from Redis at once.
BeginRead(r, k) ==
  /\ reader[r].pc = "new" /\ MayBegin
  /\ reader' = [reader EXCEPT ![r] =
       [pc |-> IF Cached(k) THEN "done" ELSE "loading", key |-> k,
        seen |-> reader[r].seen, todo |-> Shows[ListOf(k)]]]
  /\ UNCHANGED <<version, cache, writer>>

\* The queries of a list are statements of their own, in no common transaction.
LoadRows(r, t) ==
  /\ reader[r].pc = "loading" /\ t \in reader[r].todo
  /\ reader' = [reader EXCEPT ![r] =
       [pc |-> "loading", key |-> reader[r].key,
        seen |-> [reader[r].seen EXCEPT ![t] = version[t]], todo |-> reader[r].todo \ {t}]]
  /\ UNCHANGED <<version, cache, writer>>

\* The answer is stored under the key whatever has happened meanwhile.
Store(r) ==
  /\ reader[r].pc = "loading" /\ reader[r].todo = {}
  /\ cache' = [cache EXCEPT ![reader[r].key] = [held |-> TRUE, seen |-> reader[r].seen, at |-> version]]
  /\ reader' = [reader EXCEPT ![r] = [pc |-> "done", key |-> reader[r].key,
                                      seen |-> reader[r].seen, todo |-> {}]]
  /\ UNCHANGED <<version, writer>>

-----------------------------------------------------------------------------
StageOf(w) == Program[writer[w].op][writer[w].stage]

BeginWrite(w, op) ==
  /\ writer[w].pc = "new" /\ MayBegin
  /\ writer' = [writer EXCEPT ![w] = [pc |-> "commit", op |-> op, stage |-> 1, left |-> {}]]
  /\ UNCHANGED <<version, cache, reader>>

Commit(w) ==
  /\ writer[w].pc = "commit"
  /\ version' = [t \in Tables |-> IF t \in StageOf(w).commit THEN version[t] + 1 ELSE version[t]]
  /\ writer' = [writer EXCEPT ![w] =
       [pc |-> "clear", op |-> writer[w].op, stage |-> writer[w].stage,
        left |-> {k \in Keys : ListOf(k) \in StageOf(w).clear}]]
  /\ UNCHANGED <<cache, reader>>

\* The scan passes a key once: a value stored behind the cursor survives it.
Drop(w, k) ==
  /\ writer[w].pc = "clear" /\ k \in writer[w].left
  /\ cache' = [cache EXCEPT ![k] = None]
  /\ writer' = [writer EXCEPT ![w] =
       [pc |-> "clear", op |-> writer[w].op, stage |-> writer[w].stage,
        left |-> writer[w].left \ {k}]]
  /\ UNCHANGED <<version, reader>>

EndStage(w) ==
  /\ writer[w].pc = "clear" /\ writer[w].left = {}
  /\ writer' = [writer EXCEPT ![w] =
       IF writer[w].stage < Len(Program[writer[w].op])
       THEN [pc |-> "commit", op |-> writer[w].op, stage |-> writer[w].stage + 1, left |-> {}]
       ELSE [pc |-> "done", op |-> writer[w].op, stage |-> writer[w].stage, left |-> {}]]
  /\ UNCHANGED <<version, cache, reader>>

-----------------------------------------------------------------------------
\* Redis drops a value stored with an expiry.
Expire(k) ==
  /\ ListOf(k) \in Expiring /\ Cached(k)
  /\ cache' = [cache EXCEPT ![k] = None]
  /\ UNCHANGED <<version, reader, writer>>

\* A request dies: what is committed and what is stored stays, the rest is not done.
CrashWriter(w) ==
  /\ MayCrash /\ writer[w].pc \in {"commit", "clear"}
  /\ writer' = [writer EXCEPT ![w] = [pc |-> "dead", op |-> writer[w].op,
                                      stage |-> writer[w].stage, left |-> {}]]
  /\ UNCHANGED <<version, cache, reader>>

CrashReader(r) ==
  /\ MayCrash /\ reader[r].pc = "loading"
  /\ reader' = [reader EXCEPT ![r] = [pc |-> "done", key |-> reader[r].key,
                                      seen |-> reader[r].seen, todo |-> {}]]
  /\ UNCHANGED <<version, cache, writer>>

ReadStep(r) == Store(r) \/ \E t \in Tables : LoadRows(r, t)
WriteStep(w) == Commit(w) \/ EndStage(w) \/ \E k \in Keys : Drop(w, k)

Next ==
  \/ \E r \in Readers : ReadStep(r) \/ CrashReader(r) \/ \E k \in Keys : BeginRead(r, k)
  \/ \E w \in Writers : WriteStep(w) \/ CrashWriter(w) \/ \E op \in Ops : BeginWrite(w, op)
  \/ \E k \in Keys : Expire(k)

\* A request that has begun goes on, and Redis expires what is due; nobody has to come.
Fairness ==
  /\ \A r \in Readers : WF_vars(ReadStep(r))
  /\ \A w \in Writers : WF_vars(WriteStep(w))
  /\ \A k \in Keys : WF_vars(Expire(k))

Spec == Init /\ [][Next]_vars /\ Fairness

-----------------------------------------------------------------------------
\* Every operation clears the lists about the tables it writes, at or after the stage that writes.
ClearsOwnLists(op) ==
  \A i \in 1..Len(Program[op]), l \in Lists :
    Program[op][i].commit \cap Own[l] # {} =>
      \E j \in i..Len(Program[op]) : l \in Program[op][j].clear

\* The operations that write rows of a list they do not clear.
Forgetful == {"addAccountWithContact", "linkQuotesToProject", "answerSurvey"}

Writes(op) == UNION {Program[op][i].commit : i \in 1..Len(Program[op])}

(***************************************************************************)
(* A list stored in Redis goes stale about its own rows only by being      *)
(* filled while a write was under way, or by the death of a writer of      *)
(* those rows: whatever is committed after a list was stored is followed   *)
(* by a deletion of its key, in whatever order the readers, the writers    *)
(* and their scans interleave.                                             *)
(***************************************************************************)
OnlyFillsGoStale ==
  Idle => \A k \in Keys : Cached(k) => \A t \in Own[ListOf(k)] :
            \/ cache[k].at[t] = version[t]
            \/ \E w \in Writers : writer[w].pc = "dead" /\ t \in Writes(writer[w].op)

(***************************************************************************)
(* A query result that no longer agrees with its dataset does not stay:    *)
(* the CRM writes beneath a report clear nothing, a fill may race a change *)
(* of the columns, a writer may die before its deletions; but the value    *)
(* expires.                                                                *)
(***************************************************************************)
Stale(k) == Cached(k) /\ \E t \in Shows[ListOf(k)] : cache[k].seen[t] # version[t]
QueryResultsAge == \A k \in Keys : ListOf(k) = "query" => (Stale(k) ~> ~Stale(k))
=============================================================================
