--------------------------- MODULE ListCacheProofs ---------------------------
(***************************************************************************)
(* Theorems about ListCache, for any number of requests, pages, lists and  *)
(* operations: the types, and that a stored list can only be stale about   *)
(* its own rows because of the fill that stored it.                        *)
(***************************************************************************)
EXTENDS ListCache, TLAPS

\* The table of operations: each has one or two stages.
LEMMA ProgramsAreShort == \A op \in DOMAIN Program : Len(Program[op]) \in 1..2
<1>1. \A x : Len(<<x>>) \in 1..2
  OBVIOUS
<1>2. \A x, y : Len(<<x, y>>) \in 1..2
  OBVIOUS
<1>3. /\ Len(SaveAccount) \in 1..2 /\ Len(AddAccountWithContact) \in 1..2
      /\ Len(SaveContact) \in 1..2 /\ Len(SaveOpportunity) \in 1..2
      /\ Len(SaveProduct) \in 1..2 /\ Len(MoveStock) \in 1..2
      /\ Len(CreateQuote) \in 1..2 /\ Len(SaveQuote) \in 1..2
      /\ Len(ApproveQuote) \in 1..2 /\ Len(SaveProject) \in 1..2
      /\ Len(LinkQuotesToProject) \in 1..2 /\ Len(CreateSalesOrder) \in 1..2
  BY <1>1, <1>2, Zenon
  DEF SaveAccount, AddAccountWithContact, SaveContact, SaveOpportunity, SaveProduct,
      MoveStock, CreateQuote, SaveQuote, ApproveQuote, SaveProject, LinkQuotesToProject,
      CreateSalesOrder
<1>4. /\ Len(SaveSalesOrder) \in 1..2 /\ Len(SavePurchase) \in 1..2
      /\ Len(MailSurvey) \in 1..2 /\ Len(AnswerSurvey) \in 1..2
      /\ Len(MarkFeedback) \in 1..2 /\ Len(RemindOfCase) \in 1..2
      /\ Len(LogInteraction) \in 1..2 /\ Len(SaveEvent) \in 1..2
      /\ Len(SaveCompany) \in 1..2 /\ Len(SaveColumns) \in 1..2
      /\ Len(ChangeReportedRows) \in 1..2 /\ Len(ClearAll) \in 1..2
  BY <1>1, <1>2, Zenon
  DEF SaveSalesOrder, SavePurchase, MailSurvey, AnswerSurvey, MarkFeedback, RemindOfCase,
      LogInteraction, SaveEvent, SaveCompany, SaveColumns, ChangeReportedRows, ClearAll
<1>5. QED
  BY <1>3, <1>4, SMT DEF Program

\* A list shows the tables it is about, among others.
LEMMA OwnTablesAreShown ==
  ASSUME NEW l \in Lists
  PROVE  Own[l] \subseteq Shows[l] /\ Shows[l] \subseteq Tables
  BY CacheAssumption
  DEF Own, Shows, Tables, AccountList, ContactList, OpportunityList, ProductList,
      LowStockList, QuoteList, ProjectList, SalesOrderList, PurchaseList, CaseList,
      InteractionList, EventList, ProfileCard, QueryResult, CacheAssumption

LEMMA ListsOfKeys ==
  ASSUME NEW k \in Keys
  PROVE  /\ ListOf(k) \in Lists
         /\ Shows[ListOf(k)] \subseteq Tables
         /\ Own[ListOf(k)] \subseteq Tables
<1>1. ListOf(k) \in Lists
  BY DEF Keys, ListOf
<1>2. QED
  BY <1>1, OwnTablesAreShown

(***************************************************************************)
(* The type invariant: versions only of tables, keys only of lists, and a  *)
(* writer at one of the stages of its operation.                           *)
(***************************************************************************)
THEOREM CacheTypes == Spec => []TypeOK
<1>1. Init => TypeOK
  BY DEF Init, TypeOK, Versions, Entry, ReaderState, WriterState, None, Zero, NoKey, NoOp
<1>2. TypeOK /\ [Next]_vars => TypeOK'
  <2> SUFFICES ASSUME TypeOK, [Next]_vars
               PROVE  TypeOK'
    OBVIOUS
  <2> USE DEF TypeOK, Versions, Entry
  <2>1. ASSUME NEW r \in Readers, NEW k \in Keys, BeginRead(r, k)
        PROVE  TypeOK'
    <3>1. Shows[ListOf(k)] \in SUBSET Tables
      BY ListsOfKeys
    <3>2. reader' \in [Readers -> ReaderState]
      BY <2>1, <3>1 DEF BeginRead, ReaderState
    <3>3. QED
      BY <2>1, <3>2 DEF BeginRead
  <2>2. ASSUME NEW r \in Readers, NEW t \in Tables, LoadRows(r, t)
        PROVE  TypeOK'
    <3>1. [reader[r].seen EXCEPT ![t] = version[t]] \in [Tables -> Nat]
      BY DEF ReaderState
    <3>2. reader' \in [Readers -> ReaderState]
      BY <2>2, <3>1 DEF LoadRows, ReaderState
    <3>3. QED
      BY <2>2, <3>2 DEF LoadRows
  <2>3. ASSUME NEW r \in Readers, Store(r)
        PROVE  TypeOK'
    <3>1. [held |-> TRUE, seen |-> reader[r].seen, at |-> version] \in Entry
      BY DEF ReaderState
    <3>2. cache' \in [Keys -> Entry]
      BY <2>3, <3>1 DEF Store
    <3>3. reader' \in [Readers -> ReaderState]
      BY <2>3 DEF Store, ReaderState
    <3>4. QED
      BY <2>3, <3>2, <3>3 DEF Store
  <2>4. ASSUME NEW r \in Readers, CrashReader(r)
        PROVE  TypeOK'
    BY <2>4 DEF CrashReader, ReaderState
  <2>5. ASSUME NEW w \in Writers, NEW op \in Ops, BeginWrite(w, op)
        PROVE  TypeOK'
    <3>1. 1 \in 1..Len(Program[op])
      <4>1. Len(Program[op]) \in 1..2
        BY ProgramsAreShort, CacheAssumption DEF CacheAssumption
      <4>2. \A n \in 1..2 : 1 \in 1..n
        OBVIOUS
      <4>3. QED
        BY <4>1, <4>2, Zenon
    <3>2. QED
      BY <2>5, <3>1 DEF BeginWrite, WriterState
  <2>6. ASSUME NEW w \in Writers, Commit(w)
        PROVE  TypeOK'
    <3>1. version' \in [Tables -> Nat]
      BY <2>6 DEF Commit
    <3>2. {k \in Keys : ListOf(k) \in StageOf(w).clear} \in SUBSET Keys
      OBVIOUS
    <3>3. writer' \in [Writers -> WriterState]
      BY <2>6, <3>2 DEF Commit, WriterState
    <3>4. QED
      BY <2>6, <3>1, <3>3 DEF Commit
  <2>7. ASSUME NEW w \in Writers, NEW k \in Keys, Drop(w, k)
        PROVE  TypeOK'
    <3>1. None \in Entry
      BY DEF None, Zero
    <3>2. cache' \in [Keys -> Entry]
      BY <2>7, <3>1 DEF Drop
    <3>3. writer' \in [Writers -> WriterState]
      BY <2>7 DEF Drop, WriterState
    <3>4. QED
      BY <2>7, <3>2, <3>3 DEF Drop
  <2>8. ASSUME NEW w \in Writers, EndStage(w)
        PROVE  TypeOK'
    <3>1. /\ writer[w].op \in Ops
          /\ writer[w].stage \in 1..Len(Program[writer[w].op])
          /\ Len(Program[writer[w].op]) \in 1..2
      BY <2>8, ProgramsAreShort, CacheAssumption DEF EndStage, CacheAssumption
    <3>2. CASE writer[w].stage < Len(Program[writer[w].op])
      <4>1. writer[w].stage + 1 \in 1..Len(Program[writer[w].op])
        BY <3>1, <3>2
      <4>2. QED
        BY <2>8, <3>1, <3>2, <4>1 DEF EndStage, WriterState
    <3>3. CASE ~(writer[w].stage < Len(Program[writer[w].op]))
      BY <2>8, <3>1, <3>3 DEF EndStage, WriterState
    <3>4. QED
      BY <3>2, <3>3
  <2>9. ASSUME NEW w \in Writers, CrashWriter(w)
        PROVE  TypeOK'
    BY <2>9 DEF CrashWriter, WriterState
  <2>10. ASSUME NEW k \in Keys, Expire(k)
         PROVE  TypeOK'
    <3>1. None \in Entry
      BY DEF None, Zero
    <3>2. QED
      BY <2>10, <3>1 DEF Expire
  <2>11. CASE UNCHANGED vars
    BY <2>11 DEF vars
  <2>12. QED
    BY <2>1, <2>2, <2>3, <2>4, <2>5, <2>6, <2>7, <2>8, <2>9, <2>10, <2>11
    DEF Next, ReadStep, WriteStep
<1>3. QED
  BY <1>1, <1>2, PTL DEF Spec

\* Writer w has the key k still to delete, in this stage or in a later one.
Pending(w, k) ==
  \/ writer[w].pc = "clear" /\ k \in writer[w].left
  \/ writer[w].pc = "commit" /\ ListOf(k) \in StageOf(w).clear
  \/ /\ writer[w].pc \in {"commit", "clear"}
     /\ \E j \in 1..Len(Program[writer[w].op]) :
          j > writer[w].stage /\ ListOf(k) \in Program[writer[w].op][j].clear

\* Writer w has changed t, or will, and is to delete k afterwards or has died.
Owes(w, k, t) ==
  (Pending(w, k) \/ writer[w].pc = "dead") /\ t \in Writes(writer[w].op)

(***************************************************************************)
(* The inductive invariant: of the tables a stored list is about, each     *)
(* stands as when the list was stored, or a writer of that table still has *)
(* the key to delete or has died.                                          *)
(***************************************************************************)
PurgePending ==
  \A k \in Keys : Cached(k) =>
    \A t \in Own[ListOf(k)] :
      cache[k].at[t] = version[t] \/ \E w \in Writers : Owes(w, k, t)

\* Which lists are about which table.
LEMMA ListsAboutTables ==
  ASSUME NEW l \in Lists
  PROVE  /\ "account" \in Own[l] => l = "accounts"
         /\ "contact" \in Own[l] => l = "contacts"
         /\ "opportunity" \in Own[l] => l = "opportunities"
         /\ "product" \in Own[l] => l \in {"products", "lowStock"}
         /\ "stock" \in Own[l] => l \in {"products", "lowStock"}
         /\ "quote" \in Own[l] => l = "quotes"
         /\ "project" \in Own[l] => l = "projects"
         /\ "order" \in Own[l] => l = "salesOrders"
         /\ "purchase" \in Own[l] => l = "purchases"
         /\ "case" \in Own[l] => l = "cases"
         /\ "survey" \in Own[l] => l = "cases"
         /\ "interaction" \in Own[l] => l = "interactions"
         /\ "event" \in Own[l] => l = "events"
         /\ "tenant" \in Own[l] => l = "profile"
         /\ "dataset" \in Own[l] => l = "query"
         /\ "rows" \notin Own[l]
  BY CacheAssumption DEF Own, Shows, CacheAssumption

\* One stage that clears every list about the tables it commits to.
LEMMA OneStageClears ==
  ASSUME NEW op \in DOMAIN Program, NEW E, NEW L, Program[op] = <<Stage(E, L)>>,
         \A l \in Lists : E \cap Own[l] # {} => l \in L
  PROVE  ClearsOwnLists(op)
  BY DEF ClearsOwnLists, Stage

\* The operations but three clear every list about the tables they write.
LEMMA OperationsClear ==
  ASSUME NEW op \in DOMAIN Program \ Forgetful
  PROVE  ClearsOwnLists(op)
<1> DEFINE Clears(E, L) == \A l \in Lists : E \cap Own[l] # {} => l \in L
<1>1. /\ Clears({"account"}, {"accounts"}) /\ Clears({"contact"}, {"contacts"})
      /\ Clears({"opportunity"}, {"opportunities"}) /\ Clears({"quote"}, {"quotes"})
      /\ Clears({"product"}, {"products", "lowStock"})
      /\ Clears({"stock"}, {"products", "lowStock"})
      /\ Clears({"project"}, {"projects"}) /\ Clears({"order"}, {"salesOrders"})
      /\ Clears({"purchase"}, {"purchases"}) /\ Clears({"survey"}, {"cases"})
      /\ Clears({"case"}, {"cases"}) /\ Clears({"event"}, {"events"})
      /\ Clears({"tenant"}, {"profile"}) /\ Clears({"dataset"}, {"query"})
      /\ Clears({"rows"}, {})
  BY ListsAboutTables
<1>2. Clears({"quote", "opportunity"}, {"quotes", "opportunities"})
  BY ListsAboutTables
<1>3. Clears({"quote", "stock", "order", "case"},
             {"quotes", "cases", "salesOrders", "products", "lowStock"})
  BY ListsAboutTables
<1>4. Clears({"interaction", "account", "event", "opportunity"},
             {"accounts", "events", "opportunities", "interactions"})
  BY ListsAboutTables
<1>5. CASE op \in {"saveAccount", "saveContact", "saveOpportunity", "saveProduct", "moveStock",
                   "saveQuote", "saveProject", "saveSalesOrder", "savePurchase", "mailSurvey"}
  BY <1>1, <1>5, OneStageClears
  DEF Program, SaveAccount, SaveContact, SaveOpportunity, SaveProduct, MoveStock, SaveQuote,
      SaveProject, SaveSalesOrder, SavePurchase, MailSurvey
<1>6. CASE op \in {"remindOfCase", "saveEvent", "saveCompany", "saveColumns",
                   "changeReportedRows", "createQuote", "approveQuote", "logInteraction"}
  BY <1>1, <1>2, <1>3, <1>4, <1>6, OneStageClears
  DEF Program, RemindOfCase, SaveEvent, SaveCompany, SaveColumns, ChangeReportedRows,
      CreateQuote, ApproveQuote, LogInteraction
<1>7. CASE op = "clearAll"
  <2>1. \A l \in Lists : {} \cap Own[l] = {}
    OBVIOUS
  <2>2. QED
    BY <1>7, <2>1, OneStageClears DEF Program, ClearAll
<1>8. CASE op = "createSalesOrder"
  BY <1>1, <1>8 DEF ClearsOwnLists, Program, CreateSalesOrder, Stage
<1>9. CASE op = "markFeedback"
  BY <1>1, <1>9 DEF ClearsOwnLists, Program, MarkFeedback, Stage
<1>10. QED
  BY <1>5, <1>6, <1>7, <1>8, <1>9 DEF Program, Forgetful

(***************************************************************************)
(* Whatever is committed after a list was stored is followed by the        *)
(* deletion of its key, or its writer has died: without the three          *)
(* operations that clear too little, a list goes stale about its own rows  *)
(* in no other way than by being filled during a write.                    *)
(***************************************************************************)
THEOREM StoredListsArePurged ==
  ASSUME Ops \cap Forgetful = {}
  PROVE  Spec => []OnlyFillsGoStale
<1>0. \A op \in Ops : ClearsOwnLists(op)
  BY OperationsClear, CacheAssumption DEF CacheAssumption
<1>1. Init => PurgePending
  BY DEF Init, PurgePending, Cached, None
<1>2. TypeOK /\ PurgePending /\ [Next]_vars => PurgePending'
  <2> SUFFICES ASSUME TypeOK, PurgePending, [Next]_vars,
                      NEW k \in Keys, Cached(k)', NEW t \in Own[ListOf(k)],
                      ~(cache[k].at[t] = version[t])'
               PROVE  \E w \in Writers : Owes(w, k, t)'
    BY DEF PurgePending
  <2>0. /\ cache[k] \in Entry /\ version \in Versions /\ t \in Tables
        /\ cache \in [Keys -> Entry] /\ writer \in [Writers -> WriterState]
        /\ ListOf(k) \in Lists
    BY ListsOfKeys DEF TypeOK
  <2>a. ASSUME cache[k]' = cache[k], version[t]' = version[t]
        PROVE  \E w \in Writers : Owes(w, k, t)
    BY <2>a DEF PurgePending, Cached
  <2>b. ASSUME NEW w \in Writers, Owes(w, k, t), writer'[w] = writer[w]
        PROVE  Owes(w, k, t)'
    BY <2>b DEF Owes, Pending, StageOf
  <2>1. ASSUME UNCHANGED <<version, cache, writer>>
        PROVE  \E w \in Writers : Owes(w, k, t)'
    <3>1. PICK w \in Writers : Owes(w, k, t)
      BY <2>1, <2>a
    <3>2. QED
      BY <2>1, <2>b, <3>1
  <2>2. ASSUME NEW r \in Readers, Store(r)
        PROVE  \E w \in Writers : Owes(w, k, t)'
    <3>1. k # reader[r].key
      BY <2>0, <2>2 DEF Store
    <3>2. cache'[k] = cache[k]
      BY <2>0, <2>2, <3>1 DEF Store
    <3>3. PICK w \in Writers : Owes(w, k, t)
      BY <2>2, <2>a, <3>2 DEF Store
    <3>4. QED
      BY <2>2, <2>b, <3>3 DEF Store
  <2>3. ASSUME NEW u \in Writers, NEW op \in Ops, BeginWrite(u, op)
        PROVE  \E w \in Writers : Owes(w, k, t)'
    <3>1. PICK w \in Writers : Owes(w, k, t)
      BY <2>3, <2>a DEF BeginWrite
    <3>2. w # u
      BY <2>3, <3>1 DEF BeginWrite, Owes, Pending
    <3>3. QED
      BY <2>0, <2>3, <2>b, <3>1, <3>2 DEF BeginWrite
  <2>4. ASSUME NEW u \in Writers, Commit(u)
        PROVE  \E w \in Writers : Owes(w, k, t)'
    <3>1. /\ writer[u].op \in Ops
          /\ writer[u].stage \in 1..Len(Program[writer[u].op])
          /\ Len(Program[writer[u].op]) \in 1..2
      BY <2>4, ProgramsAreShort, CacheAssumption DEF Commit, TypeOK, CacheAssumption
    <3>2. /\ writer'[u].pc = "clear" /\ writer'[u].op = writer[u].op
          /\ writer'[u].stage = writer[u].stage
          /\ writer'[u].left = {m \in Keys : ListOf(m) \in StageOf(u).clear}
      BY <2>0, <2>4 DEF Commit
    <3>3. CASE t \in StageOf(u).commit
      <4>0. t \in Writes(writer[u].op)
        BY <3>1, <3>3 DEF Writes, StageOf
      <4>1. PICK j \in writer[u].stage..Len(Program[writer[u].op]) :
              ListOf(k) \in Program[writer[u].op][j].clear
        BY <1>0, <2>0, <3>1, <3>3 DEF ClearsOwnLists, StageOf
      <4>2. CASE j = writer[u].stage
        BY <3>2, <4>0, <4>1, <4>2 DEF Owes, Pending, StageOf
      <4>3. CASE j # writer[u].stage
        <5>1. j \in 1..Len(Program[writer[u].op]) /\ j > writer[u].stage
          BY <3>1, <4>1, <4>3
        <5>2. QED
          BY <3>2, <4>0, <4>1, <5>1 DEF Owes, Pending
      <4>4. QED
        BY <4>2, <4>3
    <3>4. CASE t \notin StageOf(u).commit
      <4>1. PICK w \in Writers : Owes(w, k, t)
        BY <2>0, <2>4, <2>a, <3>4 DEF Commit
      <4>2. CASE w = u
        <5>1. writer[u].pc = "commit"
          BY <2>4 DEF Commit
        <5>2. QED
          BY <3>2, <4>1, <4>2, <5>1 DEF Owes, Pending
      <4>3. CASE w # u
        BY <2>0, <2>4, <2>b, <4>1, <4>3 DEF Commit
      <4>4. QED
        BY <4>2, <4>3
    <3>5. QED
      BY <3>3, <3>4
  <2>5. ASSUME NEW u \in Writers, NEW m \in Keys, Drop(u, m)
        PROVE  \E w \in Writers : Owes(w, k, t)'
    <3>1. k # m
      BY <2>0, <2>5 DEF Drop, Cached, None
    <3>2. PICK w \in Writers : Owes(w, k, t)
      BY <2>0, <2>5, <2>a, <3>1 DEF Drop
    <3>3. CASE w = u
      <4>1. /\ writer'[u].pc = "clear" /\ writer[u].pc = "clear"
            /\ writer'[u].op = writer[u].op /\ writer'[u].stage = writer[u].stage
            /\ writer'[u].left = writer[u].left \ {m}
        BY <2>0, <2>5 DEF Drop
      <4>2. QED
        BY <3>1, <3>2, <3>3, <4>1 DEF Owes, Pending
    <3>4. CASE w # u
      BY <2>0, <2>5, <2>b, <3>2, <3>4 DEF Drop
    <3>5. QED
      BY <3>3, <3>4
  <2>6. ASSUME NEW u \in Writers, EndStage(u)
        PROVE  \E w \in Writers : Owes(w, k, t)'
    <3>1. PICK w \in Writers : Owes(w, k, t)
      BY <2>6, <2>a DEF EndStage
    <3>2. CASE w = u
      <4>1. /\ writer[u].stage \in 1..Len(Program[writer[u].op])
            /\ Len(Program[writer[u].op]) \in 1..2
        BY <2>6, ProgramsAreShort, CacheAssumption DEF EndStage, TypeOK, CacheAssumption
      <4>0. t \in Writes(writer[u].op)
        BY <3>1, <3>2 DEF Owes
      <4>2. PICK j \in 1..Len(Program[writer[u].op]) :
              j > writer[u].stage /\ ListOf(k) \in Program[writer[u].op][j].clear
        BY <2>6, <3>1, <3>2 DEF EndStage, Owes, Pending
      <4>3. /\ writer'[u].pc = "commit" /\ writer'[u].op = writer[u].op
            /\ writer'[u].stage = writer[u].stage + 1
        BY <2>0, <2>6, <4>1, <4>2 DEF EndStage
      <4>4. j = writer[u].stage + 1 \/ j > writer[u].stage + 1
        BY <4>1, <4>2
      <4>5. QED
        BY <4>0, <4>2, <4>3, <4>4 DEF Owes, Pending, StageOf
    <3>3. CASE w # u
      BY <2>0, <2>6, <2>b, <3>1, <3>3 DEF EndStage
    <3>4. QED
      BY <3>2, <3>3
  <2>7. ASSUME NEW m \in Keys, Expire(m)
        PROVE  \E w \in Writers : Owes(w, k, t)'
    <3>1. k # m
      BY <2>0, <2>7 DEF Expire, Cached, None
    <3>2. PICK w \in Writers : Owes(w, k, t)
      BY <2>0, <2>7, <2>a, <3>1 DEF Expire
    <3>3. QED
      BY <2>7, <2>b, <3>2 DEF Expire
  <2>8. ASSUME NEW u \in Writers, CrashWriter(u)
        PROVE  \E w \in Writers : Owes(w, k, t)'
    <3>1. PICK w \in Writers : Owes(w, k, t)
      BY <2>8, <2>a DEF CrashWriter
    <3>2. CASE w = u
      <4>1. writer'[u].pc = "dead" /\ writer'[u].op = writer[u].op
        BY <2>0, <2>8 DEF CrashWriter
      <4>2. QED
        BY <3>1, <3>2, <4>1 DEF Owes
    <3>3. CASE w # u
      BY <2>0, <2>8, <2>b, <3>1, <3>3 DEF CrashWriter
    <3>4. QED
      BY <3>2, <3>3
  <2>9. QED
    BY <2>1, <2>2, <2>3, <2>4, <2>5, <2>6, <2>7, <2>8
    DEF Next, ReadStep, WriteStep, BeginRead, LoadRows, CrashReader, vars
<1>3. PurgePending => OnlyFillsGoStale
  BY DEF PurgePending, OnlyFillsGoStale, Owes, Pending, Idle, Open
<1>4. QED
  BY <1>1, <1>2, <1>3, CacheTypes, PTL DEF Spec
=============================================================================
