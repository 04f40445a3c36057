---------------------------- MODULE QuoteProofs -----------------------------
(***************************************************************************)
(* Theorems about QuoteLifecycle for any set of requests, any statuses     *)
(* they may ask for, and any number of them handled at a time.             *)
(***************************************************************************)
EXTENDS QuoteLifecycle, FiniteSetTheorems, TLAPS

AllLists == Requests \union {FirstItems}

Pcs == {"idle", "reading", "delete", "insert", "write", "record",
        "committed", "done", "refused", "failed"}

(* A request's record keeps its type through the updates the steps make.   *)
LEMMA Answered ==
  ASSUME NEW q \in Requested, NEW p \in Pcs
  PROVE  [q EXCEPT !.pc = p] \in Requested
  BY DEF Requested, Pcs, Answers

LEMMA Surveyed ==
  ASSUME NEW q \in Requested, NEW p \in Pcs, NEW b \in BOOLEAN
  PROVE  [q EXCEPT !.pc = p, !.survey = b] \in Requested
  BY DEF Requested, Pcs, Answers

LEMMA Took ==
  ASSUME NEW q \in Requested, NEW p \in Pcs, NEW t \in SUBSET AllLists
  PROVE  [q EXCEPT !.pc = p, !.taken = t] \in Requested
  BY DEF Requested, Pcs, Answers, AllLists

LEMMA Saw ==
  ASSUME NEW q \in Requested, NEW p \in Pcs, NEW t \in SUBSET AllLists
  PROVE  [q EXCEPT !.seenItems = t, !.pc = p] \in Requested
  BY DEF Requested, Pcs, Answers, AllLists

LEMMA Fresh ==
  ASSUME NEW p \in Pcs, NEW d \in Dtos \union {NoDto},
         NEW s \in Statuses, NEW n \in Nat
  PROVE  [Blank EXCEPT !.pc = p, !.dto = d, !.seen = s,
                       !.seenRevisions = n] \in Requested
  BY DEF Requested, Pcs, Answers, Blank

LEMMA ReqUpdate ==
  ASSUME req \in [Requests -> Requested], NEW r \in Requests,
         NEW q \in Requested, req' = [req EXCEPT ![r] = q]
  PROVE  req' \in [Requests -> Requested]
  OBVIOUS

LEMMA Appended ==
  ASSUME NEW S, NEW s \in Seq(S), NEW e \in S
  PROVE  Append(s, e) \in Seq(S)
  OBVIOUS

LEMMA SellType ==
  ASSUME TypeOK, NEW l \in SUBSET AllLists
  PROVE  Sell(l) \in Seq(SUBSET AllLists)
  BY Appended DEF Sell, TypeOK, AllLists

LEMMA InitTypes == Init => TypeOK
  <1> SUFFICES ASSUME Init PROVE TypeOK
    OBVIOUS
  <1>1. status \in Statuses /\ "DRAFT" \in Statuses
    BY QuoteAssumption DEF Init, Statuses
  <1>2. history \in Seq(Statuses)
    BY <1>1 DEF Init
  <1>3. Blank \in Requested
    BY <1>1 DEF Blank, Requested, Answers
  <1>4. sold \in Seq(SUBSET AllLists)
    BY DEF Init
  <1> QED BY <1>1, <1>2, <1>3, <1>4 DEF Init, TypeOK, AllLists

LEMMA WantedType ==
  ASSUME TypeOK, NEW r \in Requests, req[r].dto \in Dtos
  PROVE  Wanted(req[r]) \in Statuses
  <1>1. req[r].seen \in Statuses
    BY DEF TypeOK, Requested
  <1>2. req[r].dto.to \in Targets \union {Keep}
    BY DEF Dtos
  <1> QED BY <1>1, <1>2, QuoteAssumption DEF Wanted

LEMMA StepTypes == TypeOK /\ [Next]_vars => TypeOK'
  <1> SUFFICES ASSUME TypeOK, [Next]_vars PROVE TypeOK'
    OBVIOUS
  <1>1. ASSUME NEW r \in Requests, NEW dto \in Dtos, ReadQuote(r, dto)
        PROVE  TypeOK'
    <2>1. req' \in [Requests -> Requested]
      BY <1>1, Fresh, ReqUpdate DEF ReadQuote, TypeOK, Pcs
    <2> QED BY <1>1, <2>1 DEF ReadQuote, TypeOK, quote
  <1>2. ASSUME NEW r \in Requests, ReadItems(r)
        PROVE  TypeOK'
    <2>1. req' \in [Requests -> Requested]
      BY <1>2, Saw, ReqUpdate DEF ReadItems, TypeOK, Pcs, AllLists
    <2> QED BY <1>2, <2>1 DEF ReadItems, TypeOK, quote
  <1>3. ASSUME NEW r \in Requests, FindItems(r)
        PROVE  TypeOK'
    <2>1. req' \in [Requests -> Requested]
      BY <1>3, Took, ReqUpdate DEF FindItems, TypeOK, Pcs, AllLists
    <2> QED BY <1>3, <2>1 DEF FindItems, TypeOK, quote
  <1>4. ASSUME NEW r \in Requests, ReplaceItems(r)
        PROVE  TypeOK'
    <2>1. req' \in [Requests -> Requested]
      <3>1. req' = [req EXCEPT ![r] =
                      [req[r] EXCEPT !.pc = "write",
                                     !.taken = req[r].taken \intersect items]]
        BY <1>4 DEF ReplaceItems
      <3> QED BY <3>1, Took, ReqUpdate DEF TypeOK, Pcs, AllLists
    <2> QED BY <1>4, <2>1 DEF ReplaceItems, TypeOK, quote
  <1>5. ASSUME NEW r \in Requests, WriteUpdate(r)
        PROVE  TypeOK'
    <2>1. req[r].dto \in Dtos
      BY <1>5 DEF WriteUpdate, TypeOK, Requested, NoDto
    <2>2. Wanted(req[r]) \in Statuses /\ "REVIZE" \in Statuses
      BY <2>1, WantedType DEF Statuses
    <2>3. status' \in Statuses /\ history' \in Seq(Statuses)
      BY <1>5, <2>2 DEF WriteUpdate, TypeOK
    <2>4. revisionCount' \in Nat
      BY <1>5 DEF WriteUpdate, TypeOK, Requested
    <2>5. items' \subseteq AllLists
      BY <1>5 DEF WriteUpdate, TypeOK, AllLists
    <2>6. sold \in Seq(SUBSET AllLists) /\ order \in BOOLEAN
      BY DEF TypeOK, AllLists
    <2>8. sold' \in Seq(SUBSET AllLists) /\ order' \in BOOLEAN
      <3>1. req[r].seenItems \in SUBSET AllLists
        BY DEF TypeOK, Requested, AllLists
      <3>2. Sell(req[r].seenItems) \in Seq(SUBSET AllLists)
        BY <3>1, SellType
      <3> QED BY <1>5, <2>6, <3>2 DEF WriteUpdate
    <2>7. req' \in [Requests -> Requested]
      BY <1>5, Surveyed, ReqUpdate DEF WriteUpdate, TypeOK, Pcs
    <2> QED BY <1>5, <2>3, <2>4, <2>5, <2>7, <2>8
            DEF WriteUpdate, TypeOK, AllLists
  <1>6. ASSUME NEW r \in Requests, WriteApproval(r)
        PROVE  TypeOK'
    <2>1. req[r].seenItems \in SUBSET AllLists
      BY DEF TypeOK, Requested, AllLists
    <2>2. sold' \in Seq(SUBSET AllLists)
      BY <1>6, <2>1, SellType DEF WriteApproval
    <2>3. req' \in [Requests -> Requested]
      BY <1>6, Surveyed, ReqUpdate DEF WriteApproval, TypeOK, Pcs
    <2> QED BY <1>6, <2>2, <2>3
            DEF WriteApproval, TypeOK, Statuses, AllLists
  <1>7. ASSUME NEW r \in Requests, RejectStatus(r) \/ RejectHistory(r)
        PROVE  TypeOK'
    <2>1. req' \in [Requests -> Requested]
      BY <1>7, Answered, ReqUpdate
      DEF RejectStatus, RejectHistory, TypeOK, Pcs
    <2>2. "REJECTED" \in Statuses
      BY DEF Statuses
    <2>3. status' \in Statuses /\ history' \in Seq(Statuses)
      <3>1. /\ history \in Seq(Statuses) /\ status \in Statuses
            /\ Append(history, "REJECTED") \in Seq(Statuses)
        BY <2>2, Appended DEF TypeOK
      <3> QED BY <1>7, <2>2, <3>1 DEF RejectStatus, RejectHistory
    <2>4. UNCHANGED <<deleted, revisionCount, items, sold, order, surveys,
                      notices>>
      BY <1>7 DEF RejectStatus, RejectHistory
    <2> QED BY <2>1, <2>3, <2>4 DEF TypeOK
  <1>8. ASSUME NEW r \in Requests, Remove(r)
        PROVE  TypeOK'
    <2>1. req' \in [Requests -> Requested]
      BY <1>8, Answered, ReqUpdate DEF Remove, TypeOK, Pcs
    <2> QED BY <1>8, <2>1 DEF Remove, TypeOK
  <1>9. ASSUME NEW r \in Requests, Afterwards(r)
        PROVE  TypeOK'
    <2>1. req' \in [Requests -> Requested]
      BY <1>9, Answered, ReqUpdate DEF Afterwards, TypeOK, Pcs
    <2> QED BY <1>9, <2>1 DEF Afterwards, TypeOK, quote
  <1>10. ASSUME NEW r \in Requests, Rollback(r) \/ Crash(r)
         PROVE  TypeOK'
    <2>0. /\ [req[r] EXCEPT !.pc = "failed"] \in Requested
          /\ [req[r] EXCEPT !.pc = "failed", !.taken = {}] \in Requested
      BY Answered, Took DEF TypeOK, Pcs
    <2>1. req' \in [Requests -> Requested]
      <3>1. CASE Rollback(r)
        BY <2>0, <3>1, ReqUpdate DEF Rollback, TypeOK
      <3>2. CASE Crash(r)
        BY <2>0, <3>2, ReqUpdate DEF Crash, TypeOK
      <3> QED BY <1>10, <3>1, <3>2
    <2> QED BY <1>10, <2>1 DEF Rollback, Crash, TypeOK, quote
  <1>11. CASE UNCHANGED vars
    BY <1>11 DEF TypeOK, vars, quote
  <1> QED BY <1>1, <1>2, <1>3, <1>4, <1>5, <1>6, <1>7, <1>8, <1>9, <1>10,
             <1>11 DEF Next, Proceed

(* The variables keep their types, in particular every status the quote    *)
(* and its history ever carry is one of QuoteStatus.                       *)
THEOREM QuoteTypes == Spec => []TypeOK
  BY InitTypes, StepTypes, PTL DEF Spec

-----------------------------------------------------------------------------
(* The invariant behind the sale: what approve and the status menu write   *)
(* under the row's lock changes the stock, the order and the status        *)
(* together, and an item list only becomes visible with its request's      *)
(* commit.                                                                 *)
QuoteInv == TypeOK /\ OneSale /\ ItemsAreCommitted /\ StatusRecorded

LEMMA SellOnce ==
  ASSUME TypeOK, SoldAtMostOnce, NEW l \in SUBSET AllLists
  PROVE  Len(Sell(l)) <= 1 /\ Sell(l) # << >>
  <1>1. CASE sold = << >>
    <2>1. Append(sold, l) # << >> /\ Len(Append(sold, l)) = Len(sold) + 1
      BY DEF TypeOK, AllLists
    <2> QED BY <1>1, <2>1 DEF Sell
  <1>2. CASE sold # << >>
    BY <1>2 DEF Sell, SoldAtMostOnce
  <1> QED BY <1>1, <1>2

LEMMA SaleStep == QuoteInv /\ [Next]_vars => OneSale'
  <1> SUFFICES ASSUME QuoteInv, [Next]_vars PROVE OneSale'
    OBVIOUS
  <1>1. CASE UNCHANGED <<status, sold, order>>
    BY <1>1 DEF QuoteInv, OneSale, SoldAtMostOnce, OrderMeansSold
  <1>2. ASSUME NEW r \in Requests, WriteUpdate(r)
        PROVE  OneSale'
    <2>1. req[r].seenItems \in SUBSET AllLists
      BY DEF QuoteInv, TypeOK, Requested, AllLists
    <2>2. Len(Sell(req[r].seenItems)) <= 1 /\ Sell(req[r].seenItems) # << >>
      BY <2>1, SellOnce DEF QuoteInv, OneSale
    <2>3. order \in BOOLEAN
      BY DEF QuoteInv, TypeOK
    <2> DEFINE approves == /\ Wanted(req[r]) # req[r].seen
                           /\ Wanted(req[r]) = "APPROVED"
    <2>4. CASE approves
      BY <1>2, <2>2, <2>4 DEF WriteUpdate, OneSale, SoldAtMostOnce,
                              OrderMeansSold
    <2>5. CASE ~approves
      <3>1. sold' = sold /\ (order' <=> order)
        BY <1>2, <2>5 DEF WriteUpdate
      <3>2. status' = "APPROVED" => status = "APPROVED"
        BY <1>2, <2>5 DEF WriteUpdate
      <3> QED BY <3>1, <3>2
              DEF QuoteInv, OneSale, SoldAtMostOnce, OrderMeansSold
    <2> QED BY <2>4, <2>5
  <1>3. ASSUME NEW r \in Requests, WriteApproval(r)
        PROVE  OneSale'
    <2>1. req[r].seenItems \in SUBSET AllLists
      BY DEF QuoteInv, TypeOK, Requested, AllLists
    <2>2. Len(Sell(req[r].seenItems)) <= 1 /\ Sell(req[r].seenItems) # << >>
      BY <2>1, SellOnce DEF QuoteInv, OneSale
    <2> QED BY <1>3, <2>2 DEF WriteApproval, OneSale, SoldAtMostOnce,
                              OrderMeansSold
  <1>4. ASSUME NEW r \in Requests, RejectStatus(r)
        PROVE  OneSale'
    BY <1>4 DEF RejectStatus, QuoteInv, OneSale, SoldAtMostOnce,
                OrderMeansSold
  <1> QED BY <1>1, <1>2, <1>3, <1>4
          DEF Next, Proceed, ReadQuote, ReadItems, FindItems, ReplaceItems,
              RejectHistory, Remove, Afterwards, Rollback, Crash, quote, vars

LEMMA ItemsStep == QuoteInv /\ [Next]_vars => ItemsAreCommitted'
  <1> SUFFICES ASSUME QuoteInv, [Next]_vars PROVE ItemsAreCommitted'
    OBVIOUS
  <1> DEFINE Visible(q) == /\ q.dto.items
                           /\ q.pc \in {"committed"} \union Answers
  <1>0. /\ req \in [Requests -> Requested] /\ req' \in [Requests -> Requested]
        /\ items \subseteq AllLists /\ items # {}
        /\ \A r \in items \ {FirstItems} : Visible(req[r])
    BY StepTypes DEF QuoteInv, TypeOK, AllLists, ItemsAreCommitted
  <1>1. ASSUME NEW r \in Requests, WriteUpdate(r)
        PROVE  ItemsAreCommitted'
    <2>1. /\ req'[r].pc = "committed" /\ req'[r].dto = req[r].dto
          /\ \A o \in Requests \ {r} : req'[o] = req[o]
      BY <1>0, <1>1 DEF WriteUpdate, Requested
    <2>2. CASE req[r].dto.items
      <3>1. items' = (items \ req[r].taken) \union {r}
        BY <1>1, <2>2 DEF WriteUpdate
      <3> QED BY <1>0, <2>1, <2>2, <3>1 DEF ItemsAreCommitted, AllLists
    <2>3. CASE ~req[r].dto.items
      <3>1. items' = items
        BY <1>1, <2>3 DEF WriteUpdate
      <3> QED BY <1>0, <2>1, <3>1 DEF ItemsAreCommitted, AllLists
    <2> QED BY <2>2, <2>3
  <1>2. ASSUME NEW r \in Requests, items' = items,
               \A o \in Requests \ {r} : req'[o] = req[o],
               Visible(req[r]) => Visible(req'[r])
        PROVE  ItemsAreCommitted'
    BY <1>0, <1>2 DEF ItemsAreCommitted, AllLists
  <1>3. ASSUME NEW r \in Requests, NEW dto \in Dtos, ReadQuote(r, dto)
        PROVE  ItemsAreCommitted'
    BY <1>0, <1>2, <1>3 DEF ReadQuote, quote, Answers
  <1>4. ASSUME NEW r \in Requests,
               ReadItems(r) \/ FindItems(r) \/ ReplaceItems(r)
                 \/ WriteApproval(r) \/ RejectStatus(r)
                 \/ RejectHistory(r) \/ Remove(r)
        PROVE  ItemsAreCommitted'
    <2>1. /\ items' = items
          /\ \A o \in Requests \ {r} : req'[o] = req[o]
          /\ ~Visible(req[r])
      BY <1>0, <1>4 DEF ReadItems, FindItems, ReplaceItems, WriteApproval,
         RejectStatus, RejectHistory, Remove, quote, Answers
    <2> QED BY <1>2, <2>1
  <1>5. ASSUME NEW r \in Requests, Afterwards(r) \/ Rollback(r) \/ Crash(r)
        PROVE  ItemsAreCommitted'
    <2>1. /\ items' = items
          /\ \A o \in Requests \ {r} : req'[o] = req[o]
          /\ req'[r].dto = req[r].dto /\ req'[r].pc \in Answers
      BY <1>0, <1>5 DEF Afterwards, Rollback, Crash, quote, Answers, Requested
    <2> QED BY <1>2, <2>1
  <1>6. CASE UNCHANGED vars
    BY <1>0, <1>6 DEF vars, quote, ItemsAreCommitted, AllLists
  <1> QED BY <1>1, <1>3, <1>4, <1>5, <1>6 DEF Next, Proceed

LEMMA RecordedLater ==
  ASSUME NEW h \in Seq(Statuses), NEW s \in Statuses, NEW e \in Statuses,
         \E i \in 1 .. Len(h) : h[i] = s
  PROVE  \E i \in 1 .. Len(Append(h, e)) : Append(h, e)[i] = s
  <1>1. PICK i \in 1 .. Len(h) : h[i] = s
    OBVIOUS
  <1>2. Len(Append(h, e)) = Len(h) + 1 /\ Append(h, e)[i] = h[i]
    BY <1>1
  <1> QED BY <1>1, <1>2

LEMMA RecordedNow ==
  ASSUME NEW h \in Seq(Statuses), NEW e \in Statuses
  PROVE  \E i \in 1 .. Len(Append(h, e)) : Append(h, e)[i] = e
  <1>1. /\ Len(Append(h, e)) = Len(h) + 1
        /\ Append(h, e)[Len(h) + 1] = e
    OBVIOUS
  <1> QED BY <1>1

LEMMA HistoryStep == QuoteInv /\ [Next]_vars => StatusRecorded'
  <1> SUFFICES ASSUME QuoteInv, [Next]_vars PROVE StatusRecorded'
    OBVIOUS
  <1>0. /\ history \in Seq(Statuses) /\ status \in Statuses
        /\ {"APPROVED", "REJECTED", "REVIZE"} \subseteq Statuses
    BY DEF QuoteInv, TypeOK, Statuses
  <1>1. CASE UNCHANGED <<status, history>>
    BY <1>1 DEF QuoteInv, StatusRecorded
  <1>2. ASSUME NEW e \in Statuses, history' = Append(history, e),
               status' \in {status, e}
        PROVE  StatusRecorded'
    <2>1. CASE status' = e
      <3>1. \E i \in 1 .. Len(history') : history'[i] = e
        BY <1>0, <1>2, RecordedNow
      <3> QED BY <2>1, <3>1 DEF StatusRecorded
    <2>2. CASE status' = status /\ status = "REJECTED"
      BY <2>2 DEF StatusRecorded
    <2>3. CASE status' = status /\ status # "REJECTED"
      <3>1. \E i \in 1 .. Len(history) : history[i] = status
        BY <2>3 DEF QuoteInv, StatusRecorded
      <3>2. \E i \in 1 .. Len(history') : history'[i] = status
        BY <1>0, <1>2, <3>1, RecordedLater
      <3> QED BY <2>3, <3>2 DEF StatusRecorded
    <2> QED BY <1>2, <2>1, <2>2, <2>3
  <1>3. ASSUME NEW r \in Requests, WriteUpdate(r)
        PROVE  StatusRecorded'
    <2>1. req[r].dto \in Dtos
      BY <1>3 DEF WriteUpdate, QuoteInv, TypeOK, Requested, NoDto
    <2>2. Wanted(req[r]) \in Statuses
      BY <2>1, WantedType DEF QuoteInv
    <2>3. CASE Wanted(req[r]) # req[r].seen
      BY <1>2, <1>3, <2>2, <2>3 DEF WriteUpdate
    <2>4. CASE Wanted(req[r]) = req[r].seen /\ IsRevisionSave(req[r])
      BY <1>0, <1>2, <1>3, <2>4 DEF WriteUpdate
    <2>5. CASE Wanted(req[r]) = req[r].seen /\ ~IsRevisionSave(req[r])
      BY <1>1, <1>3, <2>5 DEF WriteUpdate
    <2> QED BY <2>3, <2>4, <2>5
  <1>4. ASSUME NEW r \in Requests, WriteApproval(r)
        PROVE  StatusRecorded'
    BY <1>0, <1>2, <1>4 DEF WriteApproval
  <1>5. ASSUME NEW r \in Requests, RejectStatus(r)
        PROVE  StatusRecorded'
    BY <1>5 DEF RejectStatus, StatusRecorded
  <1>6. ASSUME NEW r \in Requests, RejectHistory(r)
        PROVE  StatusRecorded'
    BY <1>0, <1>2, <1>6 DEF RejectHistory
  <1> QED BY <1>1, <1>3, <1>4, <1>5, <1>6
          DEF Next, Proceed, ReadQuote, ReadItems, FindItems, ReplaceItems,
              Remove, Afterwards, Rollback, Crash, quote, vars

LEMMA InitQuoteInv == Init => QuoteInv
  <1> SUFFICES ASSUME Init PROVE QuoteInv
    OBVIOUS
  <1>1. OneSale
    BY QuoteAssumption DEF Init, OneSale, SoldAtMostOnce, OrderMeansSold,
                           Settled
  <1>2. ItemsAreCommitted
    BY DEF Init, ItemsAreCommitted
  <1>3. StatusRecorded
    <2>1. CASE status \in {"DRAFT", "UNSPECIFIED"}
      <3>1. history = <<status>> /\ 1 \in 1 .. Len(history) /\ history[1] = status
        BY <2>1 DEF Init
      <3> QED BY <3>1 DEF StatusRecorded
    <2>2. CASE status \notin {"DRAFT", "UNSPECIFIED"}
      <3>1. /\ history = <<"DRAFT", status>>
            /\ 2 \in 1 .. Len(history) /\ history[2] = status
        BY <2>2 DEF Init
      <3> QED BY <3>1 DEF StatusRecorded
    <2> QED BY <2>1, <2>2
  <1> QED BY <1>1, <1>2, <1>3, InitTypes DEF QuoteInv

THEOREM QuoteInvariant == Spec => []QuoteInv
  <1>1. QuoteInv /\ [Next]_vars => QuoteInv'
    BY StepTypes, SaleStep, ItemsStep, HistoryStep DEF QuoteInv
  <1> QED BY InitQuoteInv, <1>1, PTL DEF Spec

(* However many approvals race past the status check, the quote's items    *)
(* leave the stock once (ensureStockDecreaseForQuote), and the quote has a *)
(* sales order exactly when they did; an approved quote has one (approve,  *)
(* update, ensureSalesOrder).                                              *)
THEOREM QuoteSellsOnce == Spec => []OneSale
  BY QuoteInvariant, PTL DEF QuoteInv

(* Concurrent updates never leave a quote without items, nor with items of *)
(* an update that was rolled back.                                         *)
THEOREM QuoteItemsCommitted == Spec => []ItemsAreCommitted
  BY QuoteInvariant, PTL DEF QuoteInv

(* Only a rejection can be missing from the history of the quote.          *)
THEOREM QuoteStatusRecorded == Spec => []StatusRecorded
  BY QuoteInvariant, PTL DEF QuoteInv

-----------------------------------------------------------------------------
(* One request at a time: nothing changes between what a request has read  *)
(* and what it writes, so the endpoints implement the workflow.            *)
Current(r) ==
  /\ req[r].pc \in {"reading", "delete", "insert", "write"} =>
       req[r].seen = status
  /\ req[r].pc \in {"delete", "insert", "write"} =>
       req[r].seenItems = items /\ Allowed(req[r])
  /\ req[r].pc \in {"insert", "write"} /\ req[r].dto.items =>
       req[r].taken = items

OneAtATime ==
  /\ \A r, o \in Requests : Open(r) /\ Open(o) => r = o
  /\ \A r \in Requests : Current(r)

OpenUnsold == status \notin Settled => sold = << >> /\ ~order

SeqInv == TypeOK /\ OneAtATime /\ OpenUnsold

(* What a step of r leaves alone: the other requests.                      *)
LEMMA OthersStay ==
  ASSUME TypeOK, NEW r \in Requests,
         (\E dto \in Dtos : ReadQuote(r, dto)) \/ Proceed(r) \/ Rollback(r)
           \/ Crash(r)
  PROVE  \A o \in Requests \ {r} : req'[o] = req[o]
  BY DEF Proceed, ReadQuote, ReadItems, FindItems, ReplaceItems, WriteUpdate,
     WriteApproval, RejectStatus, RejectHistory, Remove, Afterwards, Rollback,
     Crash, TypeOK

LEMMA NoneOpen ==
  ASSUME MaxOpen = 1, NEW r \in Requests, NEW dto \in Dtos, ReadQuote(r, dto)
  PROVE  \A o \in Requests : ~Open(o)
  <1> DEFINE S == {o \in Requests : Open(o)}
  <1>1. IsFiniteSet(S)
    BY QuoteAssumption, FS_Subset
  <1>2. Cardinality(S) \in Nat /\ Cardinality(S) < 1
    BY <1>1, FS_CardinalityType DEF ReadQuote
  <1>3. S = {}
    BY <1>1, <1>2, FS_EmptySet
  <1> QED BY <1>3

LEMMA OneAtATimeStep ==
  ASSUME MaxOpen = 1, SeqInv, [Next]_vars
  PROVE  OneAtATime'
  <1>0. /\ req \in [Requests -> Requested] /\ req' \in [Requests -> Requested]
    BY StepTypes DEF SeqInv, TypeOK
  (* The step of an open request, or of one that finds none open.          *)
  <1>1. ASSUME NEW r \in Requests,
               \A o \in Requests \ {r} : ~Open(o) /\ req'[o] = req[o],
               Current(r)'
        PROVE  OneAtATime'
    <2>1. \A o \in Requests \ {r} : ~Open(o)'
      BY <1>1 DEF Open
    <2>2. \A o \in Requests \ {r} : Current(o)'
      BY <1>1, <2>1 DEF Current, Open, Answers
    <2> QED BY <1>1, <2>1, <2>2 DEF OneAtATime
  <1>2. ASSUME NEW r \in Requests, NEW dto \in Dtos, ReadQuote(r, dto)
        PROVE  OneAtATime'
    <2>1. \A o \in Requests : ~Open(o)
      BY <1>2, NoneOpen
    <2>2. \A o \in Requests \ {r} : req'[o] = req[o]
      BY <1>2, OthersStay DEF SeqInv
    <2>3. /\ req'[r].pc \in {"refused", "reading"} /\ req'[r].seen = status
          /\ status' = status
      BY <1>0, <1>2 DEF ReadQuote, Blank, quote
    <2>4. Current(r)'
      BY <2>3 DEF Current
    <2> QED BY <1>1, <2>1, <2>2, <2>4
  <1>3. ASSUME NEW r \in Requests, Proceed(r) \/ Rollback(r) \/ Crash(r)
        PROVE  OneAtATime'
    <2>1. Open(r)
      BY <1>3 DEF Open, Answers, Proceed, ReadItems, FindItems, ReplaceItems,
         WriteUpdate, WriteApproval, RejectStatus, RejectHistory, Remove,
         Afterwards, Rollback, Crash
    <2>2. \A o \in Requests \ {r} : ~Open(o) /\ req'[o] = req[o]
      BY <1>3, <2>1, OthersStay DEF SeqInv, OneAtATime
    <2>3. Current(r)
      BY DEF SeqInv, OneAtATime
    <2>4. CASE ReadItems(r)
      <3>1. /\ status' = status /\ items' = items
            /\ req'[r].seen = req[r].seen /\ req'[r].seenItems = items
            /\ req'[r].dto = req[r].dto
            /\ req'[r].pc = IF ~Allowed(req[r]) THEN "refused"
                            ELSE IF req[r].dto.items THEN "delete" ELSE "write"
        BY <1>0, <2>4 DEF ReadItems, quote, Requested
      <3>2. Allowed(req[r]) => Allowed(req'[r])
        BY <3>1 DEF Allowed, IsRevisionSave
      <3>3. req[r].seen = status
        BY <2>3, <2>4 DEF Current, ReadItems
      <3>4. Current(r)'
        BY <3>1, <3>2, <3>3 DEF Current, Allowed, IsRevisionSave
      <3> QED BY <1>1, <2>2, <3>4
    <2>5. CASE FindItems(r) \/ ReplaceItems(r)
      <3>1. /\ status' = status /\ items' = items
            /\ req'[r].seen = req[r].seen
            /\ req'[r].seenItems = req[r].seenItems
            /\ req'[r].dto = req[r].dto
            /\ req'[r].pc \in {"insert", "write"}
        BY <1>0, <2>5 DEF FindItems, ReplaceItems, quote, Requested
      <3>2. req'[r].taken = items \/ ~req[r].dto.items
        BY <1>0, <2>3, <2>5 DEF FindItems, ReplaceItems, Current, Requested
      <3>3. req[r].seen = status /\ req[r].seenItems = items /\ Allowed(req[r])
        BY <2>3, <2>5 DEF Current, FindItems, ReplaceItems
      <3>4. Current(r)'
        BY <3>1, <3>2, <3>3 DEF Current, Allowed, IsRevisionSave
      <3> QED BY <1>1, <2>2, <3>4
    <2>6. CASE WriteUpdate(r) \/ WriteApproval(r) \/ RejectStatus(r)
                 \/ RejectHistory(r) \/ Remove(r) \/ Afterwards(r)
                 \/ Rollback(r) \/ Crash(r)
      <3>1. req'[r].pc \in {"committed", "record"} \union Answers
        <4>1. CASE WriteUpdate(r) \/ WriteApproval(r) \/ RejectStatus(r)
          BY <1>0, <4>1 DEF WriteUpdate, WriteApproval, RejectStatus, Requested
        <4>2. CASE RejectHistory(r) \/ Remove(r) \/ Afterwards(r)
          BY <1>0, <4>2 DEF RejectHistory, Remove, Afterwards, Answers,
             Requested
        <4>3. CASE Rollback(r) \/ Crash(r)
          BY <1>0, <4>3 DEF Rollback, Crash, Answers, Requested
        <4> QED BY <2>6, <4>1, <4>2, <4>3
      <3>2. Current(r)'
        BY <3>1 DEF Current, Answers
      <3> QED BY <1>1, <2>2, <3>2
    <2> QED BY <1>3, <2>4, <2>5, <2>6 DEF Proceed
  <1>4. CASE UNCHANGED vars
    BY <1>4 DEF SeqInv, OneAtATime, Open, Current, Allowed, IsRevisionSave,
       vars, quote
  <1> QED BY <1>2, <1>3, <1>4 DEF Next

LEMMA WorkflowStep ==
  ASSUME SeqInv, [Next]_vars
  PROVE  /\ [Workflow!Next]_<<status, items, sold, order>>
         /\ OpenUnsold'
  <1> DEFINE abstract == <<status, items, sold, order>>
  <1>0. /\ req \in [Requests -> Requested] /\ status \in Statuses
        /\ order \in BOOLEAN
    BY DEF SeqInv, TypeOK
  <1>1. CASE UNCHANGED abstract
    BY <1>1 DEF SeqInv, OpenUnsold
  <1>2. ASSUME NEW r \in Requests, WriteUpdate(r)
        PROVE  [Workflow!Next]_abstract /\ OpenUnsold'
    <2> DEFINE q == req[r]
    <2>1. q.seen = status /\ q.seenItems = items /\ status \notin Settled
      BY <1>2 DEF WriteUpdate, SeqInv, OneAtATime, Current, Allowed
    <2>2. items' \in {items} \union {{l} : l \in AllLists}
      <3>1. CASE q.dto.items
        <4>1. q.taken = items
          BY <1>2, <3>1 DEF WriteUpdate, SeqInv, OneAtATime, Current
        <4> QED BY <1>2, <3>1, <4>1 DEF WriteUpdate, AllLists
      <3>2. CASE ~q.dto.items
        BY <1>2, <3>2 DEF WriteUpdate
      <3> QED BY <3>1, <3>2
    <2>3. sold = << >> /\ ~order
      BY <2>1 DEF SeqInv, OpenUnsold
    <2>4. status' = Wanted(q)
      BY <1>2, <2>1 DEF WriteUpdate
    <2>5. Wanted(q) \in Statuses
      <3>1. q.dto \in Dtos
        BY <1>2 DEF WriteUpdate, SeqInv, TypeOK, Requested, NoDto
      <3> QED BY <3>1, WantedType DEF SeqInv
    <2>6. CASE Wanted(q) = "APPROVED"
      <3>1. sold' = <<items>> /\ order' = TRUE
        <4>1. q.seen # "APPROVED"
          BY <2>1 DEF Settled
        <4>2. sold' = Sell(q.seenItems) /\ order' = TRUE
          BY <1>2, <2>6, <4>1 DEF WriteUpdate
        <4>3. Append(<< >>, items) = <<items>>
          OBVIOUS
        <4> QED BY <2>1, <2>3, <4>2, <4>3 DEF Sell
      <3> QED BY <2>1, <2>2, <2>4, <2>6, <3>1, <1>0
              DEF Workflow!Next, Workflow!Approve, Workflow!OpenStatuses,
                  Workflow!MayReplaceItems, AllLists, OpenUnsold, Settled,
                  Statuses
    <2>7. CASE Wanted(q) # "APPROVED"
      <3>1. sold' = sold /\ order' = order
        BY <1>0, <1>2, <2>7 DEF WriteUpdate
      <3>2. status \in Workflow!OpenStatuses
        BY <1>0, <2>1 DEF Workflow!OpenStatuses, Statuses, Settled
      <3>3. status' = "REJECTED" \/ status' \in Workflow!OpenStatuses
        BY <2>4, <2>5, <2>7 DEF Workflow!OpenStatuses, Statuses
      <3> QED BY <2>2, <2>3, <3>1, <3>2, <3>3
              DEF Workflow!Next, Workflow!Edit, Workflow!Reject,
                  Workflow!MayReplaceItems, AllLists, OpenUnsold
    <2> QED BY <2>6, <2>7
  <1>3. ASSUME NEW r \in Requests, WriteApproval(r)
        PROVE  [Workflow!Next]_abstract /\ OpenUnsold'
    <2>1. req[r].seenItems = items /\ status = "PENDING_APPROVAL"
      BY <1>3 DEF WriteApproval, SeqInv, OneAtATime, Current, Allowed
    <2>2. sold = << >>
      BY <2>1 DEF SeqInv, OpenUnsold, Settled
    <2>3. /\ status' = "APPROVED" /\ order' = TRUE /\ items' = items
          /\ sold' = <<items>>
      BY <1>3, <2>1, <2>2 DEF WriteApproval, Sell
    <2> QED BY <2>1, <2>3
            DEF Workflow!Next, Workflow!Approve, Workflow!OpenStatuses,
                Workflow!MayReplaceItems, OpenUnsold, Settled
  <1>4. ASSUME NEW r \in Requests, RejectStatus(r)
        PROVE  [Workflow!Next]_abstract /\ OpenUnsold'
    <2>1. status = "PENDING_APPROVAL"
      BY <1>4 DEF RejectStatus, SeqInv, OneAtATime, Current, Allowed
    <2> QED BY <1>4, <2>1
            DEF RejectStatus, Workflow!Next, Workflow!Reject,
                Workflow!OpenStatuses, Workflow!MayReplaceItems, OpenUnsold,
                Settled
  <1> QED BY <1>1, <1>2, <1>3, <1>4
          DEF Next, Proceed, ReadQuote, ReadItems, FindItems, ReplaceItems,
              RejectHistory, Remove, Afterwards, Rollback, Crash, quote, vars

LEMMA SeqInvariant ==
  ASSUME MaxOpen = 1
  PROVE  Spec => []SeqInv
  <1>1. Init => SeqInv
    <2> SUFFICES ASSUME Init PROVE SeqInv
      OBVIOUS
    <2>1. OneAtATime
      BY DEF Init, OneAtATime, Open, Current, Blank
    <2>2. OpenUnsold
      BY DEF Init, OpenUnsold
    <2> QED BY <2>1, <2>2, InitTypes DEF SeqInv
  <1>2. SeqInv /\ [Next]_vars => SeqInv'
    BY StepTypes, OneAtATimeStep, WorkflowStep DEF SeqInv
  <1> QED BY <1>1, <1>2, PTL DEF Spec

(* When requests are handled one at a time the endpoints implement the     *)
(* workflow, however many requests there are: an open quote is edited      *)
(* until an approval sells the items it shows, or a rejection ends it.     *)
THEOREM QuoteFollowsWorkflow ==
  ASSUME MaxOpen = 1
  PROVE  Spec => FollowsWorkflow
  <1>1. Init => Workflow!Init
    BY QuoteAssumption DEF Init, Workflow!Init, Workflow!OpenStatuses,
                           Statuses, Settled
  <1>2. SeqInv /\ [Next]_vars =>
          [Workflow!Next]_<<status, items, sold, order>>
    BY WorkflowStep
  <1> QED BY <1>1, <1>2, SeqInvariant, PTL
          DEF Spec, FollowsWorkflow, Workflow!Spec

\* A quote shows one list; the update that replaces it has found it.
OneList == \E l \in AllLists : items = {l}

LEMMA OneListStep == SeqInv /\ OneList /\ [Next]_vars => OneList'
  <1> SUFFICES ASSUME SeqInv, OneList, [Next]_vars PROVE OneList'
    OBVIOUS
  <1>1. CASE items' = items
    BY <1>1 DEF OneList
  <1>2. ASSUME NEW r \in Requests, WriteUpdate(r), req[r].dto.items
        PROVE  OneList'
    <2>1. req[r].taken = items
      BY <1>2 DEF WriteUpdate, SeqInv, OneAtATime, Current
    <2>2. items' = {r}
      BY <1>2, <2>1 DEF WriteUpdate
    <2> QED BY <2>2 DEF OneList, AllLists
  <1> QED BY <1>1, <1>2
          DEF Next, Proceed, ReadQuote, ReadItems, FindItems, ReplaceItems,
              WriteUpdate, WriteApproval, RejectStatus, RejectHistory, Remove,
              Afterwards, Rollback, Crash, quote, vars

(* When requests are handled one at a time, an update replaces the item    *)
(* list: however many updates follow one another, the quote has one list.  *)
THEOREM QuoteOneItemList ==
  ASSUME MaxOpen = 1
  PROVE  Spec => []OneItemList
  <1>1. Init => OneList
    BY DEF Init, OneList, AllLists
  <1>2. OneList => OneItemList
    BY FS_Singleton DEF OneList, OneItemList
  <1> QED BY <1>1, <1>2, OneListStep, SeqInvariant, PTL DEF Spec
=============================================================================
