---------------------------- MODULE ImportProofs ----------------------------
(***************************************************************************)
(* Theorems about the numbered documents of a day on which imports bring   *)
(* in quotes as well (DocNumbers under the steps of Imports), for any      *)
(* number of creates of any kind, of imports, attempts, removals and       *)
(* crashes: every create is answered with the one document it inserted or  *)
(* found, and fails for want of a number only on a crowded day.  And about *)
(* the imports themselves, for any files and any records to begin with: no *)
(* row of an import that is alone drops a column of a record.              *)
(***************************************************************************)
EXTENDS Imports, TLAPS, FiniteSetTheorems, WellFoundedInduction

\* A document keeps everything but that it may be removed or completed.
StillIs(e, d) ==
  /\ DOMAIN e = DOMAIN d
  /\ e.table = d.table /\ e.number = d.number /\ e.key = d.key /\ e.by = d.by
  /\ e.live => d.live
  /\ d.whole => e.whole

Fields == {"table", "number", "key", "live", "whole", "by", "attributes"}
Progress == {"pc", "kind", "key", "attempt", "count", "rivals"}

\* Who has inserted the documents of a table, and whether all were creates.
Inserters(t) == {d.by : d \in Rows(t)}
Ours(t) == Inserters(t) \subseteq Requests

\* The document of a create.
Inserted(r) == \E d \in docs : d.by = r

\* A create inserts one document; others' documents are imported quotes.
DocsOK ==
  /\ IsFiniteSet(docs)
  /\ \A d \in docs : DOMAIN d = Fields
  /\ \A d, e \in docs : d.by \in Requests /\ d.by = e.by => d = e
  /\ \A d \in docs : d.by \notin Requests => d.table = "quote"

(* No number is above the number of creates that have inserted into the    *)
(* table, as long as no import has brought in numbers of its own.          *)
NumbersOK ==
  \A t : Ours(t) => \A d \in Rows(t) :
    d.number \in Nat /\ d.number <= Cardinality(Inserters(t))

\* The answer of a request, and the document behind it.
AnswerOK(r) ==
  LET q == req[r] IN
  /\ \A d \in docs : d.by = r => q.pc \in {"follow", "done", "failed"}
  /\ q.pc = "follow" => Inserted(r)
  /\ q.pc = "done" => \E d \in docs : d.by = r /\ d.whole
  /\ q.pc = "found" => \E d \in Rows(Table(q.kind)) : d.key = q.key

\* The number that a create has counted is taken.
Ahead(q) == \E d \in Rows(Table(q.kind)) : d.number = q.count + 1

\* A day on which the count sees all there is.
Clear(kind) == IF kind = "purchaseOrder"
               THEN \A d \in Rows("purchaseOrder") : d.live
               ELSE Ours(Table(kind))

(* What a create has counted, and its rivals: creates that have inserted.  *)
CountOK(r) ==
  LET q == req[r] IN
  /\ q.attempt \in Nat \ {0} /\ q.count \in Nat /\ IsFiniteSet(q.rivals)
  /\ q.pc = "insert" /\ Ours(Table(q.kind)) =>
       q.count <= Cardinality(Inserters(Table(q.kind)))
  /\ Ours(Table(q.kind)) => \A o \in q.rivals \cap Requests : Inserted(o)

(* Every attempt but the one under way has met a rival of its own, and the *)
(* one under way too if the number it counted has been taken: the count    *)
(* was that of all documents, so that the number was free when counted.    *)
CrowdOK(r) ==
  LET q == req[r] IN
  q.key = NoKey /\ ~Inserted(r) /\ Clear(q.kind) =>
    /\ q.pc \in {"count", "insert"} => Cardinality(q.rivals) >= q.attempt - 1
    /\ q.pc = "insert" /\ Ahead(q) => Cardinality(q.rivals) >= q.attempt
    /\ q.pc = "failed" => IF q.kind = "purchaseOrder" THEN q.rivals # {}
                          ELSE Cardinality(q.rivals) >= MaxAttempts[q.kind]

\* The inductive invariant.
ReqOK == DOMAIN req = Requests /\ \A r \in Requests :
           DOMAIN req[r] = Progress /\ AnswerOK(r) /\ CountOK(r) /\ CrowdOK(r)

DayInv == DocsOK /\ NumbersOK /\ ReqOK
-----------------------------------------------------------------------------
(* A step that adds no document and takes none away.                       *)
Renews == /\ \A d \in docs : \E e \in docs' : StillIs(e, d)
          /\ \A e \in docs' : \E d \in docs : StillIs(e, d)

\* What such a step leaves of the tables and of what is said of them.
LEMMA RenewedTables ==
  ASSUME Renews
  PROVE  /\ \A t : Inserters(t)' = Inserters(t) /\ (Ours(t)' <=> Ours(t))
         /\ \A r : Inserted(r)' <=> Inserted(r)
         /\ \A kind : Clear(kind)' => Clear(kind)
         /\ \A q : Ahead(q)' <=> Ahead(q)
<1>1. \A t : Inserters(t)' = Inserters(t)
  BY DEF Renews, StillIs, Inserters, Rows
<1>2. \A t : Ours(t)' <=> Ours(t)
  BY <1>1 DEF Ours
<1>3. \A r : Inserted(r)' <=> Inserted(r)
  BY DEF Renews, StillIs, Inserted
<1>4. \A kind : Clear(kind)' => Clear(kind)
  <2> SUFFICES ASSUME NEW kind, Clear(kind)' PROVE Clear(kind)
    OBVIOUS
  <2>1. CASE kind = "purchaseOrder"
    <3> SUFFICES ASSUME NEW d \in Rows("purchaseOrder") PROVE d.live
      BY <2>1 DEF Clear
    <3>1. PICK e \in docs' : StillIs(e, d)
      BY DEF Renews, Rows
    <3>2. e \in Rows("purchaseOrder")'
      BY <3>1 DEF Rows, StillIs
    <3>3. e.live
      BY <2>1, <3>2 DEF Clear
    <3>4. QED
      BY <3>1, <3>3 DEF StillIs
  <2>2. CASE kind # "purchaseOrder"
    BY <1>2, <2>2 DEF Clear
  <2>3. QED
    BY <2>1, <2>2
<1>5. \A q : Ahead(q)' <=> Ahead(q)
  BY DEF Renews, StillIs, Ahead, Rows
<1>6. QED
  BY <1>1, <1>2, <1>3, <1>4, <1>5

\* ... and of the documents.
LEMMA RenewedDocs ==
  ASSUME DocsOK, NumbersOK, Renews, IsFiniteSet(docs'),
         \A d, e \in docs' : d.by \in Requests /\ d.by = e.by => d = e
  PROVE  DocsOK' /\ NumbersOK'
<1>1. DocsOK'
  BY DEF DocsOK, Renews, StillIs
<1>2. NumbersOK'
  <2> SUFFICES ASSUME NEW t, Ours(t)', NEW e \in Rows(t)'
               PROVE  e.number \in Nat /\ e.number <= Cardinality(Inserters(t)')
    BY DEF NumbersOK
  <2>1. PICK d \in docs : StillIs(e, d)
    BY DEF Renews, Rows
  <2>2. d \in Rows(t) /\ e.number = d.number
    BY <2>1 DEF Rows, StillIs
  <2>3. Ours(t) /\ Inserters(t)' = Inserters(t)
    BY RenewedTables
  <2>4. QED
    BY <2>2, <2>3 DEF NumbersOK
<1>3. QED
  BY <1>1, <1>2

\* The requests that the step leaves alone.
LEMMA RenewedRequest ==
  ASSUME DocsOK, Renews, NEW r \in Requests, req'[r] = req[r],
         AnswerOK(r), CountOK(r), CrowdOK(r)
  PROVE  AnswerOK(r)' /\ CountOK(r)' /\ CrowdOK(r)'
<1>1. AnswerOK(r)'
  BY RenewedTables DEF AnswerOK, Renews, StillIs, Inserted, Rows
<1>2. CountOK(r)'
  BY RenewedTables DEF CountOK
<1>3. CrowdOK(r)'
  BY RenewedTables DEF CrowdOK
<1>4. QED
  BY <1>1, <1>2, <1>3

\* A request under way has its own document only once it is inserted.
LEMMA NotYet ==
  ASSUME NEW r \in Requests, AnswerOK(r), req[r].pc \notin {"follow", "done", "failed"}
  PROVE  ~Inserted(r)
  BY DEF AnswerOK, Inserted

\* No change at all is such a step.
LEMMA SameDocs ==
  ASSUME UNCHANGED docs
  PROVE  Renews
<1>1. \A d : StillIs(d, d)
  BY DEF StillIs
<1>2. QED
  BY <1>1 DEF Renews

\* As many creates as documents.
LEMMA InsertersAreCounted ==
  ASSUME DocsOK, NEW t, Ours(t)
  PROVE  /\ IsFiniteSet(Rows(t)) /\ IsFiniteSet(Inserters(t))
         /\ Cardinality(Rows(t)) = Cardinality(Inserters(t))
         /\ Cardinality(Rows(t)) \in Nat
<1> DEFINE By == [d \in Rows(t) |-> d.by]
<1>1. IsFiniteSet(Rows(t))
  BY FS_Subset DEF Rows, DocsOK
<1>2. By \in [Rows(t) -> Inserters(t)]
  BY DEF Inserters
<1>3. \A b \in Inserters(t) : \E d \in Rows(t) : By[d] = b
  BY DEF Inserters
<1>4. \A d, e \in Rows(t) : By[d] = By[e] => d = e
  BY DEF Ours, Inserters, DocsOK, Rows
<1>5. By \in Bijection(Rows(t), Inserters(t))
  <2> HIDE DEF By
  <2> QED
    BY <1>2, <1>3, <1>4 DEF Bijection, Injection, Surjection, IsInjective
<1>6. QED
  BY <1>1, <1>5, FS_Bijection, FS_CardinalityType DEF ExistsBijection
-----------------------------------------------------------------------------
(* A create begins with no rivals and no document.                         *)
LEMMA BeginsClean ==
  ASSUME DayInv, NEW r \in Requests, NEW kind, NEW key, Begin(r, kind, key)
  PROVE  DayInv'
<1>1. Renews /\ IsFiniteSet(docs')
  BY SameDocs DEF Begin, DayInv, DocsOK
<1>2. DocsOK' /\ NumbersOK'
  BY <1>1, RenewedDocs DEF DayInv, DocsOK, Begin
<1>3. \A o \in Requests \ {r} : req'[o] = req[o]
  BY DEF Begin, DayInv, ReqOK
<1>4. DOMAIN req' = Requests
  BY DEF Begin, DayInv, ReqOK
<1> DEFINE q == req'[r]
<1>5. /\ DOMAIN q = Progress /\ q.kind = kind /\ q.key = key /\ q.attempt = 1
      /\ q.count = 0 /\ q.rivals = {} /\ q.pc \in {"found", "count"}
      /\ q.pc = "found" => Findable(Table(kind), key)
  BY DEF Begin, DayInv, ReqOK, Progress
<1>6. ~Inserted(r)
  BY NotYet DEF Begin, DayInv, ReqOK
<1>7. ~Inserted(r)'
  BY <1>1, <1>6, RenewedTables
<1> HIDE DEF q
<1>8. AnswerOK(r)'
  BY <1>5, <1>7 DEF AnswerOK, Inserted, Findable, Begin, Rows, q
<1>9. CountOK(r)'
  BY <1>5, FS_EmptySet DEF CountOK, q
<1>10. CrowdOK(r)'
  BY <1>5, FS_EmptySet DEF CrowdOK, q
<1>11. \A o \in Requests \ {r} : AnswerOK(o)' /\ CountOK(o)' /\ CrowdOK(o)'
  BY <1>1, <1>3, RenewedRequest DEF DayInv, ReqOK
<1>12. QED
  BY <1>2, <1>3, <1>4, <1>5, <1>8, <1>9, <1>10, <1>11 DEF DayInv, ReqOK, q

(* A count that sees all there is is the number of documents, so that the next  *)
(* number is free.                                                         *)
LEMMA CountsAll ==
  ASSUME DayInv, NEW r \in Requests, Count(r)
  PROVE  DayInv'
<1>1. Renews /\ IsFiniteSet(docs')
  BY SameDocs DEF Count, DayInv, DocsOK
<1>2. DocsOK' /\ NumbersOK'
  BY <1>1, RenewedDocs DEF DayInv, DocsOK, Count
<1>3. DOMAIN req' = Requests /\ \A o \in Requests \ {r} : req'[o] = req[o]
  BY DEF Count, DayInv, ReqOK
<1> DEFINE q == req[r]
           p == req'[r]
<1>0. PICK kind : kind = q.kind
  OBVIOUS
<1> DEFINE t == Table(kind)
           n == Cardinality(Counted(kind))
<1>4. /\ DOMAIN p = Progress /\ q.kind = kind /\ p.kind = kind /\ p.key = q.key /\ p.attempt = q.attempt
      /\ p.count = n /\ p.rivals = q.rivals /\ p.pc = "insert" /\ q.pc = "count"
  BY <1>0 DEF Count, DayInv, ReqOK, Progress
<1>5. ~Inserted(r) /\ ~Inserted(r)'
  BY <1>1, <1>4, NotYet, RenewedTables DEF DayInv, ReqOK
<1>6. Counted(kind) \subseteq Rows(t) /\ IsFiniteSet(Rows(t))
  BY FS_Subset DEF Counted, Table, Rows, DayInv, DocsOK
<1>7. n \in Nat /\ n <= Cardinality(Rows(t))
  BY <1>6, FS_Subset, FS_CardinalityType
<1>8. Clear(kind) => n = Cardinality(Rows(t))
  <2>1. Clear(kind) => Counted(kind) = Rows(t)
    BY DEF Clear, Counted, Table, Rows
  <2>2. QED
    BY <2>1
<1>9. Clear(kind) => Ours(t)
  BY DEF Clear, Ours, Inserters, Table, Rows, DayInv, DocsOK
<1>10. Clear(kind) => ~\E d \in Rows(t) : d.number = n + 1
  BY <1>7, <1>8, <1>9, InsertersAreCounted DEF DayInv, NumbersOK
<1>11. Inserters(t)' = Inserters(t) /\ (Ours(t)' <=> Ours(t))
  BY <1>1, RenewedTables
<1>12. Rows(t)' = Rows(t)
  BY DEF Rows, Count
<1> HIDE DEF q, p, n
<1>13. AnswerOK(r)'
  BY <1>4, <1>5 DEF AnswerOK, Inserted, p
<1>14. CountOK(r)'
  <2>1. CountOK(r)
    BY DEF DayInv, ReqOK
  <2>2. \A o : Inserted(o)' <=> Inserted(o)
    BY <1>1, RenewedTables
  <2>3. Ours(t) => n <= Cardinality(Inserters(t))
    BY <1>7, InsertersAreCounted DEF DayInv
  <2>4. QED
    BY <1>4, <1>7, <1>11, <2>1, <2>2, <2>3 DEF CountOK, p, q
<1>15. CrowdOK(r)'
  <2>1. CrowdOK(r)
    BY DEF DayInv, ReqOK
  <2>2. Clear(kind)' => Clear(kind)
    BY <1>1, RenewedTables
  <2>3. Clear(kind)' => ~\E d \in Rows(t)' : d.number = n + 1
    BY <1>10, <1>12, <2>2
  <2>4. QED
    BY <1>4, <1>5, <2>1, <2>2, <2>3 DEF CrowdOK, Ahead, p, q
<1>16. \A o \in Requests \ {r} : AnswerOK(o)' /\ CountOK(o)' /\ CrowdOK(o)'
  BY <1>1, <1>3, RenewedRequest DEF DayInv, ReqOK
<1>17. QED
  BY <1>2, <1>3, <1>4, <1>13, <1>14, <1>15, <1>16 DEF DayInv, ReqOK, p

(* A create that meets another's number counts again, or gives up.  Either *)
(* way it has met one rival more than before.                              *)
LEMMA RetriesCountRivals ==
  ASSUME DayInv, NEW r \in Requests, Retry(r) \/ Recover(r)
  PROVE  DayInv'
<1>1. Renews /\ IsFiniteSet(docs')
  BY SameDocs DEF Retry, Recover, DayInv, DocsOK
<1>2. DocsOK' /\ NumbersOK'
  BY <1>1, RenewedDocs DEF DayInv, DocsOK, Retry, Recover
<1>3. DOMAIN req' = Requests /\ \A o \in Requests \ {r} : req'[o] = req[o]
  BY DEF Retry, Recover, DayInv, ReqOK
<1> DEFINE q == req[r]
           p == req'[r]
<1>4. /\ DOMAIN p = Progress /\ p.kind = q.kind /\ p.key = q.key
      /\ p.count = q.count /\ p.rivals = q.rivals /\ q.pc = "insert"
      /\ Collides(q) # "none"
  BY DEF Retry, Recover, DayInv, ReqOK, Progress
<1>5. \/ /\ p.pc = "failed" /\ p.attempt = q.attempt
         /\ q.kind # "purchaseOrder" => q.attempt = MaxAttempts[q.kind]
      \/ p.pc = "count" /\ p.attempt = q.attempt + 1
      \/ /\ p.pc = "found" /\ p.attempt = q.attempt /\ q.kind = "purchaseOrder"
         /\ Findable("purchaseOrder", q.key)
  BY DEF Retry, Recover, DayInv, ReqOK, Progress
<1>6. ~Inserted(r) /\ ~Inserted(r)'
  BY <1>1, <1>4, NotYet, RenewedTables DEF DayInv, ReqOK
<1>7. q.key = NoKey => Ahead(q)
  BY <1>4 DEF Collides, KeyTaken, Ahead
<1>8. AnswerOK(r) /\ CountOK(r) /\ CrowdOK(r)
  BY DEF DayInv, ReqOK
<1> HIDE DEF q, p
<1>9. docs' = docs
  BY DEF Retry, Recover
<1>10. AnswerOK(r)'
  BY <1>4, <1>5, <1>6, <1>9 DEF AnswerOK, Inserted, Findable, Rows, Table, p
<1>11. CountOK(r)'
  BY <1>1, <1>4, <1>5, <1>8, RenewedTables DEF CountOK, p, q
<1>12. CrowdOK(r)'
  <2>0. PICK kind : kind = p.kind /\ kind = q.kind
    BY <1>4
  <2> SUFFICES ASSUME p.key = NoKey, Clear(kind)'
               PROVE  /\ p.pc = "count" => Cardinality(p.rivals) >= p.attempt - 1
                      /\ p.pc = "failed" => IF p.kind = "purchaseOrder" THEN p.rivals # {}
                            ELSE Cardinality(p.rivals) >= MaxAttempts[p.kind]
    BY <1>5, <2>0 DEF CrowdOK, p
  <2>1. Clear(q.kind)
    BY <1>1, <2>0, RenewedTables
  <2>2. Cardinality(q.rivals) >= q.attempt
    BY <1>4, <1>6, <1>7, <1>8, <2>1 DEF CrowdOK, q
  <2>3. q.attempt \in Nat \ {0} /\ q.rivals # {}
    BY <1>8, <2>2, FS_EmptySet DEF CountOK, q
  <2>4. Cardinality(q.rivals) \in Nat
    BY <1>8, FS_CardinalityType DEF CountOK, q
  <2>5. QED
    BY <1>4, <1>5, <2>2, <2>3, <2>4
<1>13. \A o \in Requests \ {r} : AnswerOK(o)' /\ CountOK(o)' /\ CrowdOK(o)'
  BY <1>1, <1>3, RenewedRequest DEF DayInv, ReqOK
<1>14. QED
  BY <1>2, <1>3, <1>4, <1>10, <1>11, <1>12, <1>13 DEF DayInv, ReqOK, p

\* A create dies with its document inserted.
LEMMA CrashesLeaveDocuments ==
  ASSUME DayInv, NEW r \in Requests, Crash(r)
  PROVE  DayInv'
<1>1. Renews /\ IsFiniteSet(docs')
  BY SameDocs DEF Crash, DayInv, DocsOK
<1>2. DocsOK' /\ NumbersOK'
  BY <1>1, RenewedDocs DEF DayInv, DocsOK, Crash
<1>3. DOMAIN req' = Requests /\ \A o \in Requests \ {r} : req'[o] = req[o]
  BY DEF Crash, DayInv, ReqOK
<1> DEFINE q == req[r]
           p == req'[r]
<1>4. /\ DOMAIN p = Progress /\ p.kind = q.kind /\ p.key = q.key /\ p.attempt = q.attempt
      /\ p.count = q.count /\ p.rivals = q.rivals /\ q.pc = "follow" /\ p.pc = "failed"
  BY DEF Crash, DayInv, ReqOK, Progress
<1>5. AnswerOK(r) /\ CountOK(r)
  BY DEF DayInv, ReqOK
<1> HIDE DEF q, p
<1>6. Inserted(r)'
  BY <1>1, <1>4, <1>5, RenewedTables DEF AnswerOK, q
<1>7. AnswerOK(r)'
  BY <1>4 DEF AnswerOK, p
<1>8. CountOK(r)'
  BY <1>1, <1>4, <1>5, RenewedTables DEF CountOK, p, q
<1>9. CrowdOK(r)'
  BY <1>6 DEF CrowdOK
<1>10. \A o \in Requests \ {r} : AnswerOK(o)' /\ CountOK(o)' /\ CrowdOK(o)'
  BY <1>1, <1>3, RenewedRequest DEF DayInv, ReqOK
<1>11. QED
  BY <1>2, <1>3, <1>4, <1>7, <1>8, <1>9, <1>10 DEF DayInv, ReqOK, p

\* The second statement of a create.
LEMMA FollowUpsComplete ==
  ASSUME DayInv, NEW r \in Requests, FollowUp(r)
  PROVE  DayInv'
<1> DEFINE F(d) == IF d.by = r THEN [d EXCEPT !.whole = TRUE] ELSE d
<1>1. docs' = {F(d) : d \in docs}
  BY DEF FollowUp
<1>2. \A d \in docs : StillIs(F(d), d)
  BY DEF StillIs, DayInv, DocsOK, Fields
<1>3. \A d, e \in docs' : d.by \in Requests /\ d.by = e.by => d = e
  <2> HIDE DEF F
  <2> SUFFICES ASSUME NEW d \in docs, NEW e \in docs, F(d).by \in Requests, F(d).by = F(e).by
               PROVE  d = e
    BY <1>1
  <2>1. d.by \in Requests /\ d.by = e.by
    BY <1>2 DEF StillIs
  <2>2. QED
    BY <2>1 DEF DayInv, DocsOK
<1>4. \A d \in docs' : d.by = r => d.whole
  BY <1>1 DEF DayInv, DocsOK, Fields
<1>5. IsFiniteSet(docs')
  <2> HIDE DEF F
  <2> DEFINE f == [d \in docs |-> F(d)]
  <2>1. f \in Surjection(docs, docs')
    BY <1>1 DEF Surjection
  <2>2. QED
    BY <2>1, FS_Surjection DEF DayInv, DocsOK
<1>6. Renews
  BY <1>1, <1>2 DEF Renews
<1> HIDE DEF F
<1>7. DocsOK' /\ NumbersOK'
  BY <1>3, <1>5, <1>6, RenewedDocs DEF DayInv
<1>8. DOMAIN req' = Requests /\ \A o \in Requests \ {r} : req'[o] = req[o]
  BY DEF FollowUp, DayInv, ReqOK
<1> DEFINE q == req[r]
           p == req'[r]
<1>9. /\ DOMAIN p = Progress /\ p.kind = q.kind /\ p.key = q.key /\ p.attempt = q.attempt
      /\ p.count = q.count /\ p.rivals = q.rivals /\ q.pc = "follow" /\ p.pc = "done"
  BY DEF FollowUp, DayInv, ReqOK, Progress
<1>10. AnswerOK(r) /\ CountOK(r)
  BY DEF DayInv, ReqOK
<1> HIDE DEF q, p
<1>11. Inserted(r)'
  BY <1>6, <1>9, <1>10, RenewedTables DEF AnswerOK, q
<1>12. AnswerOK(r)'
  BY <1>4, <1>9, <1>11 DEF AnswerOK, Inserted, p
<1>13. CountOK(r)'
  BY <1>6, <1>9, <1>10, RenewedTables DEF CountOK, p, q
<1>14. CrowdOK(r)'
  BY <1>11 DEF CrowdOK
<1>15. \A o \in Requests \ {r} : AnswerOK(o)' /\ CountOK(o)' /\ CrowdOK(o)'
  BY <1>6, <1>8, RenewedRequest DEF DayInv, ReqOK
<1>16. QED
  BY <1>7, <1>8, <1>9, <1>12, <1>13, <1>14, <1>15 DEF DayInv, ReqOK, p

\* A removed document keeps its number.
LEMMA RemovalsRenew ==
  ASSUME DayInv, NEW x \in docs, Remove(x)
  PROVE  DayInv'
<1> DEFINE y == [x EXCEPT !.live = FALSE]
<1>1. docs' = (docs \ {x}) \union {y} /\ req' = req
  BY DEF Remove
<1>2. StillIs(y, x) /\ \A d : StillIs(d, d)
  BY DEF StillIs, DayInv, DocsOK, Fields
<1> HIDE DEF y
<1>3. \A d, e \in docs' : d.by \in Requests /\ d.by = e.by => d = e
  BY <1>1, <1>2 DEF StillIs, DayInv, DocsOK
<1>4. IsFiniteSet(docs')
  BY <1>1, FS_Subset, FS_AddElement DEF DayInv, DocsOK
<1>5. Renews
  BY <1>1, <1>2 DEF Renews
<1>6. DocsOK' /\ NumbersOK'
  BY <1>3, <1>4, <1>5, RenewedDocs DEF DayInv
<1>7. QED
  BY <1>1, <1>5, <1>6, RenewedRequest DEF DayInv, ReqOK

-----------------------------------------------------------------------------
(* A new document.                                                         *)
Adds(new) == docs' = docs \union {new} /\ DOMAIN new = Fields

\* What a new document does to the tables.
LEMMA AddedRows ==
  ASSUME NEW new, Adds(new)
  PROVE  /\ Rows(new.table)' = Rows(new.table) \union {new}
         /\ \A t : t # new.table => Rows(t)' = Rows(t)
         /\ Inserters(new.table)' = Inserters(new.table) \union {new.by}
         /\ \A t : t # new.table => Inserters(t)' = Inserters(t)
         /\ \A t : Ours(t)' => Ours(t)
         /\ \A r : Inserted(r)' <=> Inserted(r) \/ r = new.by
         /\ \A kind : Clear(kind)' => Clear(kind)
<1>1. Rows(new.table)' = Rows(new.table) \union {new} /\ \A t : t # new.table => Rows(t)' = Rows(t)
  BY DEF Adds, Rows
<1>2. Inserters(new.table)' = Inserters(new.table) \union {new.by}
  BY <1>1 DEF Inserters
<1>3. \A t : t # new.table => Inserters(t)' = Inserters(t)
  BY <1>1 DEF Inserters
<1>4. \A t : Ours(t)' => Ours(t)
  BY <1>2, <1>3 DEF Ours
<1>5. \A r : Inserted(r)' <=> Inserted(r) \/ r = new.by
  BY DEF Adds, Inserted
<1>6. \A kind : Clear(kind)' => Clear(kind)
  BY <1>4 DEF Clear, Rows, Adds
<1>7. QED
  BY <1>1, <1>2, <1>3, <1>4, <1>5, <1>6

\* The requests that the step does not mention.
LEMMA AddedApart ==
  ASSUME DayInv, NEW new, Adds(new), NEW r \in Requests, req'[r] = req[r], new.by # r,
         \/ new.table # Table(req[r].kind)
         \/ req[r].pc \in {"idle", "done", "found", "failed"}
  PROVE  AnswerOK(r)' /\ CountOK(r)' /\ CrowdOK(r)'
<1> DEFINE q == req[r]
<1>1. PICK kind, t : kind = q.kind /\ t = Table(kind)
  OBVIOUS
<1>2. AnswerOK(r) /\ CountOK(r) /\ CrowdOK(r)
  BY DEF DayInv, ReqOK
<1>3. AnswerOK(r)'
  BY <1>2 DEF AnswerOK, Inserted, Adds, Rows
<1>4. CountOK(r)'
  BY <1>1, <1>2, AddedRows DEF CountOK
<1>5. CrowdOK(r)'
  BY <1>1, <1>2, AddedRows DEF CrowdOK, Ahead
<1>6. QED
  BY <1>3, <1>4, <1>5

\* The open requests at the same table, which note a new rival.
LEMMA AddedBeside ==
  ASSUME DayInv, NEW new, Adds(new), NEW rival, NEW r \in Requests, new.by # r,
         Open(r), new.table = Table(req[r].kind),
         req'[r] = [req[r] EXCEPT !.rivals = @ \union {rival}],
         \/ new.by \notin Requests /\ new.table = "quote"
         \/ rival = new.by /\ rival \in Requests /\ ~Inserted(rival)
  PROVE  DOMAIN req'[r] = Progress /\ AnswerOK(r)' /\ CountOK(r)' /\ CrowdOK(r)'
<1> DEFINE q == req[r]
           p == req'[r]
<1>1. PICK kind, t : kind = q.kind /\ t = Table(kind)
  OBVIOUS
<1>2. /\ AnswerOK(r) /\ CountOK(r) /\ CrowdOK(r)
      /\ DOMAIN p = Progress /\ p.pc = q.pc /\ p.kind = kind /\ p.key = q.key
      /\ p.attempt = q.attempt /\ p.count = q.count /\ p.rivals = q.rivals \union {rival}
  BY <1>1 DEF DayInv, ReqOK, Progress
<1>3. IsFiniteSet(p.rivals) /\ Cardinality(q.rivals) \in Nat
      /\ Cardinality(p.rivals) = IF rival \in q.rivals THEN Cardinality(q.rivals)
                                 ELSE Cardinality(q.rivals) + 1
  <2>1. IsFiniteSet(q.rivals)
    BY <1>2 DEF CountOK
  <2>2. PICK S, T : S = q.rivals /\ T = S \union {rival} /\ T = p.rivals
    BY <1>2
  <2>3. IsFiniteSet(S) /\ T = S \union {rival}
    BY <2>1, <2>2
  <2>4. Cardinality(S) \in Nat
    BY <2>3, FS_CardinalityType
  <2>5. IsFiniteSet(T)
    BY <2>3, FS_AddElement
  <2>6. Cardinality(T) = IF rival \in S THEN Cardinality(S) ELSE Cardinality(S) + 1
    BY <2>3, FS_AddElement, Zenon
  <2>7. QED
    BY <2>2, <2>4, <2>5, <2>6
<1>4. new.table = t /\ (Ours(t)' => rival = new.by /\ ~Inserted(rival) /\ rival \in Requests)
  BY <1>1, AddedRows DEF Ours
<1>5. Ours(t)' => Ours(t) /\ Inserters(t)' = Inserters(t) \union {new.by}
  BY <1>4, AddedRows
<1> HIDE DEF q, p
<1>6. AnswerOK(r)'
  BY <1>2 DEF AnswerOK, Inserted, Adds, Rows, q, p
<1>7. CountOK(r)'
  <2>1. Ours(t)' /\ q.pc = "insert" => q.count <= Cardinality(Inserters(t)')
    <3> SUFFICES ASSUME Ours(t)', q.pc = "insert" PROVE q.count <= Cardinality(Inserters(t)')
      OBVIOUS
    <3>1. q.count <= Cardinality(Inserters(t)) /\ q.count \in Nat
      BY <1>1, <1>2, <1>5 DEF CountOK, q
    <3>2. IsFiniteSet(Inserters(t))
      BY <1>5, InsertersAreCounted DEF DayInv
    <3>3. PICK I, J : I = Inserters(t) /\ J = Inserters(t)'
      OBVIOUS
    <3>4. Cardinality(I) \in Nat /\ Cardinality(J) \in {Cardinality(I), Cardinality(I) + 1}
      BY <1>5, <3>2, <3>3, FS_AddElement, FS_CardinalityType
    <3>5. QED
      BY <3>1, <3>3, <3>4
  <2>2. Ours(t)' => \A o \in p.rivals \cap Requests : Inserted(o)'
    BY <1>1, <1>2, <1>4, <1>5, AddedRows DEF CountOK, q
  <2>3. QED
    BY <1>1, <1>2, <1>3, <2>1, <2>2 DEF CountOK, p, q
<1>8. CrowdOK(r)'
  <2> SUFFICES ASSUME p.key = NoKey, ~Inserted(r)', Clear(kind)'
               PROVE  /\ p.pc \in {"count", "insert"} => Cardinality(p.rivals) >= p.attempt
    BY <1>1, <1>2, <1>3, SMT DEF CrowdOK, CountOK, Open, Answers, p, q
  <2>1. Clear(kind) /\ ~Inserted(r)
    BY AddedRows
  <2>2. Ours(t)'
    <3>1. CASE kind = "purchaseOrder"
      <4>1. t = "purchaseOrder"
        BY <1>1, <3>1 DEF Table
      <4>2. new.by \in Requests /\ Ours(t)
        BY <1>4, <4>1 DEF Ours, Inserters, Rows, DayInv, DocsOK
      <4>3. QED
        BY <1>4, <4>2, AddedRows DEF Ours
    <3>2. CASE kind # "purchaseOrder"
      BY <1>1, <3>2 DEF Clear
    <3>3. QED
      BY <3>1, <3>2
  <2>3. rival \notin q.rivals
    BY <1>1, <1>2, <1>4, <1>5, <2>2 DEF CountOK, q
  <2>4. q.attempt \in Nat
    BY <1>2 DEF CountOK, q
  <2>5. QED
    BY <1>1, <1>2, <1>3, <2>1, <2>3, <2>4 DEF CrowdOK, q
<1>9. QED
  BY <1>2, <1>6, <1>7, <1>8 DEF p

\* What becomes of the documents.
LEMMA AddedDocs ==
  ASSUME DayInv, NEW new, Adds(new), ~Inserted(new.by),
         new.by \in Requests \/ new.table = "quote",
         Ours(new.table) /\ new.by \in Requests =>
           \E n \in Nat : n <= Cardinality(Inserters(new.table)) /\ new.number = n + 1
  PROVE  DocsOK' /\ NumbersOK'
<1>1. DocsOK'
  BY FS_AddElement DEF DocsOK, DayInv, Adds, Inserted
<1>2. NumbersOK'
  <2> SUFFICES ASSUME NEW t, Ours(t)', NEW d \in Rows(t)'
               PROVE  d.number \in Nat /\ d.number <= Cardinality(Inserters(t)')
    BY DEF NumbersOK
  <2>1. Ours(t)
    BY AddedRows
  <2>2. CASE t # new.table
    BY <2>1, <2>2, AddedRows DEF DayInv, NumbersOK
  <2>3. CASE t = new.table
    <3>1. PICK I, J : I = Inserters(t) /\ J = Inserters(t)'
      OBVIOUS
    <3>2. J = I \union {new.by} /\ new.by \in Requests
      BY <2>3, <3>1, AddedRows DEF Ours
    <3>3. new.by \notin I
      BY <3>1 DEF Inserted, Inserters, Rows
    <3>4. Cardinality(I) \in Nat /\ Cardinality(J) = Cardinality(I) + 1
      <4>1. IsFiniteSet(I)
        BY <2>1, <3>1, InsertersAreCounted DEF DayInv
      <4>2. QED
        BY <3>2, <3>3, <4>1, FS_AddElement, FS_CardinalityType
    <3>5. d = new \/ d \in Rows(t)
      BY <2>3, AddedRows
    <3>6. d \in Rows(t) => d.number \in Nat /\ d.number <= Cardinality(I)
      BY <2>1, <3>1 DEF DayInv, NumbersOK
    <3>7. d = new => d.number \in Nat /\ d.number <= Cardinality(I) + 1
      <4>1. \E n \in Nat : n <= Cardinality(I) /\ new.number = n + 1
        BY <2>1, <2>3, <3>1, <3>2
      <4>2. QED
        BY <3>4, <4>1
    <3>9. QED
      BY <3>1, <3>4, <3>5, <3>6, <3>7
  <2>4. QED
    BY <2>2, <2>3
<1>3. QED
  BY <1>1, <1>2

\* A create inserts the number after its count.
LEMMA InsertsNumber ==
  ASSUME DayInv, NEW r \in Requests, Insert(r)
  PROVE  DayInv'
<1> DEFINE q == req[r]
           p == req'[r]
<1>1. PICK kind, t : kind = q.kind /\ t = Table(kind)
  OBVIOUS
<1> DEFINE new == [table |-> t, number |-> q.count + 1, key |-> q.key, live |-> TRUE,
                   whole |-> ~HasFollowUp(kind), by |-> r, attributes |-> {}]
<1>2. Adds(new)
  BY <1>1 DEF Insert, Adds, Fields
<1>3. /\ DOMAIN p = Progress /\ p.kind = kind /\ p.key = q.key /\ p.attempt = q.attempt
      /\ p.count = q.count /\ p.rivals = q.rivals /\ q.pc = "insert"
      /\ p.pc = IF HasFollowUp(kind) THEN "follow" ELSE "done"
  BY <1>1 DEF Insert, DayInv, ReqOK, Progress
<1>4. AnswerOK(r) /\ CountOK(r)
  BY DEF DayInv, ReqOK
<1>5. ~Inserted(r)
  BY <1>3, <1>4, NotYet
<1>6. new.table = t /\ new.by = r /\ new.number = q.count + 1 /\ new.whole = ~HasFollowUp(kind)
  OBVIOUS
<1>7. DOMAIN req' = Requests
  BY DEF Insert
<1>8. ASSUME NEW o \in Requests \ {r}
      PROVE  IF Open(o) /\ Table(req[o].kind) = t
             THEN req'[o] = [req[o] EXCEPT !.rivals = @ \union {r}] ELSE req'[o] = req[o]
  BY <1>1 DEF Insert
<1> HIDE DEF new, p
<1>9. DocsOK' /\ NumbersOK'
  <2>1. q.count \in Nat /\ (Ours(t) => q.count <= Cardinality(Inserters(t)))
    BY <1>1, <1>3, <1>4 DEF CountOK
  <2> HIDE DEF q
  <2>2. QED
    BY <1>2, <1>5, <1>6, <2>1, AddedDocs
<1> HIDE DEF q
<1>10. new \in docs' /\ Inserted(r)'
  BY <1>2, <1>6 DEF Adds, Inserted
<1>11. AnswerOK(r)'
  BY <1>3, <1>6, <1>10 DEF AnswerOK, p
<1>12. CountOK(r)'
  BY <1>1, <1>2, <1>3, <1>4, AddedRows DEF CountOK, p, q
<1>13. CrowdOK(r)'
  BY <1>10 DEF CrowdOK
<1>14. ASSUME NEW o \in Requests \ {r}
       PROVE  DOMAIN req'[o] = Progress /\ AnswerOK(o)' /\ CountOK(o)' /\ CrowdOK(o)'
  <2>1. CASE Open(o) /\ Table(req[o].kind) = t
    <3>1. req'[o] = [req[o] EXCEPT !.rivals = @ \union {r}]
      BY <1>8, <2>1
    <3>2. new.by # o /\ new.table = Table(req[o].kind)
      BY <1>6, <2>1
    <3>3. QED
      BY <1>2, <1>5, <1>6, <2>1, <3>1, <3>2, AddedBeside
  <2>2. CASE ~(Open(o) /\ Table(req[o].kind) = t)
    <3>1. req'[o] = req[o]
      BY <1>8, <2>2
    <3>2. new.table # Table(req[o].kind) \/ req[o].pc \in {"idle", "done", "found", "failed"}
      BY <1>6, <2>2 DEF Open, Answers
    <3>3. QED
      BY <1>2, <1>6, <3>1, <3>2, AddedApart DEF DayInv, ReqOK
  <2>3. QED
    BY <2>1, <2>2
<1>15. QED
  BY <1>3, <1>7, <1>9, <1>11, <1>12, <1>13, <1>14 DEF DayInv, ReqOK, p

(* An imported quote: inserted with the number of its row, or updated.     *)
LEMMA ImportsWriteQuotes ==
  ASSUME DayInv, NEW i \in Importers, WriteQuote(i)
  PROVE  DayInv'
<1> DEFINE q == imp[i]
           line == q.file[q.at]
           taken == {d \in Rows("quote") : d.number = line.name}
           new == [table |-> "quote", number |-> line.name, key |-> NoKey, live |-> TRUE,
                   whole |-> TRUE, by |-> i, attributes |-> line.keys]
           F(d) == IF d \in taken THEN [d EXCEPT !.attributes = q.quote.attributes \union line.keys]
                   ELSE d
<1>1. \/ /\ docs' = docs \union {new}
         /\ req' = [r \in Requests |->
              IF Open(r) /\ Table(req[r].kind) = "quote"
              THEN [req[r] EXCEPT !.rivals = @ \union {<<i, q.at>>}] ELSE req[r]]
      \/ UNCHANGED <<docs, req>>
      \/ docs' = {F(d) : d \in docs} /\ UNCHANGED req
  BY DEF WriteQuote
<1>2. i \notin Requests
  BY ImportsAssumption
<1>3. CASE /\ docs' = docs \union {new}
           /\ req' = [r \in Requests |->
                IF Open(r) /\ Table(req[r].kind) = "quote"
                THEN [req[r] EXCEPT !.rivals = @ \union {<<i, q.at>>}] ELSE req[r]]
  <2>1. Adds(new) /\ new.by = i /\ new.table = "quote"
    BY <1>3 DEF Adds, Fields
  <2> HIDE DEF new, q
  <2>2. DocsOK'
    BY <1>2, <2>1, FS_AddElement DEF DocsOK, DayInv, Adds
  <2>3. NumbersOK'
    BY <1>2, <2>1, AddedRows DEF NumbersOK, DayInv, Ours
  <2>4. ASSUME NEW o \in Requests
        PROVE  DOMAIN req'[o] = Progress /\ AnswerOK(o)' /\ CountOK(o)' /\ CrowdOK(o)'
    <3>1. CASE Open(o) /\ Table(req[o].kind) = "quote"
      BY <1>2, <1>3, <2>1, <3>1, AddedBeside
    <3>2. CASE ~(Open(o) /\ Table(req[o].kind) = "quote")
      <4>1. req'[o] = req[o]
        BY <1>3, <3>2
      <4>2. new.table # Table(req[o].kind) \/ req[o].pc \in {"idle", "done", "found", "failed"}
        BY <2>1, <3>2 DEF Open, Answers
      <4>3. QED
        BY <1>2, <2>1, <4>1, <4>2, AddedApart DEF DayInv, ReqOK
    <3>3. QED
      BY <3>1, <3>2
  <2>5. QED
    BY <1>3, <2>2, <2>3, <2>4 DEF DayInv, ReqOK
<1>4. CASE UNCHANGED <<docs, req>>
  <2>1. Renews
    BY <1>4, SameDocs
  <2>2. QED
    BY <1>4, <2>1, RenewedDocs, RenewedRequest DEF DayInv, DocsOK, ReqOK
<1>5. CASE docs' = {F(d) : d \in docs} /\ UNCHANGED req
  <2>1. \A d \in docs : StillIs(F(d), d)
    BY DEF StillIs, DayInv, DocsOK, Fields
  <2> HIDE DEF F
  <2>2. \A d, e \in docs' : d.by \in Requests /\ d.by = e.by => d = e
    <3> SUFFICES ASSUME NEW d \in docs, NEW e \in docs, F(d).by \in Requests, F(d).by = F(e).by
                 PROVE  d = e
      BY <1>5
    <3>1. d.by \in Requests /\ d.by = e.by
      BY <2>1 DEF StillIs
    <3>2. QED
      BY <3>1 DEF DayInv, DocsOK
  <2>3. IsFiniteSet(docs')
    <3> DEFINE f == [d \in docs |-> F(d)]
    <3>1. f \in Surjection(docs, docs')
      BY <1>5 DEF Surjection
    <3>2. QED
      BY <3>1, FS_Surjection DEF DayInv, DocsOK
  <2>4. Renews
    BY <1>5, <2>1 DEF Renews
  <2>5. DocsOK' /\ NumbersOK'
    BY <2>2, <2>3, <2>4, RenewedDocs DEF DayInv
  <2>6. QED
    BY <1>5, <2>4, <2>5, RenewedRequest DEF DayInv, ReqOK
<1>6. QED
  BY <1>1, <1>3, <1>4, <1>5

\* Of the steps of imports, only the quotes' come near the documents.
LEMMA ImportsAside ==
  ASSUME [ImportsNext]_allVars
  PROVE  \/ Next \/ UNCHANGED vars
         \/ \E i \in Importers : WriteQuote(i)
<1>1. CASE CreateStep
  BY <1>1 DEF CreateStep
<1>2. ASSUME NEW i \in Importers, NEW file, BeginImport(i, offer.kind, file)
      PROVE  UNCHANGED vars
  BY <1>2 DEF BeginImport, BeginFirms, BeginProducts, BeginContacts, BeginInteractions,
              BeginQuotes, Enter
<1>3. ASSUME NEW i \in Importers, ImportStep(i)
      PROVE  UNCHANGED vars \/ WriteQuote(i)
  BY <1>3 DEF ImportStep, FindFirm, FindQuote, OpenFirm, FindPerson, AddPerson, Load,
              WriteRow, Answer
<1>4. ASSUME NEW i \in Importers, Die(i) PROVE UNCHANGED vars
  BY <1>4 DEF Die
<1>5. ASSUME NEW x \in recs, RemoveRecord(x) PROVE UNCHANGED vars
  BY <1>5 DEF RemoveRecord
<1>6. CASE UNCHANGED allVars
  BY <1>6 DEF allVars
<1>7. QED
  BY <1>1, <1>2, <1>3, <1>4, <1>5, <1>6 DEF ImportsNext

\* The invariant of a day.
LEMMA DayInvariant == ImportsSpec => []DayInv
<1>1. ImportsInit => DayInv
  <2> SUFFICES ASSUME ImportsInit PROVE DayInv
    OBVIOUS
  <2>1. docs = {} /\ DOMAIN req = Requests
    BY DEF ImportsInit, Init
  <2>2. ASSUME NEW r \in Requests
        PROVE  /\ DOMAIN req[r] = Progress /\ req[r].pc = "idle" /\ req[r].kind = "quote"
               /\ req[r].attempt = 1 /\ req[r].count = 0 /\ req[r].rivals = {}
    BY DEF ImportsInit, Init, Progress
  <2>3. DocsOK /\ NumbersOK
    BY <2>1, FS_EmptySet DEF DocsOK, NumbersOK, Rows
  <2>4. \A r \in Requests : AnswerOK(r) /\ CountOK(r) /\ CrowdOK(r)
    BY <2>1, <2>2, FS_EmptySet DEF AnswerOK, CountOK, CrowdOK
  <2>5. QED
    BY <2>1, <2>2, <2>3, <2>4 DEF DayInv, ReqOK
<1>2. DayInv /\ [ImportsNext]_allVars => DayInv'
  <2> SUFFICES ASSUME DayInv, [ImportsNext]_allVars PROVE DayInv'
    OBVIOUS
  <2>1. CASE UNCHANGED vars
    <3>1. UNCHANGED <<docs, req>> /\ Renews
      BY <2>1, SameDocs DEF vars
    <3>2. QED
      BY <3>1, RenewedDocs, RenewedRequest DEF DayInv, DocsOK, ReqOK
  <2>2. CASE Next
    BY <2>2, BeginsClean, CountsAll, InsertsNumber, RetriesCountRivals, FollowUpsComplete,
       CrashesLeaveDocuments, RemovalsRenew DEF Next, Proceed
  <2>3. QED
    BY <2>1, <2>2, ImportsAside, ImportsWriteQuotes
<1>3. QED
  BY <1>1, <1>2, PTL DEF ImportsSpec

(***************************************************************************)
(* A create under no key fails for want of a number only if as many other  *)
(* documents as it had attempts were inserted while it ran; a purchase     *)
(* order, if one was, or after a removal; a quote, also beside imported    *)
(* quotes.  (create of the four services, with their retries on P2002.)    *)
(***************************************************************************)
THEOREM CreatesFailOnlyCrowded == ImportsSpec => []FailsOnlyWhenCrowded
<1>1. DayInv => FailsOnlyWhenCrowded
  <2> SUFFICES ASSUME DayInv, NEW r \in Requests, req[r].pc = "failed", req[r].key = NoKey,
                      ~\E d \in docs : d.by = r
               PROVE  IF req[r].kind = "purchaseOrder"
                      THEN \/ req[r].rivals # {}
                           \/ \E d \in Rows("purchaseOrder") : ~d.live
                      ELSE \/ Cardinality(req[r].rivals) >= MaxAttempts[req[r].kind]
                           \/ \E d \in Rows(Table(req[r].kind)) : d.by \notin Requests
    BY DEF FailsOnlyWhenCrowded
  <2>1. CrowdOK(r) /\ ~Inserted(r)
    BY DEF DayInv, ReqOK, Inserted
  <2>2. QED
    BY <2>1 DEF CrowdOK, Clear, Ours, Inserters
<1>2. QED
  BY <1>1, DayInvariant, PTL

(***************************************************************************)
(* A create inserts at most one document, however often it retries; one    *)
(* that is answered as done has its document, complete with what a second  *)
(* statement adds; one that is answered with an existing document is       *)
(* answered with one of its key.                                           *)
(***************************************************************************)
THEOREM CreatesAnsweredOnce == ImportsSpec => []AnsweredWithOneDocument
<1>1. DayInv => AnsweredWithOneDocument
  <2> SUFFICES ASSUME DayInv, NEW r \in Requests
               PROVE  /\ Cardinality({d \in docs : d.by = r}) <= 1
                      /\ req[r].pc = "done" => \E d \in docs : d.by = r /\ d.whole
                      /\ req[r].pc = "found" => \E d \in Rows(Table(req[r].kind)) :
                                                  d.key = req[r].key
    BY DEF AnsweredWithOneDocument
  <2>1. Cardinality({d \in docs : d.by = r}) <= 1
    <3> DEFINE M == {d \in docs : d.by = r}
    <3>1. M = {} \/ \E d : M = {d}
      BY DEF DayInv, DocsOK
    <3> HIDE DEF M
    <3>2. Cardinality({}) = 0 /\ \A d : Cardinality({d}) = 1
      BY FS_EmptySet, FS_Singleton
    <3>3. Cardinality(M) = 0 \/ Cardinality(M) = 1
      BY <3>1, <3>2
    <3>4. QED
      BY <3>3 DEF M
  <2>2. QED
    BY <2>1 DEF DayInv, ReqOK, AnswerOK
<1>2. QED
  BY <1>1, DayInvariant, PTL
-----------------------------------------------------------------------------
(* The columns.  The fields of an import's record, and of a record of a    *)
(* firm, contact, product or interaction.                                  *)
Columned == {"pc", "kind", "file", "at", "of", "who", "opened", "quote", "byCode", "byName",
             "made", "changed", "errors", "renamed", "again", "alone"}
Parts == {"kind", "id", "name", "code", "of", "who", "keys", "live"}
FileKinds == {"accounts", "contacts", "products", "interactions", "quotes"}

\* No record has the id of a row from n on.
Unused(i, s, n) == \A x \in recs : \A k \in Nat : k >= n => x.id # <<i, k, s>>

(* Which ids an import will not give twice: those of the rows it has yet   *)
(* to come to.                                                             *)
FreshIds(i) ==
  LET q == imp[i] IN
  /\ q.pc = "idle" => \A s : Unused(i, s, 0)
  /\ q.pc = "load" =>
       /\ Unused(i, "row", 0)
       /\ q.kind = "interactions" => Unused(i, "firm", 0) /\ Unused(i, "person", 0)
  /\ q.pc \in {"firm", "open"} =>
       /\ Unused(i, "firm", q.at)
       /\ q.kind = "contacts" => Unused(i, "row", 0)
       /\ q.kind # "contacts" => Unused(i, "row", q.at)
       /\ q.kind = "interactions" => Unused(i, "person", q.at)
  /\ q.pc \in {"person", "add person"} =>
       Unused(i, "firm", q.at + 1) /\ Unused(i, "person", q.at) /\ Unused(i, "row", q.at)
  /\ q.pc = "row" =>
       /\ Unused(i, "row", q.at)
       /\ q.kind = "interactions" =>
            Unused(i, "firm", q.at + 1) /\ Unused(i, "person", q.at + 1)
       /\ q.kind = "quotes" => Unused(i, "firm", q.at)

\* Where an import of each kind can be.
PlaceOK(q) ==
  /\ DOMAIN q = Columned /\ q.kind \in FileKinds /\ q.at \in Nat /\ DOMAIN q.file \subseteq Nat
  /\ q.pc = "firm" => q.kind \in {"contacts", "interactions", "quotes"}
  /\ q.pc = "open" => q.kind \in {"contacts", "interactions"}
  /\ q.pc \in {"person", "add person"} => q.kind = "interactions"
  /\ q.pc = "load" => q.kind # "quotes"

RecordsOK ==
  /\ \A x \in recs : DOMAIN x = Parts
  /\ \A x, y \in recs : x.kind = y.kind /\ x.id = y.id => x = y

ImportsOK ==
  /\ offer \in Offers
  /\ DOMAIN imp = Importers
  /\ \A i \in Importers : PlaceOK(imp[i]) /\ FreshIds(i)

\* An import that runs and is alone is the only one to run.
Solitary == \A i \in Importers : imp[i].alone /\ Running(i) =>
              \A j \in Importers \ {i} : ~Running(j)

(* The copies of an import that is alone are the records themselves.       *)
Exact(q) ==
  /\ \A k \in DOMAIN q.byCode :
       /\ q.byCode[k] \in recs /\ q.byCode[k].kind = q.kind
       /\ q.byCode[k].code = k /\ k # None
  /\ \A k \in DOMAIN q.byName :
       /\ q.byName[k] \in recs /\ q.byName[k].kind = q.kind
       /\ HasKey(q.byName[k]) /\ KeyOf(q.byName[k]) = k

QuoteRead(q) ==
  q.kind = "quotes" /\ q.pc = "row" /\ q.quote # None =>
    q.quote \in Rows("quote") /\ q.quote.number = q.file[q.at].name

Copies == \A i \in Importers :
            imp[i].alone /\ Running(i) =>
              (~imp[i].renamed => Exact(imp[i])) /\ QuoteRead(imp[i])
-----------------------------------------------------------------------------
LEMMA LeastRow ==
  ASSUME NEW S, S \subseteq Nat, S # {}
  PROVE  \E m \in S : \A o \in S : m <= o
<1>1. PICK m \in S : \A o \in S : ~(<<o, m>> \in OpToRel(<, Nat))
  BY NatLessThanWellFounded, WFMin
<1>2. \A o \in S : ~(o < m)
  BY <1>1 DEF OpToRel
<1>3. QED
  BY <1>2

LEMMA OnwardGoes ==
  ASSUME NEW q, PlaceOK(q), NEW n \in Nat, NEW p, p = Onward(q, n)
  PROVE  /\ DOMAIN p = Columned /\ \A f \in Columned \ {"pc", "at"} : p[f] = q[f]
         /\ \/ p.pc = "clear" /\ p.at = q.at
            \/ /\ p.at \in Nat /\ p.at > n
               /\ p.pc = IF q.kind \in {"interactions", "quotes"} THEN "firm" ELSE "row"
<1> DEFINE rest == {m \in Valid(q) : m > n}
<1>1. CASE rest = {}
  BY <1>1 DEF Onward, PlaceOK, Columned
<1>2. CASE rest # {}
  <2> DEFINE least == CHOOSE m \in rest : \A o \in rest : m <= o
  <2>1. rest \subseteq Nat
    BY DEF Valid, PlaceOK
  <2>2. least \in rest
    <3> HIDE DEF rest
    <3>1. \E m \in rest : \A o \in rest : m <= o
      BY <1>2, <2>1, LeastRow
    <3>2. QED
      BY <3>1
  <2>3. least \in Nat /\ least > n
    BY <2>1, <2>2
  <2>4. p = [q EXCEPT !.at = least,
                 !.pc = IF q.kind \in {"interactions", "quotes"} THEN "firm" ELSE "row"]
    BY <1>2 DEF Onward
  <2> HIDE DEF least
  <2>5. QED
    BY <2>3, <2>4 DEF PlaceOK, Columned
<1>3. QED
  BY <1>1, <1>2
-----------------------------------------------------------------------------
(* Ids.                                                                    *)
IdsStay(i) == \A s : \A n \in Nat : Unused(i, s, n) => Unused(i, s, n)'

LEMMA IdsKept ==
  ASSUME \A x \in recs' : \E y \in recs : y.id = x.id
  PROVE  \A i : IdsStay(i)
  BY DEF Unused, IdsStay

LEMMA IdAdded ==
  ASSUME NEW i, NEW k \in Nat, NEW s,
         \A x \in recs' : (\E y \in recs : y.id = x.id) \/ x.id = <<i, k, s>>
  PROVE  \A j, t : \A n \in Nat :
           Unused(j, t, n) /\ (j # i \/ t # s \/ n > k) => Unused(j, t, n)'
  BY DEF Unused

LEMMA IdsLater ==
  ASSUME NEW i, NEW s, NEW n \in Nat, Unused(i, s, n)
  PROVE  \A m \in Nat : m >= n => Unused(i, s, m)
  BY DEF Unused

LEMMA FreshKept ==
  ASSUME NEW j, FreshIds(j), PlaceOK(imp[j]),
         imp'[j].pc = imp[j].pc, imp'[j].kind = imp[j].kind, imp'[j].at = imp[j].at,
         IdsStay(j)
  PROVE  FreshIds(j)'
<1> DEFINE q == imp[j]
<1>1. q.at \in Nat
  BY DEF PlaceOK
<1>2. q.at + 1 \in Nat /\ 0 \in Nat
  BY <1>1
<1>3. QED
  BY <1>1, <1>2 DEF FreshIds, IdsStay

\* A new record under an id that was free.
LEMMA RecordAdded ==
  ASSUME RecordsOK, NEW i, NEW k \in Nat, NEW s, NEW new, DOMAIN new = Parts,
         new.id = <<i, k, s>>, Unused(i, s, k), recs' = recs \union {new}
  PROVE  /\ RecordsOK'
         /\ \A j : j # i => IdsStay(j)
         /\ \A t : \A n \in Nat : Unused(i, t, n) /\ (t # s \/ n > k) => Unused(i, t, n)'
<1>1. \A x \in recs : x.id # new.id
  BY DEF Unused
<1>2. RecordsOK'
  BY <1>1 DEF RecordsOK
<1>3. \A x \in recs' : (\E y \in recs : y.id = x.id) \/ x.id = <<i, k, s>>
  OBVIOUS
<1>4. \A j, t : \A n \in Nat : Unused(j, t, n) /\ (j # i \/ t # s \/ n > k) => Unused(j, t, n)'
  BY <1>3, IdAdded
<1>5. QED
  BY <1>2, <1>4 DEF IdsStay

LEMMA RecordsSame ==
  ASSUME RecordsOK, recs' = recs
  PROVE  RecordsOK' /\ \A j : IdsStay(j)
<1>1. \A x \in recs' : \E y \in recs : y.id = x.id
  OBVIOUS
<1>2. QED
  BY <1>1, IdsKept DEF RecordsOK
-----------------------------------------------------------------------------
(* The steps of an import.                                                 *)
Turns(i) ==
  /\ Running(i) /\ UNCHANGED offer
  /\ DOMAIN imp' = Importers /\ \A j \in Importers \ {i} : imp'[j] = imp[j]
  /\ imp'[i].alone = imp[i].alone /\ imp'[i].kind = imp[i].kind

\* What a step leaves of the ids and records.
Orders(i) ==
  /\ RecordsOK' /\ \A j \in Importers \ {i} : IdsStay(j)
  /\ PlaceOK(imp'[i]) /\ FreshIds(i)'

\* What it leaves of the copies of an import that is alone.
Agrees(i) ==
  imp[i].alone /\ ~imp'[i].renamed => ~imp[i].renamed /\ (Exact(imp[i]) => Exact(imp[i])')

\* Nothing changes but some of the fields.
Stay(q, p, fields) == \A f \in Columned \ fields : p[f] = q[f]

Only(i, fields) ==
  /\ DOMAIN imp' = Importers /\ \A j \in Importers \ {i} : imp'[j] = imp[j]
  /\ DOMAIN imp'[i] = Columned /\ Stay(imp[i], imp'[i], fields)

LEMMA AfterFirmGoes ==
  ASSUME NEW q, PlaceOK(q), q.kind \in {"contacts", "interactions"}, NEW of, NEW there,
         NEW p, p = AfterFirm(q, of, there)
  PROVE  /\ DOMAIN p = Columned /\ Stay(q, p, {"pc", "at", "of", "errors"})
         /\ \/ q.kind = "interactions" /\ p.at = q.at /\ p.pc \in {"row", "person"}
            \/ q.kind = "contacts" /\ p.at = q.at + 1 /\ p.pc = "firm"
            \/ q.kind = "contacts" /\ p.at = q.at /\ p.pc \in {"load", "clear"}
<1>1. DOMAIN q = Columned
  BY DEF PlaceOK
<1>2. CASE q.kind = "interactions"
  BY <1>1, <1>2 DEF AfterFirm, Columned, Stay
<1>3. CASE q.kind = "contacts"
  BY <1>1, <1>3 DEF AfterFirm, Columned, Stay
<1>4. QED
  BY <1>2, <1>3

LEMMA ExactStays ==
  ASSUME NEW i, recs \subseteq recs', imp'[i].byCode = imp[i].byCode,
         imp'[i].byName = imp[i].byName, imp'[i].kind = imp[i].kind,
         imp'[i].renamed = imp[i].renamed
  PROVE  Agrees(i)
  BY DEF Agrees, Exact, HasKey, KeyOf, NameKey

LEMMA AfterFirmIsFresh ==
  ASSUME NEW i \in Importers, PlaceOK(imp[i]), FreshIds(i), imp[i].pc \in {"firm", "open"},
         NEW q, PlaceOK(q), Stay(imp[i], q, {"opened"}),
         q.kind \in {"contacts", "interactions"}, NEW of, NEW there,
         imp'[i] = AfterFirm(q, of, there),
         \A t : \A n \in Nat : Unused(i, t, n) /\ (t # "firm" \/ n > q.at) => Unused(i, t, n)'
  PROVE  PlaceOK(imp'[i]) /\ FreshIds(i)'
<1> DEFINE p == imp'[i]
<1>1. /\ DOMAIN p = Columned /\ Stay(q, p, {"pc", "at", "of", "errors"})
      /\ \/ q.kind = "interactions" /\ p.at = q.at /\ p.pc \in {"row", "person"}
         \/ q.kind = "contacts" /\ p.at = q.at + 1 /\ p.pc = "firm"
         \/ q.kind = "contacts" /\ p.at = q.at /\ p.pc \in {"load", "clear"}
  BY AfterFirmGoes
<1>2. q.kind = imp[i].kind /\ q.at = imp[i].at /\ p.kind = q.kind /\ p.file = q.file
  BY <1>1 DEF Stay, Columned
<1>3. q.at \in Nat /\ DOMAIN q.file \subseteq Nat
  BY DEF PlaceOK
<1>4. q.at + 1 \in Nat /\ q.at + 1 > q.at
  BY <1>3
<1>5. PlaceOK(p)
  <2> HIDE DEF p
  <2>1. p.at \in Nat
    BY <1>1, <1>3, <1>4
  <2>2. QED
    BY <1>1, <1>2, <1>3, <2>1 DEF PlaceOK, FileKinds
<1>6. /\ Unused(i, "firm", q.at)
      /\ q.kind = "contacts" => Unused(i, "row", 0)
      /\ q.kind # "contacts" => Unused(i, "row", q.at)
      /\ q.kind = "interactions" => Unused(i, "person", q.at)
  BY <1>2 DEF FreshIds
<1>7. Unused(i, "firm", q.at + 1) /\ (q.kind = "interactions" => Unused(i, "person", q.at + 1))
  BY <1>3, <1>4, <1>6, IdsLater
<1>8. /\ Unused(i, "firm", q.at + 1)'
      /\ q.kind = "contacts" => Unused(i, "row", 0)'
      /\ q.kind # "contacts" => Unused(i, "row", q.at)'
      /\ q.kind = "interactions" => Unused(i, "person", q.at)' /\ Unused(i, "person", q.at + 1)'
  BY <1>3, <1>4, <1>6, <1>7
<1>9. QED
  BY <1>1, <1>2, <1>5, <1>8 DEF FreshIds

LEMMA StepsOfFirms ==
  ASSUME ImportsOK, RecordsOK, NEW i \in Importers, FindFirm(i)
  PROVE  Turns(i) /\ Orders(i) /\ Agrees(i)
<1> DEFINE q == imp[i]
           line == q.file[q.at]
<1>0. /\ PlaceOK(q) /\ FreshIds(i) /\ DOMAIN imp = Importers
      /\ q.pc = "firm" /\ q.kind # "quotes" /\ recs' = recs /\ UNCHANGED offer
  BY DEF ImportsOK, FindFirm
<1>1. q.kind \in {"contacts", "interactions"} /\ DOMAIN q = Columned
  BY <1>0 DEF PlaceOK
<1>2. \A t : \A n \in Nat : Unused(i, t, n) => Unused(i, t, n)'
  BY <1>0, RecordsSame DEF IdsStay
<1>3. RecordsOK' /\ \A j : IdsStay(j)
  BY <1>0, RecordsSame
<1>4. CASE \E id, there, opened :
             imp' = [imp EXCEPT ![i] = AfterFirm([q EXCEPT !.opened = opened], id, there)]
  <2>1. PICK id, there, opened :
             imp' = [imp EXCEPT ![i] = AfterFirm([q EXCEPT !.opened = opened], id, there)]
    BY <1>4
  <2> DEFINE r == [q EXCEPT !.opened = opened]
  <2>2. PlaceOK(r) /\ Stay(q, r, {"opened"}) /\ r.kind = q.kind
    BY <1>0, <1>1 DEF PlaceOK, Stay, Columned
  <2>3. /\ imp'[i] = AfterFirm(r, id, there) /\ DOMAIN imp' = Importers
        /\ \A j \in Importers \ {i} : imp'[j] = imp[j]
    BY <1>0, <2>1
  <2> HIDE DEF r
  <2>4. PlaceOK(imp'[i]) /\ FreshIds(i)'
    BY <1>0, <1>1, <1>2, <2>2, <2>3, AfterFirmIsFresh
  <2>5. Stay(r, imp'[i], {"pc", "at", "of", "errors"})
    BY <1>1, <2>2, <2>3, AfterFirmGoes
  <2>6. Agrees(i)
    <3>1. \A f \in {"byCode", "byName", "kind", "renamed"} : imp'[i][f] = q[f]
      BY <2>2, <2>5 DEF Stay, Columned
    <3>2. QED
      BY <1>0, <3>1, ExactStays
  <2>7. imp'[i].alone = q.alone /\ imp'[i].kind = q.kind
    BY <2>2, <2>5 DEF Stay, Columned
  <2>8. QED
    BY <1>0, <1>3, <2>3, <2>4, <2>6, <2>7 DEF Turns, Orders, Running
<1>5. CASE imp' = [imp EXCEPT ![i] = [q EXCEPT !.pc = "open"]]
  <2>1. /\ imp'[i] = [q EXCEPT !.pc = "open"] /\ DOMAIN imp' = Importers
        /\ \A j \in Importers \ {i} : imp'[j] = imp[j]
    BY <1>0, <1>5
  <2>2. DOMAIN imp'[i] = Columned /\ Stay(q, imp'[i], {"pc"}) /\ imp'[i].pc = "open"
    BY <1>1, <2>1 DEF Stay, Columned
  <2>3. \A f \in {"byCode", "byName", "kind", "renamed", "alone", "at", "file"} :
          imp'[i][f] = q[f]
    BY <2>2 DEF Stay, Columned
  <2>4. PlaceOK(imp'[i])
    BY <1>0, <1>1, <2>2, <2>3 DEF PlaceOK
  <2>5. FreshIds(i)'
    <3>1. q.at \in Nat
      BY <1>0 DEF PlaceOK
    <3>2. QED
      BY <1>0, <1>2, <2>2, <2>3, <3>1 DEF FreshIds
  <2>6. Agrees(i)
    BY <1>0, <2>3, ExactStays
  <2>7. QED
    BY <1>0, <1>3, <2>1, <2>3, <2>4, <2>5, <2>6 DEF Turns, Orders, Running
<1>6. QED
  <2> DEFINE opened(id) == IF line.firm = None THEN q.opened
                           ELSE q.opened \union {[name |-> line.firm, id |-> id]}
             there(id) == id = None \/ \E x \in Live("accounts") : x.id = id
  <2>1. ASSUME NEW id, imp' = [imp EXCEPT ![i] =
                         AfterFirm([q EXCEPT !.opened = opened(id)], id, there(id))]
        PROVE  \E it, where, what :
             imp' = [imp EXCEPT ![i] = AfterFirm([q EXCEPT !.opened = what], it, where)]
    BY <2>1, Zenon
  <2>2. \/ \E id : imp' = [imp EXCEPT ![i] =
                         AfterFirm([q EXCEPT !.opened = opened(id)], id, there(id))]
        \/ imp' = [imp EXCEPT ![i] = [q EXCEPT !.pc = "open"]]
    BY Zenon DEF FindFirm
  <2>3. QED
    BY <1>4, <1>5, <2>1, <2>2, Zenon

LEMMA StepsOfOpening ==
  ASSUME ImportsOK, RecordsOK, NEW i \in Importers, OpenFirm(i)
  PROVE  Turns(i) /\ Orders(i) /\ Agrees(i)
<1> DEFINE q == imp[i]
           firm == Firm(i, q.file[q.at].firm)
           r == [q EXCEPT !.opened = @ \union {[name |-> firm.name, id |-> firm.id]}]
<1>0. /\ PlaceOK(q) /\ FreshIds(i) /\ DOMAIN imp = Importers
      /\ q.pc = "open" /\ recs' = recs \union {firm} /\ UNCHANGED offer
      /\ imp' = [imp EXCEPT ![i] = AfterFirm(r, firm.id, TRUE)]
  BY DEF ImportsOK, OpenFirm
<1>1. q.kind \in {"contacts", "interactions"} /\ DOMAIN q = Columned /\ q.at \in Nat
  BY <1>0 DEF PlaceOK
<1>2. DOMAIN firm = Parts /\ firm.id = <<i, q.at, "firm">> /\ Unused(i, "firm", q.at)
  BY <1>0 DEF Firm, Record, Parts, FreshIds
<1>3. PlaceOK(r) /\ Stay(q, r, {"opened"}) /\ r.kind = q.kind /\ r.at = q.at
  BY <1>0, <1>1 DEF PlaceOK, Stay, Columned
<1>4. /\ imp'[i] = AfterFirm(r, firm.id, TRUE) /\ DOMAIN imp' = Importers
      /\ \A j \in Importers \ {i} : imp'[j] = imp[j]
  BY <1>0
<1> HIDE DEF r, firm
<1>5. /\ RecordsOK' /\ \A j : j # i => IdsStay(j)
      /\ \A t : \A n \in Nat : Unused(i, t, n) /\ (t # "firm" \/ n > q.at) => Unused(i, t, n)'
  BY <1>0, <1>1, <1>2, RecordAdded
<1>6. PlaceOK(imp'[i]) /\ FreshIds(i)'
  BY <1>0, <1>1, <1>3, <1>4, <1>5, AfterFirmIsFresh
<1>7. Stay(r, imp'[i], {"pc", "at", "of", "errors"})
  <2>1. r.kind \in {"contacts", "interactions"}
    BY <1>1, <1>3
  <2>2. PICK id, there : imp'[i] = AfterFirm(r, id, there)
    BY <1>4, Zenon
  <2>3. QED
    BY <1>3, <2>1, <2>2, AfterFirmGoes
<1>8. \A f \in {"byCode", "byName", "kind", "renamed", "alone"} : imp'[i][f] = q[f]
  BY <1>3, <1>7 DEF Stay, Columned
<1>9. Agrees(i)
  BY <1>0, <1>8, ExactStays
<1>10. QED
  BY <1>0, <1>4, <1>5, <1>6, <1>8, <1>9 DEF Turns, Orders, Running

LEMMA StepsOfPersons ==
  ASSUME ImportsOK, RecordsOK, NEW i \in Importers, FindPerson(i) \/ AddPerson(i)
  PROVE  Turns(i) /\ Orders(i) /\ Agrees(i)
<1> DEFINE q == imp[i]
           p == imp'[i]
           id == <<i, q.at, "person">>
           new == Record("contacts", id, q.file[q.at].person, None, q.of[q.at], None, {})
<1>0. /\ PlaceOK(q) /\ FreshIds(i) /\ DOMAIN imp = Importers /\ UNCHANGED offer
      /\ q.pc \in {"person", "add person"}
  BY DEF ImportsOK, FindPerson, AddPerson
<1>1. q.kind = "interactions" /\ DOMAIN q = Columned /\ q.at \in Nat
  BY <1>0 DEF PlaceOK
<1>2. Only(i, {"pc", "who", "of"})
  <2>1. CASE FindPerson(i)
    <3>1. \/ \E x : imp' = [imp EXCEPT ![i] = [q EXCEPT !.pc = "row", !.who = x.id,
                                 !.of[q.at] = IF @ = None THEN x.of ELSE @]]
          \/ imp' = [imp EXCEPT ![i].pc = "add person"]
      BY <2>1, Zenon DEF FindPerson
    <3>2. ASSUME NEW x, imp' = [imp EXCEPT ![i] = [q EXCEPT !.pc = "row", !.who = x.id,
                                 !.of[q.at] = IF @ = None THEN x.of ELSE @]]
          PROVE  Only(i, {"pc", "who", "of"})
      BY <1>0, <1>1, <3>2 DEF Only, Stay, Columned
    <3>3. ASSUME imp' = [imp EXCEPT ![i].pc = "add person"]
          PROVE  Only(i, {"pc", "who", "of"})
      BY <1>0, <1>1, <3>3 DEF Only, Stay, Columned
    <3>4. QED
      BY <3>1, <3>2, <3>3
  <2>2. CASE AddPerson(i)
    BY <1>0, <1>1, <2>2 DEF AddPerson, Only, Stay, Columned
  <2>3. QED
    BY <2>1, <2>2
<1>b. /\ DOMAIN imp' = Importers /\ \A j \in Importers \ {i} : imp'[j] = imp[j]
      /\ DOMAIN p = Columned
      /\ \A f \in {"byCode", "byName", "kind", "renamed", "alone", "at", "file"} : p[f] = q[f]
  BY <1>2 DEF Only, Stay, Columned
<1>3. \/ recs' = recs /\ p.pc \in {"row", "add person"}
      \/ recs' = recs \union {new} /\ p.pc = "row"
  BY <1>0, <1>1 DEF FindPerson, AddPerson, Columned
<1>4. DOMAIN new = Parts /\ new.id = id
  BY DEF Record, Parts
<1>5. /\ Unused(i, "firm", q.at + 1) /\ Unused(i, "person", q.at) /\ Unused(i, "row", q.at)
  BY <1>0 DEF FreshIds
<1>a. q.at + 1 \in Nat /\ q.at + 1 > q.at
  BY <1>1
<1>6. Unused(i, "person", q.at + 1)
  BY <1>1, <1>5, <1>a, IdsLater
<1> HIDE DEF new
<1>7. /\ RecordsOK' /\ \A j : j # i => IdsStay(j)
      /\ \A t : \A n \in Nat :
           Unused(i, t, n) /\ (recs' = recs \/ t # "person" \/ n > q.at) => Unused(i, t, n)'
  <2>1. CASE recs' = recs
    BY <2>1, RecordsSame DEF IdsStay
  <2>2. CASE recs' = recs \union {new}
    <3>1. /\ RecordsOK' /\ \A j : j # i => IdsStay(j)
          /\ \A t : \A n \in Nat : Unused(i, t, n) /\ (t # "person" \/ n > q.at) => Unused(i, t, n)'
      BY <1>1, <1>4, <1>5, <2>2, RecordAdded
    <3>2. recs' # recs
      BY <1>1, <1>4, <1>5, <2>2 DEF Unused
    <3>3. QED
      BY <3>1, <3>2
  <2>3. QED
    BY <1>3, <2>1, <2>2
<1>8. PlaceOK(p)
  <2> HIDE DEF p, q
  <2>1. p.pc \in {"row", "add person"}
    BY <1>3
  <2>2. QED
    BY <1>0, <1>1, <1>b, <2>1 DEF PlaceOK, FileKinds
<1>9. FreshIds(i)'
  <2>1. PICK n \in Nat : n = q.at
    BY <1>1
  <2>2. /\ Unused(i, "firm", n + 1)' /\ Unused(i, "row", n)'
        /\ Unused(i, "person", n + 1)' /\ (recs' = recs => Unused(i, "person", n)')
    BY <1>5, <1>6, <1>7, <1>a, <2>1
  <2>3. p.pc = "row" \/ (p.pc = "add person" /\ recs' = recs)
    BY <1>3
  <2>4. p.at = n /\ p.kind = "interactions"
    BY <1>1, <1>b, <2>1
  <2>5. QED
    BY <2>2, <2>3, <2>4 DEF FreshIds
<1>10. Agrees(i)
  BY <1>b, <1>3, ExactStays
<1>11. QED
  BY <1>0, <1>b, <1>7, <1>8, <1>9, <1>10 DEF Turns, Orders, Running

LEMMA OnwardPlaced ==
  ASSUME NEW q, PlaceOK(q), NEW n \in Nat, NEW p, p = Onward(q, n)
  PROVE  PlaceOK(p) /\ Stay(q, p, {"pc", "at"})
<1>1. /\ DOMAIN p = Columned /\ \A f \in Columned \ {"pc", "at"} : p[f] = q[f]
      /\ \/ p.pc = "clear" /\ p.at = q.at
         \/ /\ p.at \in Nat /\ p.at > n
            /\ p.pc = IF q.kind \in {"interactions", "quotes"} THEN "firm" ELSE "row"
  BY OnwardGoes
<1>2. p.kind = q.kind /\ p.file = q.file
  BY <1>1 DEF Columned
<1>3. p.at \in Nat
  BY <1>1 DEF PlaceOK
<1>4. QED
  BY <1>1, <1>2, <1>3 DEF PlaceOK, Stay, FileKinds

LEMMA StepsOfLoading ==
  ASSUME ImportsOK, RecordsOK, NEW i \in Importers, Load(i)
  PROVE  Turns(i) /\ Orders(i) /\ Agrees(i)
<1> DEFINE q == imp[i]
           p == imp'[i]
<1>0. /\ PlaceOK(q) /\ FreshIds(i) /\ DOMAIN imp = Importers
      /\ q.pc = "load" /\ recs' = recs /\ UNCHANGED offer
  BY DEF ImportsOK, Load
<1>1. q.kind # "quotes" /\ DOMAIN q = Columned
  BY <1>0 DEF PlaceOK
<1>2. PICK byCode \in Maps({x \in Live(q.kind) : x.code # None}, Code),
           byName \in Maps({x \in Live(q.kind) : HasKey(x)}, KeyOf) :
        imp' = [imp EXCEPT ![i] = Onward([q EXCEPT !.byCode = byCode, !.byName = byName], 0)]
  BY Zenon DEF Load
<1> DEFINE r == [q EXCEPT !.byCode = byCode, !.byName = byName]
<1>3. /\ PlaceOK(r) /\ Stay(q, r, {"byCode", "byName"}) /\ r.kind = q.kind
      /\ r.byCode = byCode /\ r.byName = byName
  BY <1>0, <1>1 DEF PlaceOK, Stay, Columned
<1>4. /\ imp'[i] = Onward(r, 0) /\ DOMAIN imp' = Importers
      /\ \A j \in Importers \ {i} : imp'[j] = imp[j]
  BY <1>0, <1>2
<1> HIDE DEF r
<1>5. PlaceOK(p) /\ Stay(r, p, {"pc", "at"})
  BY <1>3, <1>4, OnwardPlaced
<1>6. \/ p.pc = "clear"
      \/ /\ p.at \in Nat /\ p.at > 0
         /\ p.pc = IF q.kind = "interactions" THEN "firm" ELSE "row"
  BY <1>1, <1>3, <1>4, OnwardGoes
<1>7. RecordsOK' /\ \A j : IdsStay(j)
  BY <1>0, RecordsSame
<1>8. \A f \in {"kind", "renamed", "alone"} : p[f] = q[f]
  BY <1>3, <1>5 DEF Stay, Columned
<1>9. p.byCode = byCode /\ p.byName = byName
  BY <1>3, <1>5 DEF Stay, Columned
<1>10. FreshIds(i)'
  <2>1. CASE p.pc = "clear"
    BY <2>1 DEF FreshIds
  <2>2. CASE p.pc # "clear"
    <3>1. PICK n \in Nat : n = p.at /\ n >= 0
      BY <1>6, <2>2
    <3>2. Unused(i, "row", 0) /\ (q.kind = "interactions" => Unused(i, "firm", 0) /\ Unused(i, "person", 0))
      BY <1>0 DEF FreshIds
    <3>3. Unused(i, "row", n) /\ (q.kind = "interactions" => Unused(i, "firm", n) /\ Unused(i, "person", n))
      BY <3>1, <3>2, IdsLater
    <3>4. /\ Unused(i, "row", n)'
          /\ q.kind = "interactions" => Unused(i, "firm", n)' /\ Unused(i, "person", n)'
      BY <1>7, <3>3 DEF IdsStay
    <3>5. p.kind = q.kind
      BY <1>8
    <3>6. QED
      BY <1>1, <1>6, <2>2, <3>1, <3>4, <3>5 DEF FreshIds
  <2>3. QED
    BY <2>1, <2>2
<1>11. Exact(imp[i])'
  <2>1. /\ \A k \in DOMAIN byCode : /\ byCode[k] \in recs /\ byCode[k].kind = q.kind
                                    /\ byCode[k].code = k /\ k # None
    BY <1>2 DEF Maps, Code, Live
  <2>2. /\ \A k \in DOMAIN byName : /\ byName[k] \in recs /\ byName[k].kind = q.kind
                                    /\ HasKey(byName[k]) /\ KeyOf(byName[k]) = k
    BY <1>2 DEF Maps, Live
  <2>3. p.kind = q.kind
    BY <1>8
  <2>4. QED
    BY <1>0, <1>9, <2>1, <2>2, <2>3 DEF Exact
<1>12. QED
  BY <1>0, <1>4, <1>5, <1>7, <1>8, <1>10, <1>11 DEF Turns, Orders, Agrees, Running

LEMMA StepsOfQuoteReads ==
  ASSUME ImportsOK, RecordsOK, NEW i \in Importers, FindQuote(i)
  PROVE  Turns(i) /\ Orders(i) /\ Agrees(i) /\ QuoteRead(imp[i])'
<1> DEFINE q == imp[i]
           p == imp'[i]
           same == {d \in Rows("quote") : d.live /\ d.number = q.file[q.at].name}
<1>0. /\ PlaceOK(q) /\ FreshIds(i) /\ DOMAIN imp = Importers
      /\ q.pc = "firm" /\ q.kind = "quotes" /\ recs' = recs /\ UNCHANGED offer
  BY DEF ImportsOK, FindQuote
<1>1. DOMAIN q = Columned
  BY <1>0 DEF PlaceOK
<1>2. PICK id : imp' = [imp EXCEPT ![i] =
         [q EXCEPT !.pc = "row", !.of[q.at] = id,
                   !.quote = IF same = {} THEN None ELSE CHOOSE d \in same : TRUE]]
  BY Zenon DEF FindQuote
<1> DEFINE found == IF same = {} THEN None ELSE CHOOSE d \in same : TRUE
<1>3. found = None \/ found \in same
  OBVIOUS
<1> HIDE DEF found
<1>4. /\ Only(i, {"pc", "of", "quote"}) /\ p.pc = "row" /\ p.quote = found
  BY <1>0, <1>1, <1>2 DEF Only, Stay, Columned, found
<1>5. \A f \in {"byCode", "byName", "kind", "renamed", "alone", "at", "file"} : p[f] = q[f]
  BY <1>4 DEF Only, Stay, Columned
<1>6. RecordsOK' /\ \A j : IdsStay(j)
  BY <1>0, RecordsSame
<1>7. PlaceOK(p)
  BY <1>0, <1>4, <1>5 DEF PlaceOK, Only
<1>8. FreshIds(i)'
  <2>1. PICK n \in Nat : n = q.at
    BY <1>0 DEF PlaceOK
  <2>2. Unused(i, "firm", n) /\ Unused(i, "row", n)
    BY <1>0, <2>1 DEF FreshIds
  <2>3. Unused(i, "firm", n)' /\ Unused(i, "row", n)'
    BY <1>6, <2>2 DEF IdsStay
  <2>4. p.at = n /\ p.kind = "quotes"
    BY <1>0, <1>5, <2>1
  <2>5. QED
    BY <1>4, <2>3, <2>4 DEF FreshIds
<1>9. Agrees(i)
  BY <1>0, <1>5, ExactStays
<1>10. QuoteRead(imp[i])'
  <2>1. docs' = docs
    BY DEF FindQuote, vars
  <2>2. found # None => found \in Rows("quote")' /\ found.number = q.file[q.at].name
    BY <1>3, <2>1 DEF Rows
  <2>3. p.quote = found /\ p.file = q.file /\ p.at = q.at
    BY <1>4, <1>5
  <2>4. QED
    BY <2>2, <2>3 DEF QuoteRead
<1>11. QED
  BY <1>0, <1>4, <1>5, <1>6, <1>7, <1>8, <1>9, <1>10 DEF Turns, Orders, Only, Running

-----------------------------------------------------------------------------
(* The rows.                                                               *)
RowKinds == FileKinds \ {"quotes"}

\* What an update makes of a record.
LEMMA WrittenKeeps ==
  ASSUME NEW q, q.kind \in RowKinds, NEW old, DOMAIN old = Parts, NEW copy,
         NEW new, new = Written(q, old, copy), NEW line, line = q.file[q.at]
  PROVE  /\ DOMAIN new = Parts /\ new.kind = old.kind /\ new.id = old.id
         /\ copy = old => old.keys \subseteq new.keys
         /\ \/ new.code = old.code
            \/ q.kind \in {"accounts", "contacts"} /\ line.code # None /\ new.code = line.code
<1>1. CASE q.kind = "accounts"
  BY <1>1 DEF Written, FirmWritten, Columns, Parts
<1>2. CASE q.kind = "contacts"
  BY <1>2 DEF Written, ContactWritten, Columns, Parts
<1>3. CASE q.kind = "products"
  BY <1>3 DEF Written, ProductWritten, Columns, Parts
<1>4. CASE q.kind = "interactions"
  BY <1>4 DEF Written, InteractionWritten, Columns, Parts
<1>5. QED
  BY <1>1, <1>2, <1>3, <1>4 DEF RowKinds, FileKinds

\* A row finds its record under the code that it names.
LEMMA MatchesAreCopies ==
  ASSUME NEW q, q.kind \in RowKinds, Exact(q), NEW copy \in Match(q),
         NEW line, line = q.file[q.at]
  PROVE  /\ copy \in recs /\ copy.kind = q.kind
         /\ q.kind \in {"accounts", "contacts"} /\ line.code # None => copy.code = line.code
<1>1. \A k : \A x \in At(q.byCode, k) : x \in recs /\ x.kind = q.kind /\ x.code = k
  BY DEF Exact, At
<1>2. \A k : \A x \in At(q.byName, k) : x \in recs /\ x.kind = q.kind
  BY DEF Exact, At
<1>3. CASE q.kind = "accounts"
  BY <1>1, <1>2, <1>3 DEF Match, FirmFound
<1>4. CASE q.kind = "contacts"
  BY <1>1, <1>2, <1>4 DEF Match, ContactFound
<1>5. CASE q.kind = "products"
  BY <1>2, <1>5 DEF Match, ProductFound
<1>6. CASE q.kind = "interactions"
  BY <1>2, <1>6 DEF Match, InteractionFound
<1>7. QED
  BY <1>3, <1>4, <1>5, <1>6 DEF RowKinds, FileKinds

\* The maps with the record that has just been written.
LEMMA NotedIsExact ==
  ASSUME NEW q, DOMAIN q = Columned, Exact(q), NEW x, x.kind = q.kind, x \in recs',
         NEW gone, recs \ gone \subseteq recs',
         \A k \in DOMAIN q.byCode : q.byCode[k] \in gone => x.code = k,
         \A k \in DOMAIN q.byName : q.byName[k] \in gone => HasKey(x) /\ KeyOf(x) = k,
         NEW i, imp'[i].byCode = Noted(q, x).byCode, imp'[i].byName = Noted(q, x).byName,
         imp'[i].kind = q.kind
  PROVE  Exact(imp[i])'
<1>1. /\ imp'[i].byCode = IF x.code = None THEN q.byCode ELSE Put(q.byCode, x.code, x)
      /\ imp'[i].byName = IF HasKey(x) THEN Put(q.byName, KeyOf(x), x) ELSE q.byName
  BY DEF Noted, Columned
<1>2. ASSUME NEW k \in DOMAIN imp'[i].byCode
      PROVE  /\ imp'[i].byCode[k] \in recs' /\ imp'[i].byCode[k].kind = q.kind
             /\ imp'[i].byCode[k].code = k /\ k # None
  <2>1. CASE imp'[i].byCode[k] = x /\ k = x.code /\ k # None
    BY <2>1
  <2>2. CASE k \in DOMAIN q.byCode /\ imp'[i].byCode[k] = q.byCode[k] /\ (k # x.code \/ x.code = None)
    BY <2>2 DEF Exact
  <2>3. QED
    BY <1>1, <2>1, <2>2 DEF Put
<1>3. ASSUME NEW k \in DOMAIN imp'[i].byName
      PROVE  /\ imp'[i].byName[k] \in recs' /\ imp'[i].byName[k].kind = q.kind
             /\ HasKey(imp'[i].byName[k]) /\ KeyOf(imp'[i].byName[k]) = k
  <2>1. CASE imp'[i].byName[k] = x /\ k = KeyOf(x) /\ HasKey(x)
    BY <2>1
  <2>2. CASE k \in DOMAIN q.byName /\ imp'[i].byName[k] = q.byName[k] /\ (k # KeyOf(x) \/ ~HasKey(x))
    BY <2>2 DEF Exact
  <2>3. QED
    BY <1>1, <2>1, <2>2 DEF Put
<1>4. QED
  BY <1>2, <1>3 DEF Exact, HasKey, KeyOf, NameKey

\* An import goes on to its next row, whose ids are free.
LEMMA RowIsDone ==
  ASSUME NEW i \in Importers, DOMAIN imp = Importers, PlaceOK(imp[i]), FreshIds(i),
         imp[i].pc = "row", NEW r, PlaceOK(r),
         Stay(imp[i], r, {"byCode", "byName", "who", "made", "changed", "errors", "renamed"}),
         imp' = [imp EXCEPT ![i] = Onward(r, imp[i].at)],
         \A t : \A n \in Nat : Unused(i, t, n) /\ n > imp[i].at => Unused(i, t, n)'
  PROVE  /\ DOMAIN imp' = Importers /\ \A j \in Importers \ {i} : imp'[j] = imp[j]
         /\ PlaceOK(imp'[i]) /\ FreshIds(i)'
         /\ imp'[i].pc # "row" \/ imp'[i].kind # "quotes"
         /\ \A f \in {"alone", "kind"} : imp'[i][f] = imp[i][f]
         /\ \A f \in {"byCode", "byName", "renamed"} : imp'[i][f] = r[f]
<1> DEFINE q == imp[i]
           p == imp'[i]
<1>1. p = Onward(r, q.at) /\ DOMAIN imp' = Importers /\ \A j \in Importers \ {i} : imp'[j] = imp[j]
  OBVIOUS
<1>2. PICK n \in Nat : n = q.at
  BY DEF PlaceOK
<1>3. PlaceOK(p) /\ Stay(r, p, {"pc", "at"})
  BY <1>1, <1>2, OnwardPlaced
<1>4. r.kind = q.kind /\ r.at = n
  BY <1>2 DEF Stay, Columned
<1>5. \/ p.pc = "clear"
      \/ /\ p.at \in Nat /\ p.at > n
         /\ p.pc = IF q.kind \in {"interactions", "quotes"} THEN "firm" ELSE "row"
  BY <1>1, <1>2, <1>4, OnwardGoes
<1>6. /\ \A f \in {"alone", "kind"} : p[f] = q[f]
      /\ \A f \in {"byCode", "byName", "renamed"} : p[f] = r[f]
  BY <1>3 DEF Stay, Columned
<1>7. FreshIds(i)'
  <2>1. CASE p.pc = "clear"
    BY <2>1 DEF FreshIds
  <2>2. CASE p.pc # "clear"
    <3>1. PICK m \in Nat : m = p.at /\ m >= n + 1 /\ m >= n /\ m > n
      BY <1>2, <1>5, <2>2
    <3>2. /\ Unused(i, "row", n)
          /\ q.kind = "interactions" => Unused(i, "firm", n + 1) /\ Unused(i, "person", n + 1)
          /\ q.kind = "quotes" => Unused(i, "firm", n)
      BY <1>2 DEF FreshIds
    <3>3. n + 1 \in Nat
      BY <1>2
    <3>4. /\ Unused(i, "row", m)
          /\ q.kind = "interactions" => Unused(i, "firm", m) /\ Unused(i, "person", m)
          /\ q.kind = "quotes" => Unused(i, "firm", m)
      BY <3>1, <3>2, <3>3, IdsLater
    <3>5. /\ Unused(i, "row", m)'
          /\ q.kind = "interactions" => Unused(i, "firm", m)' /\ Unused(i, "person", m)'
          /\ q.kind = "quotes" => Unused(i, "firm", m)'
      BY <1>2, <3>1, <3>4
    <3>6. p.kind = q.kind /\ p.pc = IF q.kind \in {"interactions", "quotes"} THEN "firm" ELSE "row"
      BY <1>5, <1>6, <2>2
    <3>7. CASE q.kind = "interactions"
      BY <3>1, <3>5, <3>6, <3>7 DEF FreshIds
    <3>8. CASE q.kind = "quotes"
      BY <3>1, <3>5, <3>6, <3>8 DEF FreshIds
    <3>9. CASE q.kind \notin {"interactions", "quotes"}
      BY <3>1, <3>5, <3>6, <3>9 DEF FreshIds
    <3>10. QED
      BY <3>7, <3>8, <3>9
  <2>3. QED
    BY <2>1, <2>2
<1>8. p.pc # "row" \/ p.kind # "quotes"
  BY <1>5, <1>6
<1>9. QED
  BY <1>1, <1>3, <1>6, <1>7, <1>8

\* The keys of the unmapped columns that a step keeps.
KeepsColumns == \A x \in recs : \E y \in recs' :
                  y.kind = x.kind /\ y.id = x.id /\ x.keys \subseteq y.keys

LEMMA StepsOfUpdates ==
  ASSUME ImportsOK, RecordsOK, NEW i \in Importers, imp[i].pc = "row", imp[i].kind # "quotes",
         NEW copy \in Match(imp[i]),
         NEW old \in recs, old.kind = imp[i].kind, old.id = copy.id,
         NEW new, new = Written(imp[i], old, copy), recs' = (recs \ {old}) \union {new},
         imp' = [imp EXCEPT ![i] =
                   Onward([Noted(imp[i], new) EXCEPT
                             !.changed = @ \union {imp[i].at},
                             !.renamed = @ \/ KeyOf(new) # KeyOf(old)], imp[i].at)],
         UNCHANGED offer
  PROVE  /\ Turns(i) /\ Orders(i) /\ Agrees(i)
         /\ Exact(imp[i]) => KeepsColumns
<1> DEFINE q == imp[i]
           line == q.file[q.at]
           r == [Noted(q, new) EXCEPT !.changed = @ \union {q.at},
                                      !.renamed = @ \/ KeyOf(new) # KeyOf(old)]
<1>0. PlaceOK(q) /\ FreshIds(i) /\ DOMAIN imp = Importers /\ q.kind \in RowKinds /\ DOMAIN q = Columned
  BY DEF ImportsOK, PlaceOK, RowKinds
<1>1. DOMAIN old = Parts
  BY DEF RecordsOK
<1>2. /\ DOMAIN new = Parts /\ new.kind = old.kind /\ new.id = old.id
      /\ copy = old => old.keys \subseteq new.keys
      /\ \/ new.code = old.code
         \/ q.kind \in {"accounts", "contacts"} /\ line.code # None /\ new.code = line.code
  BY <1>0, <1>1, WrittenKeeps
<1>3. RecordsOK'
  BY <1>2 DEF RecordsOK
<1>4. \A j : IdsStay(j)
  <2>1. \A x \in recs' : \E y \in recs : y.id = x.id
    BY <1>2
  <2>2. QED
    BY <2>1, IdsKept
<1>5. /\ PlaceOK(r)
      /\ Stay(q, r, {"byCode", "byName", "who", "made", "changed", "errors", "renamed"})
      /\ r.byCode = Noted(q, new).byCode /\ r.byName = Noted(q, new).byName
  BY <1>0 DEF PlaceOK, Stay, Noted, Columned
<1>6. ~r.renamed => ~q.renamed /\ KeyOf(new) = KeyOf(old)
  BY <1>0, Zenon DEF Noted, Columned
<1> HIDE DEF r
<1>7. /\ DOMAIN imp' = Importers /\ \A j \in Importers \ {i} : imp'[j] = imp[j]
      /\ PlaceOK(imp'[i]) /\ FreshIds(i)'
      /\ \A f \in {"alone", "kind"} : imp'[i][f] = q[f]
      /\ \A f \in {"byCode", "byName", "renamed"} : imp'[i][f] = r[f]
  <2>1. imp' = [imp EXCEPT ![i] = Onward(r, q.at)]
    BY DEF r
  <2>2. \A t : \A n \in Nat : Unused(i, t, n) /\ n > q.at => Unused(i, t, n)'
    BY <1>4 DEF IdsStay
  <2>3. QED
    BY <1>0, <1>5, <2>1, <2>2, RowIsDone
<1>8. Exact(q) => copy = old /\ (q.kind \in {"accounts", "contacts"} /\ line.code # None =>
                                    copy.code = line.code)
  BY <1>0, MatchesAreCopies DEF RecordsOK
<1>9. Exact(q) => KeepsColumns
  BY <1>2, <1>8 DEF KeepsColumns
<1>10. ASSUME Exact(q), ~imp'[i].renamed PROVE Exact(imp[i])'
  <2>1. KeyOf(new) = KeyOf(old)
    BY <1>6, <1>7, <1>10
  <2>2. new.code = old.code
    BY <1>2, <1>8, <1>10
  <2>3. new.kind = q.kind
    BY <1>2
  <2>4. PICK gone : gone = {old}
    OBVIOUS
  <2>5. \A k \in DOMAIN q.byCode : q.byCode[k] \in gone => new.code = k
    BY <2>2, <2>4, <1>10 DEF Exact
  <2>6. \A k \in DOMAIN q.byName : q.byName[k] \in gone => HasKey(new) /\ KeyOf(new) = k
    <3>1. HasKey(old) => HasKey(new)
      <4>1. CASE q.kind = "contacts"
        BY <2>1, <2>3, <4>1 DEF HasKey, KeyOf, NameKey
      <4>2. CASE q.kind # "contacts"
        BY <2>3, <4>2 DEF HasKey
      <4>3. QED
        BY <4>1, <4>2
    <3>2. QED
      BY <2>1, <2>4, <3>1, <1>10 DEF Exact
  <2>7. recs \ gone \subseteq recs' /\ new \in recs'
    BY <2>4
  <2>8. PICK was : was = imp[i]
    OBVIOUS
  <2>9. /\ imp'[i].byCode = Noted(was, new).byCode /\ imp'[i].byName = Noted(was, new).byName
        /\ imp'[i].kind = was.kind /\ new.kind = was.kind /\ DOMAIN was = Columned
        /\ Exact(was)
    BY <1>0, <1>5, <1>7, <1>10, <2>3, <2>8
  <2>10. /\ \A k \in DOMAIN was.byCode : was.byCode[k] \in gone => new.code = k
         /\ \A k \in DOMAIN was.byName : was.byName[k] \in gone => HasKey(new) /\ KeyOf(new) = k
    BY <2>5, <2>6, <2>8
  <2> HIDE DEF q
  <2>11. QED
    BY <2>7, <2>9, <2>10, NotedIsExact
<1>11. ~imp'[i].renamed => ~q.renamed
  BY <1>6, <1>7
<1>12. QED
  BY <1>3, <1>4, <1>7, <1>9, <1>10, <1>11 DEF Turns, Orders, Agrees, Running

LEMMA StepsOfInserts ==
  ASSUME ImportsOK, RecordsOK, NEW i \in Importers, imp[i].pc = "row", imp[i].kind # "quotes",
         NEW new, DOMAIN new = Parts, new.kind = imp[i].kind, new.id = <<i, imp[i].at, "row">>,
         recs' = recs \union {new},
         imp' = [imp EXCEPT ![i] = Onward([Noted(imp[i], new) EXCEPT
                                             !.made = @ \union {imp[i].at}], imp[i].at)],
         UNCHANGED offer
  PROVE  /\ Turns(i) /\ Orders(i) /\ Agrees(i)
         /\ KeepsColumns
<1> DEFINE q == imp[i]
           r == [Noted(q, new) EXCEPT !.made = @ \union {q.at}]
<1>0. PlaceOK(q) /\ FreshIds(i) /\ DOMAIN imp = Importers /\ q.kind \in RowKinds /\ DOMAIN q = Columned
  BY DEF ImportsOK, PlaceOK, RowKinds
<1>1. PICK n \in Nat : n = q.at
  BY <1>0 DEF PlaceOK
<1>2. Unused(i, "row", n)
  BY <1>0, <1>1 DEF FreshIds
<1>3. /\ RecordsOK' /\ \A j : j # i => IdsStay(j)
      /\ \A t : \A m \in Nat : Unused(i, t, m) /\ (t # "row" \/ m > n) => Unused(i, t, m)'
  BY <1>1, <1>2, RecordAdded
<1>4. /\ PlaceOK(r)
      /\ Stay(q, r, {"byCode", "byName", "who", "made", "changed", "errors", "renamed"})
      /\ r.byCode = Noted(q, new).byCode /\ r.byName = Noted(q, new).byName
      /\ r.renamed = q.renamed
  BY <1>0 DEF PlaceOK, Stay, Noted, Columned
<1> HIDE DEF r
<1>5. /\ DOMAIN imp' = Importers /\ \A j \in Importers \ {i} : imp'[j] = imp[j]
      /\ PlaceOK(imp'[i]) /\ FreshIds(i)'
      /\ \A f \in {"alone", "kind"} : imp'[i][f] = q[f]
      /\ \A f \in {"byCode", "byName", "renamed"} : imp'[i][f] = r[f]
  <2>1. imp' = [imp EXCEPT ![i] = Onward(r, q.at)]
    BY DEF r
  <2>2. \A t : \A m \in Nat : Unused(i, t, m) /\ m > q.at => Unused(i, t, m)'
    BY <1>1, <1>3
  <2>3. QED
    BY <1>0, <1>4, <2>1, <2>2, RowIsDone
<1>6. KeepsColumns
  BY DEF KeepsColumns
<1>7. ASSUME Exact(q) PROVE Exact(imp[i])'
  <2>1. PICK gone : gone = {}
    OBVIOUS
  <2>2. recs \ gone \subseteq recs' /\ new \in recs'
    OBVIOUS
  <2>3. PICK was : was = imp[i]
    OBVIOUS
  <2>4. /\ imp'[i].byCode = Noted(was, new).byCode /\ imp'[i].byName = Noted(was, new).byName
        /\ imp'[i].kind = was.kind /\ new.kind = was.kind /\ DOMAIN was = Columned
        /\ Exact(was)
    BY <1>0, <1>4, <1>5, <1>7, <2>3
  <2>5. /\ \A k \in DOMAIN was.byCode : was.byCode[k] \in gone => new.code = k
        /\ \A k \in DOMAIN was.byName : was.byName[k] \in gone => HasKey(new) /\ KeyOf(new) = k
    BY <2>1
  <2> HIDE DEF q
  <2>6. QED
    BY <2>2, <2>4, <2>5, NotedIsExact
<1>8. imp'[i].renamed = q.renamed
  BY <1>4, <1>5
<1>9. QED
  BY <1>3, <1>5, <1>6, <1>7, <1>8 DEF Turns, Orders, Agrees, Running

LEMMA StepsOfRows ==
  ASSUME ImportsOK, RecordsOK, NEW i \in Importers, WriteRow(i)
  PROVE  /\ Turns(i) /\ Orders(i) /\ Agrees(i) /\ UNCHANGED docs
         /\ Exact(imp[i]) => KeepsColumns
<1> DEFINE q == imp[i]
           line == q.file[q.at]
           fresh == Record(q.kind, <<i, q.at, "row">>, line.name, line.code,
                           q.of[q.at], q.who, line.keys)
<1>1. q.pc = "row" /\ q.kind # "quotes" /\ UNCHANGED offer /\ UNCHANGED docs
  BY DEF WriteRow, vars
<1>2. \/ \E copy \in Match(q) : \E old \in {x \in recs : x.kind = q.kind /\ x.id = copy.id} :
            /\ recs' = (recs \ {old}) \union {Written(q, old, copy)}
            /\ imp' = [imp EXCEPT ![i] =
                 Onward([Noted(q, Written(q, old, copy)) EXCEPT
                           !.changed = @ \union {q.at},
                           !.renamed = @ \/ KeyOf(Written(q, old, copy)) # KeyOf(old)], q.at)]
      \/ /\ recs' = recs \union {fresh}
         /\ imp' = [imp EXCEPT ![i] =
              Onward([Noted(q, fresh) EXCEPT !.made = @ \union {q.at}], q.at)]
  BY Zenon DEF WriteRow
<1>3. ASSUME NEW copy \in Match(q), NEW old \in recs, old.kind = q.kind, old.id = copy.id,
             NEW new, new = Written(q, old, copy),
             recs' = (recs \ {old}) \union {new},
             imp' = [imp EXCEPT ![i] =
                 Onward([Noted(q, new) EXCEPT
                           !.changed = @ \union {q.at},
                           !.renamed = @ \/ KeyOf(new) # KeyOf(old)], q.at)]
      PROVE  Turns(i) /\ Orders(i) /\ Agrees(i) /\ (Exact(q) => KeepsColumns)
  BY <1>1, <1>3, StepsOfUpdates
<1>4. ASSUME NEW new, new = fresh, recs' = recs \union {new},
             imp' = [imp EXCEPT ![i] =
                 Onward([Noted(q, new) EXCEPT !.made = @ \union {q.at}], q.at)]
      PROVE  Turns(i) /\ Orders(i) /\ Agrees(i) /\ KeepsColumns
  <2>1. DOMAIN new = Parts /\ new.kind = q.kind /\ new.id = <<i, q.at, "row">>
    BY <1>4 DEF Record, Parts
  <2>2. QED
    BY <1>1, <1>4, <2>1, StepsOfInserts
<1> HIDE DEF fresh
<1>5. QED
  BY <1>1, <1>2, <1>3, <1>4, Zenon

LEMMA StepsOfQuoteWrites ==
  ASSUME ImportsOK, RecordsOK, NEW i \in Importers, WriteQuote(i)
  PROVE  Turns(i) /\ Orders(i) /\ Agrees(i) /\ KeepsColumns /\ imp'[i].pc # "row"
<1> DEFINE q == imp[i]
           firm == Firm(i, q.file[q.at].firm)
<1>0. /\ PlaceOK(q) /\ FreshIds(i) /\ DOMAIN imp = Importers /\ DOMAIN q = Columned
      /\ q.pc = "row" /\ q.kind = "quotes" /\ UNCHANGED offer
  BY DEF ImportsOK, PlaceOK, WriteQuote
<1>1. PICK n \in Nat : n = q.at
  BY <1>0 DEF PlaceOK
<1>2. recs' = recs \/ recs' = recs \union {firm}
  BY DEF WriteQuote
<1>3. DOMAIN firm = Parts /\ firm.id = <<i, n, "firm">> /\ Unused(i, "firm", n)
  BY <1>0, <1>1 DEF Firm, Record, Parts, FreshIds
<1> HIDE DEF firm
<1>4. /\ RecordsOK' /\ \A j : j # i => IdsStay(j)
      /\ \A t : \A m \in Nat : Unused(i, t, m) /\ m > n => Unused(i, t, m)'
  <2>1. CASE recs' = recs
    BY <2>1, RecordsSame DEF IdsStay
  <2>2. CASE recs' = recs \union {firm}
    BY <1>3, <2>2, RecordAdded
  <2>3. QED
    BY <1>2, <2>1, <2>2
<1>5. KeepsColumns
  BY <1>2 DEF KeepsColumns
<1>6. PICK r : /\ imp' = [imp EXCEPT ![i] = Onward(r, q.at)]
               /\ \/ r = [q EXCEPT !.made = @ \union {q.at}]
                  \/ r = [q EXCEPT !.errors = @ \union {q.at}]
                  \/ r = [q EXCEPT !.changed = @ \union {q.at}]
  BY Zenon DEF WriteQuote
<1>7. PlaceOK(r) /\ Stay(q, r, {"made", "changed", "errors"})
  BY <1>0, <1>6 DEF PlaceOK, Stay, Columned
<1>8. Stay(q, r, {"byCode", "byName", "who", "made", "changed", "errors", "renamed"})
  BY <1>7 DEF Stay, Columned
<1>9. /\ DOMAIN imp' = Importers /\ \A j \in Importers \ {i} : imp'[j] = imp[j]
      /\ PlaceOK(imp'[i]) /\ FreshIds(i)'
      /\ imp'[i].pc # "row" \/ imp'[i].kind # "quotes"
      /\ \A f \in {"alone", "kind"} : imp'[i][f] = q[f]
      /\ \A f \in {"byCode", "byName", "renamed"} : imp'[i][f] = r[f]
  <2>1. \A t : \A m \in Nat : Unused(i, t, m) /\ m > q.at => Unused(i, t, m)'
    BY <1>1, <1>4
  <2>2. QED
    BY <1>0, <1>6, <1>7, <1>8, <2>1, RowIsDone
<1>10. \A f \in {"byCode", "byName", "renamed"} : r[f] = q[f]
  BY <1>7 DEF Stay, Columned
<1>11. Agrees(i)
  <2>1. recs \subseteq recs'
    BY <1>2
  <2>2. QED
    BY <1>9, <1>10, <2>1, ExactStays
<1>12. QED
  BY <1>0, <1>4, <1>5, <1>9, <1>11 DEF Turns, Orders, Running

\* The answer, and the death of the server.
LEMMA StepsOfEnds ==
  ASSUME ImportsOK, RecordsOK, NEW i \in Importers, Answer(i) \/ Die(i)
  PROVE  /\ Turns(i) /\ Orders(i) /\ Agrees(i) /\ KeepsColumns /\ UNCHANGED docs
         /\ imp'[i].pc # "row"
<1> DEFINE q == imp[i]
<1>0. /\ PlaceOK(q) /\ DOMAIN imp = Importers /\ DOMAIN q = Columned /\ recs' = recs
      /\ UNCHANGED offer /\ UNCHANGED docs /\ Running(i)
  BY DEF ImportsOK, PlaceOK, Answer, Die, Running, vars
<1>1. Only(i, {"pc"}) /\ imp'[i].pc \in {"done", "died"}
  BY <1>0 DEF Answer, Die, Only, Stay, Columned
<1>2. \A f \in {"byCode", "byName", "kind", "renamed", "alone", "at", "file"} : imp'[i][f] = q[f]
  BY <1>1 DEF Only, Stay, Columned
<1>3. RecordsOK' /\ \A j : IdsStay(j)
  BY <1>0, RecordsSame
<1>4. PlaceOK(imp'[i])
  BY <1>0, <1>1, <1>2 DEF PlaceOK, Only
<1>5. FreshIds(i)'
  BY <1>1 DEF FreshIds
<1>6. Agrees(i)
  BY <1>0, <1>2, ExactStays
<1>7. KeepsColumns
  BY <1>0 DEF KeepsColumns
<1>8. QED
  BY <1>0, <1>1, <1>2, <1>3, <1>4, <1>5, <1>6, <1>7 DEF Turns, Orders, Only
-----------------------------------------------------------------------------
(* The beginning of an import, and what others do beside one.              *)
LEMMA StartsPlaced ==
  ASSUME NEW i, NEW kind \in FileKinds, NEW file, DOMAIN file \subseteq Nat, NEW errors,
         NEW q, q = Start(i, kind, file, errors)
  PROVE  /\ PlaceOK(q) /\ q.kind = kind /\ q.at = 0
         /\ q.byCode = <<>> /\ q.byName = <<>>
         /\ q.alone => \A o \in Importers : ~Running(o)
<1>1. DOMAIN q = Columned
  BY DEF Start, Blank, Columned
<1>2. q.pc = "idle" /\ q.kind = kind /\ q.file = file /\ q.at = 0
  BY DEF Start, Blank
<1>3. q.byCode = <<>> /\ q.byName = <<>> /\ q.alone = ~\E o \in Importers : Running(o)
  BY DEF Start, Blank
<1>4. q.at \in Nat
  BY <1>2
<1>5. QED
  BY <1>1, <1>2, <1>3, <1>4 DEF PlaceOK

\* What is entered for an import that begins.
Begun(p) == /\ PlaceOK(p) /\ p.byCode = <<>> /\ p.byName = <<>>
            /\ p.alone => \A o \in Importers : ~Running(o)
            /\ p.pc = "row" => p.kind # "quotes"

LEMMA BeginsPlaced ==
  ASSUME ImportsOK, NEW i \in Importers, NEW file \in offer.files,
         BeginImport(i, offer.kind, file)
  PROVE  \E p : Enter(i, p) /\ Begun(p)
<1>1. DOMAIN file \subseteq Nat
  <2>1. DOMAIN file = 1 .. Len(file)
    BY OffersAssumption DEF ImportsOK
  <2>2. QED
    BY <2>1
<1>2. ASSUME NEW kind \in FileKinds, NEW errors, NEW p,
             \/ p = [Start(i, kind, file, errors) EXCEPT !.pc = "clear"]
             \/ kind # "quotes" /\ p = [Start(i, kind, file, errors) EXCEPT !.pc = "load"]
             \/ kind = "contacts" /\ p = [Start(i, kind, file, errors) EXCEPT !.pc = "firm", !.at = 1]
      PROVE  Begun(p)
  <2>1. PICK q : q = Start(i, kind, file, errors)
    OBVIOUS
  <2>2. /\ PlaceOK(q) /\ q.kind = kind /\ q.at = 0
        /\ q.byCode = <<>> /\ q.byName = <<>>
        /\ q.alone => \A o \in Importers : ~Running(o)
    BY <1>1, <2>1, StartsPlaced
  <2>3. /\ DOMAIN p = Columned /\ Stay(q, p, {"pc", "at"})
        /\ \/ p.pc = "clear" /\ p.at = 0
           \/ p.pc = "load" /\ kind # "quotes" /\ p.at = 0
           \/ p.pc = "firm" /\ kind = "contacts" /\ p.at = 1
    BY <1>2, <2>1, <2>2 DEF PlaceOK, Stay, Columned
  <2>4. \A f \in {"kind", "file", "byCode", "byName", "alone"} : p[f] = q[f]
    BY <2>3 DEF Stay, Columned
  <2>5. p.at \in Nat
    BY <2>3
  <2>6. QED
    BY <2>2, <2>3, <2>4, <2>5 DEF Begun, PlaceOK
<1>3. CASE BeginFirms(i, file)
  <2>1. PICK p : /\ Enter(i, p)
                 /\ \/ p = [Start(i, "accounts", file, TurnedDown(file)) EXCEPT !.pc = "clear"]
                    \/ p = [Start(i, "accounts", file, TurnedDown(file)) EXCEPT !.pc = "load"]
    BY <1>3, Zenon DEF BeginFirms
  <2>2. "accounts" \in FileKinds /\ "accounts" # "quotes"
    BY DEF FileKinds
  <2>3. QED
    BY <1>2, <2>1, <2>2
<1>4. CASE BeginProducts(i, file)
  <2>1. PICK p : /\ Enter(i, p)
                 /\ \/ p = [Start(i, "products", file, TurnedDown(file)) EXCEPT !.pc = "clear"]
                    \/ p = [Start(i, "products", file, TurnedDown(file)) EXCEPT !.pc = "load"]
    BY <1>4, Zenon DEF BeginProducts
  <2>2. "products" \in FileKinds /\ "products" # "quotes"
    BY DEF FileKinds
  <2>3. QED
    BY <1>2, <2>1, <2>2
<1>5. CASE BeginContacts(i, file)
  <2>1. PICK p : /\ Enter(i, p)
                 /\ p = [Start(i, "contacts", file, {}) EXCEPT !.pc = "firm", !.at = 1]
    BY <1>5 DEF BeginContacts
  <2>2. "contacts" \in FileKinds
    BY DEF FileKinds
  <2>3. QED
    BY <1>2, <2>1, <2>2
<1>6. CASE BeginInteractions(i, file)
  <2>1. PICK p : /\ Enter(i, p)
                 /\ p = [Start(i, "interactions", file, TurnedDown(file)) EXCEPT !.pc = "load"]
    BY <1>6 DEF BeginInteractions
  <2>2. "interactions" \in FileKinds /\ "interactions" # "quotes"
    BY DEF FileKinds
  <2>3. QED
    BY <1>2, <2>1, <2>2
<1>7. CASE BeginQuotes(i, file)
  <2>1. PICK q, p : /\ q = Start(i, "quotes", file, TurnedDown(file))
                    /\ p = Onward(q, 0) /\ Enter(i, p)
    BY <1>7 DEF BeginQuotes
  <2>2. "quotes" \in FileKinds
    BY DEF FileKinds
  <2>3. /\ PlaceOK(q) /\ q.kind = "quotes" /\ q.at = 0
        /\ q.byCode = <<>> /\ q.byName = <<>>
        /\ q.alone => \A o \in Importers : ~Running(o)
    BY <1>1, <2>1, <2>2, StartsPlaced
  <2>4. PlaceOK(p) /\ Stay(q, p, {"pc", "at"})
    BY <2>1, <2>3, OnwardPlaced
  <2>5. \A f \in {"kind", "byCode", "byName", "alone"} : p[f] = q[f]
    BY <2>4 DEF Stay, Columned
  <2>6. p.pc # "row"
    BY <2>1, <2>3, OnwardGoes
  <2>7. QED
    BY <2>1, <2>3, <2>4, <2>5, <2>6 DEF Begun
<1>8. QED
  BY <1>3, <1>4, <1>5, <1>6, <1>7 DEF BeginImport

\* An import that others disturb is no longer alone.
LEMMA DisturbedGoesOn ==
  ASSUME ImportsOK, NEW j \in Importers, imp'[j] = Disturbed[j], IdsStay(j)
  PROVE  /\ PlaceOK(imp'[j]) /\ FreshIds(j)'
         /\ Running(j)' <=> Running(j)
         /\ Running(j)' => ~imp'[j].alone
<1>1. PlaceOK(imp[j]) /\ FreshIds(j) /\ DOMAIN imp[j] = Columned
  BY DEF ImportsOK, PlaceOK
<1>2. imp'[j] = IF Running(j) THEN [imp[j] EXCEPT !.alone = FALSE] ELSE imp[j]
  BY DEF Disturbed
<1>3. DOMAIN imp'[j] = Columned /\ Stay(imp[j], imp'[j], {"alone"})
  BY <1>1, <1>2 DEF Stay, Columned
<1>4. Running(j) => imp'[j].alone = FALSE
  BY <1>1, <1>2 DEF Columned
<1>5. \A f \in {"pc", "kind", "at", "file"} : imp'[j][f] = imp[j][f]
  BY <1>3 DEF Stay, Columned
<1>6. PlaceOK(imp'[j])
  BY <1>1, <1>3, <1>5 DEF PlaceOK
<1>7. FreshIds(j)'
  BY <1>1, <1>5, FreshKept
<1>8. QED
  BY <1>4, <1>5, <1>6, <1>7 DEF Running

-----------------------------------------------------------------------------
(* The documents.                                                          *)
UniqueNumbers == \A d, e \in docs : d.table = e.table /\ d.number = e.number => d = e

KeepsAttributes == \A d \in docs : \E e \in docs' :
                     e.table = d.table /\ e.number = d.number
                       /\ d.attributes \subseteq e.attributes

LEMMA NewDocument ==
  ASSUME UniqueNumbers, NEW new, docs' = docs \union {new},
         \A d \in Rows(new.table) : d.number # new.number
  PROVE  UniqueNumbers' /\ KeepsAttributes
  BY DEF UniqueNumbers, KeepsAttributes, Rows

LEMMA DocumentsKept ==
  ASSUME UniqueNumbers, \A d \in docs : DOMAIN d = Fields, Next \/ UNCHANGED docs
  PROVE  UniqueNumbers' /\ KeepsAttributes
<1>1. CASE UNCHANGED docs
  BY <1>1 DEF UniqueNumbers, KeepsAttributes
<1>2. ASSUME NEW r \in Requests, Insert(r)
      PROVE  UniqueNumbers' /\ KeepsAttributes
  <2> DEFINE q == req[r]
  <2>1. PICK new : /\ docs' = docs \union {new}
                   /\ new = [table |-> Table(q.kind), number |-> q.count + 1, key |-> q.key,
                             live |-> TRUE, whole |-> ~HasFollowUp(q.kind), by |-> r,
                             attributes |-> {}]
    BY <1>2, Zenon DEF Insert
  <2>2. \A d \in Rows(Table(q.kind)) : d.number # q.count + 1
    BY <1>2 DEF Insert, Collides
  <2>3. new.table = Table(q.kind) /\ new.number = q.count + 1
    BY <2>1
  <2> HIDE DEF q
  <2>4. QED
    BY <2>1, <2>2, <2>3, NewDocument
<1>3. ASSUME NEW r \in Requests, FollowUp(r)
      PROVE  UniqueNumbers' /\ KeepsAttributes
  <2> DEFINE F(d) == IF d.by = r THEN [d EXCEPT !.whole = TRUE] ELSE d
  <2>1. docs' = {F(d) : d \in docs}
    BY <1>3 DEF FollowUp
  <2>2. \A d \in docs : /\ F(d).table = d.table /\ F(d).number = d.number
                       /\ F(d).attributes = d.attributes
    BY DEF Fields
  <2> HIDE DEF F
  <2>3. QED
    BY <2>1, <2>2 DEF UniqueNumbers, KeepsAttributes
<1>4. ASSUME NEW d \in docs, Remove(d)
      PROVE  UniqueNumbers' /\ KeepsAttributes
  <2>1. PICK e : docs' = (docs \ {d}) \union {e} /\ e = [d EXCEPT !.live = FALSE]
    BY <1>4 DEF Remove
  <2>2. e.table = d.table /\ e.number = d.number /\ e.attributes = d.attributes
    BY <2>1 DEF Fields
  <2>3. UniqueNumbers'
    <3>1. \A x \in docs' : x = e \/ (x \in docs /\ x # d)
      BY <2>1
    <3>2. \A x \in docs : x # d => x.table # e.table \/ x.number # e.number
      BY <2>2 DEF UniqueNumbers
    <3>3. QED
      BY <3>1, <3>2 DEF UniqueNumbers
  <2>4. e \in docs' /\ \A c \in docs \ {d} : c \in docs'
    BY <2>1
  <2>5. KeepsAttributes
    BY <2>2, <2>4 DEF KeepsAttributes
  <2>6. QED
    BY <2>3, <2>5
<1>5. CASE Next
  <2>1. ASSUME NEW r \in Requests, NEW kind, NEW key,
               Begin(r, kind, key) \/ Count(r) \/ Retry(r) \/ Recover(r) \/ Crash(r)
        PROVE  UNCHANGED docs
    BY <2>1 DEF Begin, Count, Retry, Recover, Crash
  <2>2. QED
    BY <1>1, <1>2, <1>3, <1>4, <1>5, <2>1 DEF Next, Proceed
<1>6. QED
  BY <1>1, <1>5

\* An imported quote is updated over what has been read of it.
LEMMA QuotesKept ==
  ASSUME UniqueNumbers, \A d \in docs : DOMAIN d = Fields,
         NEW i \in Importers, WriteQuote(i)
  PROVE  UniqueNumbers' /\ (QuoteRead(imp[i]) => KeepsAttributes)
<1> DEFINE q == imp[i]
           line == q.file[q.at]
           taken == {d \in Rows("quote") : d.number = line.name}
           new == [table |-> "quote", number |-> line.name, key |-> NoKey, live |-> TRUE,
                   whole |-> TRUE, by |-> i, attributes |-> line.keys]
           F(d) == IF d \in taken THEN [d EXCEPT !.attributes = q.quote.attributes \union line.keys]
                   ELSE d
<1>1. \/ docs' = docs \union {new} /\ taken = {}
      \/ UNCHANGED docs
      \/ docs' = {F(d) : d \in docs} /\ q.quote # None
  BY DEF WriteQuote
<1>2. CASE docs' = docs \union {new} /\ taken = {}
  <2>1. new.table = "quote" /\ new.number = line.name
    OBVIOUS
  <2> HIDE DEF new
  <2>2. QED
    BY <1>2, <2>1, NewDocument
<1>3. CASE UNCHANGED docs
  BY <1>3, DocumentsKept
<1>4. CASE docs' = {F(d) : d \in docs} /\ q.quote # None
  <2>1. \A d \in docs : F(d).table = d.table /\ F(d).number = d.number
    BY DEF Fields
  <2>2. ASSUME QuoteRead(q) PROVE \A d \in docs : d.attributes \subseteq F(d).attributes
    <3>1. q.quote \in taken
      BY <1>4, <2>2 DEF QuoteRead, WriteQuote
    <3>2. \A d \in taken : d = q.quote
      BY <3>1 DEF UniqueNumbers, Rows
    <3>3. \A d \in docs : F(d).attributes = d.attributes \/
                          (d \in taken /\ F(d).attributes = q.quote.attributes \union line.keys)
      BY DEF Fields
    <3> HIDE DEF F, taken
    <3>4. QED
      BY <3>2, <3>3
  <2> HIDE DEF F
  <2>3. UniqueNumbers'
    BY <1>4, <2>1 DEF UniqueNumbers
  <2>4. QuoteRead(q) => KeepsAttributes
    BY <1>4, <2>1, <2>2 DEF KeepsAttributes
  <2>5. QED
    BY <2>3, <2>4
<1>5. QED
  BY <1>1, <1>2, <1>3, <1>4
-----------------------------------------------------------------------------
(* The invariant of the imports.                                           *)
ImportInv == ImportsOK /\ RecordsOK /\ Solitary /\ Copies /\ UniqueNumbers

\* Every import is disturbed.
LEMMA OthersDisturb ==
  ASSUME ImportsOK, imp' = Disturbed, UNCHANGED offer, \A j : IdsStay(j)
  PROVE  ImportsOK' /\ Solitary' /\ Copies'
<1>1. DOMAIN imp' = Importers /\ \A j \in Importers : imp'[j] = Disturbed[j]
  BY DEF Disturbed
<1>2. \A j \in Importers : /\ PlaceOK(imp'[j]) /\ FreshIds(j)'
                           /\ Running(j)' => ~imp'[j].alone
  BY <1>1, DisturbedGoesOn
<1>3. ImportsOK'
  BY <1>1, <1>2 DEF ImportsOK
<1>4. QED
  BY <1>2, <1>3 DEF Solitary, Copies

LEMMA BeginsKeep ==
  ASSUME ImportInv, NEW i \in Importers, NEW file \in offer.files,
         BeginImport(i, offer.kind, file)
  PROVE  ImportInv'
<1>1. PICK p : Enter(i, p) /\ Begun(p)
  BY BeginsPlaced DEF ImportInv
<1>2. /\ imp[i].pc = "idle" /\ imp' = [Disturbed EXCEPT ![i] = p]
      /\ recs' = recs /\ docs' = docs /\ offer' = offer
  BY <1>1 DEF Enter, vars
<1>3. RecordsOK' /\ \A j : IdsStay(j)
  BY <1>2, RecordsSame DEF ImportInv
<1>4. /\ DOMAIN imp' = Importers /\ imp'[i] = p
      /\ \A j \in Importers \ {i} : imp'[j] = Disturbed[j]
  BY <1>2 DEF Disturbed
<1>5. \A j \in Importers \ {i} : /\ PlaceOK(imp'[j]) /\ FreshIds(j)'
                                 /\ Running(j)' <=> Running(j)
                                 /\ Running(j)' => ~imp'[j].alone
  BY <1>3, <1>4, DisturbedGoesOn DEF ImportInv
<1>6. FreshIds(i)'
  <2>1. PICK n \in Nat : n = p.at
    BY <1>1 DEF Begun, PlaceOK
  <2>2. \A s : Unused(i, s, 0)
    BY <1>2 DEF ImportInv, ImportsOK, FreshIds
  <2>3. n + 1 \in Nat /\ n >= 0 /\ n + 1 >= 0
    BY <2>1
  <2>4. \A s : Unused(i, s, 0) /\ Unused(i, s, n) /\ Unused(i, s, n + 1)
    BY <2>2, <2>3, IdsLater
  <2>5. \A s : Unused(i, s, 0)' /\ Unused(i, s, n)' /\ Unused(i, s, n + 1)'
    BY <1>3, <2>3, <2>4 DEF IdsStay
  <2>6. QED
    BY <1>4, <2>1, <2>5 DEF FreshIds
<1>7. ImportsOK'
  BY <1>1, <1>2, <1>4, <1>5, <1>6 DEF ImportInv, ImportsOK, Begun
<1>8. Solitary'
  <2>1. imp'[i].alone => \A j \in Importers \ {i} : ~Running(j)'
    BY <1>1, <1>4, <1>5 DEF Begun
  <2>2. QED
    BY <1>5, <2>1 DEF Solitary
<1>9. Copies'
  <2>1. Exact(imp[i])'
    BY <1>1, <1>4 DEF Exact, Begun
  <2>2. QuoteRead(imp[i])'
    BY <1>1, <1>4 DEF QuoteRead, Begun
  <2>3. QED
    BY <1>5, <2>1, <2>2 DEF Copies
<1>10. QED
  BY <1>2, <1>3, <1>7, <1>8, <1>9 DEF ImportInv, UniqueNumbers

\* A step of an import.
LEMMA TurnsKeep ==
  ASSUME ImportInv, NEW i \in Importers, Turns(i), Orders(i), Agrees(i), QuoteRead(imp[i])',
         UniqueNumbers'
  PROVE  ImportInv'
<1>1. ImportsOK'
  <2>1. ASSUME NEW j \in Importers \ {i}
        PROVE  PlaceOK(imp'[j]) /\ FreshIds(j)'
    <3>1. imp'[j] = imp[j] /\ IdsStay(j)
      BY DEF Turns, Orders
    <3>2. PlaceOK(imp[j]) /\ FreshIds(j)
      BY DEF ImportInv, ImportsOK
    <3>3. QED
      BY <3>1, <3>2, FreshKept
  <2>2. QED
    BY <2>1 DEF ImportInv, ImportsOK, Turns, Orders
<1>2. \A j \in Importers \ {i} : imp'[j] = imp[j] /\ (Running(j)' <=> Running(j))
  BY DEF Turns, Running
<1>3. Running(i) /\ imp'[i].alone = imp[i].alone
  BY DEF Turns
<1>4. Solitary'
  BY <1>2, <1>3 DEF Solitary, ImportInv
<1>5. Copies'
  <2>1. ASSUME NEW j \in Importers \ {i}, imp'[j].alone, Running(j)'
        PROVE  FALSE
    BY <1>2, <1>3, <2>1 DEF Solitary, ImportInv
  <2>2. imp'[i].alone /\ ~imp'[i].renamed => Exact(imp[i])'
    BY <1>3 DEF Agrees, Copies, ImportInv
  <2>3. QED
    BY <2>1, <2>2 DEF Copies
<1>6. QED
  BY <1>1, <1>4, <1>5 DEF ImportInv, Orders

\* What an import leaves of the columns.
LEMMA ImportsKeep ==
  ASSUME ImportInv, \A d \in docs : DOMAIN d = Fields,
         NEW i \in Importers, ImportStep(i) \/ Die(i)
  PROVE  /\ ImportInv'
         /\ Running(i)
         /\ imp[i].pc = "row" /\ imp[i].alone /\ ~imp[i].renamed =>
              KeepsColumns /\ KeepsAttributes
<1>1. ImportsOK /\ RecordsOK /\ UniqueNumbers /\ PlaceOK(imp[i])
  BY DEF ImportInv, ImportsOK
<1>2. CASE \/ FindFirm(i) \/ OpenFirm(i) \/ FindPerson(i) \/ AddPerson(i) \/ Load(i)
  <2>1. Turns(i) /\ Orders(i) /\ Agrees(i)
    BY <1>1, <1>2, StepsOfFirms, StepsOfOpening, StepsOfPersons, StepsOfLoading
  <2>2. UNCHANGED docs /\ imp[i].pc # "row" /\ imp[i].kind # "quotes"
    BY <1>1, <1>2 DEF FindFirm, OpenFirm, FindPerson, AddPerson, Load, vars, PlaceOK
  <2>3. QuoteRead(imp[i])' /\ UniqueNumbers'
    BY <1>1, <2>1, <2>2 DEF QuoteRead, Turns, UniqueNumbers
  <2>4. QED
    BY <2>1, <2>2, <2>3, TurnsKeep DEF Turns
<1>3. CASE FindQuote(i)
  <2>1. Turns(i) /\ Orders(i) /\ Agrees(i) /\ QuoteRead(imp[i])'
    BY <1>1, <1>3, StepsOfQuoteReads
  <2>2. UNCHANGED docs /\ imp[i].pc # "row"
    BY <1>3 DEF FindQuote, vars
  <2>3. UniqueNumbers'
    BY <1>1, <2>2 DEF UniqueNumbers
  <2>4. QED
    BY <2>1, <2>2, <2>3, TurnsKeep DEF Turns
<1>4. CASE WriteRow(i)
  <2>1. /\ Turns(i) /\ Orders(i) /\ Agrees(i) /\ UNCHANGED docs
        /\ Exact(imp[i]) => KeepsColumns
    BY <1>1, <1>4, StepsOfRows
  <2>2. imp[i].kind # "quotes"
    BY <1>4 DEF WriteRow
  <2>3. QuoteRead(imp[i])' /\ UniqueNumbers' /\ KeepsAttributes
    BY <1>1, <2>1, <2>2 DEF QuoteRead, Turns, UniqueNumbers, KeepsAttributes
  <2>4. imp[i].alone /\ ~imp[i].renamed => Exact(imp[i])
    BY <2>1 DEF Copies, ImportInv, Turns
  <2>5. QED
    BY <2>1, <2>3, <2>4, TurnsKeep DEF Turns
<1>5. CASE WriteQuote(i)
  <2>1. Turns(i) /\ Orders(i) /\ Agrees(i) /\ KeepsColumns /\ imp'[i].pc # "row"
    BY <1>1, <1>5, StepsOfQuoteWrites
  <2>2. UniqueNumbers' /\ (QuoteRead(imp[i]) => KeepsAttributes)
    BY <1>1, <1>5, QuotesKept
  <2>3. QuoteRead(imp[i])'
    BY <2>1 DEF QuoteRead
  <2>4. imp[i].alone => QuoteRead(imp[i])
    BY <2>1 DEF Copies, ImportInv, Turns
  <2>5. QED
    BY <2>1, <2>2, <2>3, <2>4, TurnsKeep DEF Turns
<1>6. CASE Answer(i) \/ Die(i)
  <2>1. /\ Turns(i) /\ Orders(i) /\ Agrees(i) /\ KeepsColumns /\ UNCHANGED docs
        /\ imp'[i].pc # "row"
    BY <1>1, <1>6, StepsOfEnds
  <2>2. QuoteRead(imp[i])' /\ UniqueNumbers' /\ KeepsAttributes
    BY <1>1, <2>1 DEF QuoteRead, UniqueNumbers, KeepsAttributes
  <2>3. QED
    BY <2>1, <2>2, TurnsKeep DEF Turns
<1>7. QED
  BY <1>2, <1>3, <1>4, <1>5, <1>6 DEF ImportStep

\* What a create or a removal beside the imports leaves.
LEMMA OthersKeep ==
  ASSUME ImportInv, \A d \in docs : DOMAIN d = Fields,
         CreateStep \/ \E x \in recs : RemoveRecord(x)
  PROVE  ImportInv' /\ KeepsColumns /\ KeepsAttributes
<1>1. imp' = Disturbed /\ UNCHANGED offer /\ (Next \/ UNCHANGED docs)
  BY DEF CreateStep, RemoveRecord, vars
<1>2. UniqueNumbers' /\ KeepsAttributes
  BY <1>1, DocumentsKept DEF ImportInv
<1>3. RecordsOK' /\ (\A j : IdsStay(j)) /\ KeepsColumns
  <2>1. CASE recs' = recs
    BY <2>1, RecordsSame DEF ImportInv, KeepsColumns
  <2>2. ASSUME NEW x \in recs, RemoveRecord(x)
        PROVE  RecordsOK' /\ (\A j : IdsStay(j)) /\ KeepsColumns
    <3>1. PICK y : recs' = (recs \ {x}) \union {y} /\ y = [x EXCEPT !.live = FALSE]
      BY <2>2 DEF RemoveRecord
    <3>2. DOMAIN y = Parts /\ y.kind = x.kind /\ y.id = x.id /\ y.keys = x.keys
      BY <3>1 DEF ImportInv, RecordsOK, Parts
    <3>3. RecordsOK'
      <4>1. \A z \in recs' : z = y \/ (z \in recs /\ z # x)
        BY <3>1
      <4>2. \A z \in recs : z # x => z.kind # y.kind \/ z.id # y.id
        BY <3>2 DEF ImportInv, RecordsOK
      <4>3. QED
        BY <3>2, <4>1, <4>2 DEF ImportInv, RecordsOK
    <3>4. \A z \in recs' : \E w \in recs : w.id = z.id
      BY <3>1, <3>2
    <3>5. y \in recs' /\ \A z \in recs : z # x => z \in recs'
      BY <3>1
    <3>6. KeepsColumns
      BY <3>2, <3>5 DEF KeepsColumns
    <3>7. QED
      BY <3>3, <3>4, <3>6, IdsKept
  <2>3. QED
    BY <2>1, <2>2 DEF CreateStep
<1>4. QED
  BY <1>1, <1>2, <1>3, OthersDisturb DEF ImportInv

LEMMA ImportsBegin == ImportsInit => ImportInv
<1> SUFFICES ASSUME ImportsInit PROVE ImportInv
  OBVIOUS
<1>1. /\ offer \in Offers /\ recs = offer.start /\ docs = {}
      /\ DOMAIN imp = Importers /\ \A i \in Importers : imp[i] = Blank
  BY DEF ImportsInit, Init
<1>2. /\ DOMAIN Blank = Columned /\ Blank.pc = "idle" /\ Blank.kind = "accounts" /\ Blank.at = 0
      /\ Blank.file = <<>>
  BY DEF Blank, Columned
<1>3. PlaceOK(Blank)
  <2>1. 0 \in Nat /\ DOMAIN <<>> \subseteq Nat
    OBVIOUS
  <2> HIDE DEF Blank
  <2>2. QED
    BY <1>2, <2>1 DEF PlaceOK, FileKinds
<1>4. RecordsOK
  BY <1>1, OffersAssumption DEF RecordsOK, Record, Parts
<1>5. ASSUME NEW i \in Importers PROVE FreshIds(i)
  <2>1. \A x \in recs : x.id[1] # i
    BY <1>1, <1>5, OffersAssumption
  <2>2. \A k, s : <<i, k, s>>[1] = i
    OBVIOUS
  <2>3. \A s : Unused(i, s, 0)
    BY <2>1, <2>2 DEF Unused
  <2>4. imp[i].pc = "idle"
    BY <1>1, <1>2
  <2>5. QED
    BY <2>3, <2>4 DEF FreshIds
<1>6. ImportsOK
  BY <1>1, <1>3, <1>5 DEF ImportsOK
<1>7. \A i \in Importers : ~Running(i)
  BY <1>1, <1>2 DEF Running
<1>8. QED
  BY <1>1, <1>4, <1>6, <1>7 DEF ImportInv, Solitary, Copies, UniqueNumbers

\* Every step.
LEMMA ImportsGoOn ==
  ASSUME ImportInv, \A d \in docs : DOMAIN d = Fields, [ImportsNext]_allVars
  PROVE  /\ ImportInv'
         /\ \A i \in Importers : imp[i].pc = "row" /\ imp[i].alone /\ ~imp[i].renamed =>
              KeepsColumns /\ KeepsAttributes
<1>1. CASE CreateStep \/ \E x \in recs : RemoveRecord(x)
  BY <1>1, OthersKeep
<1>2. ASSUME NEW i \in Importers, NEW file \in offer.files, BeginImport(i, offer.kind, file)
      PROVE  ImportInv' /\ KeepsColumns /\ KeepsAttributes
  <2>1. ImportInv'
    BY <1>2, BeginsKeep
  <2>2. UNCHANGED <<recs, docs>>
    BY <1>2 DEF BeginImport, BeginFirms, BeginProducts, BeginContacts, BeginInteractions,
                BeginQuotes, Enter, vars
  <2>3. QED
    BY <2>1, <2>2 DEF KeepsColumns, KeepsAttributes
<1>3. ASSUME NEW j \in Importers, ImportStep(j) \/ Die(j)
      PROVE  /\ ImportInv'
             /\ \A i \in Importers : imp[i].pc = "row" /\ imp[i].alone /\ ~imp[i].renamed =>
                  KeepsColumns /\ KeepsAttributes
  <2>1. /\ ImportInv' /\ Running(j)
        /\ imp[j].pc = "row" /\ imp[j].alone /\ ~imp[j].renamed =>
             KeepsColumns /\ KeepsAttributes
    BY <1>3, ImportsKeep
  <2>2. \A i \in Importers : imp[i].pc = "row" /\ imp[i].alone => i = j
    BY <2>1 DEF ImportInv, Solitary, Running
  <2>3. QED
    BY <2>1, <2>2
<1>4. CASE UNCHANGED allVars
  <2>1. UNCHANGED <<docs, recs, imp, offer>>
    BY <1>4 DEF allVars, vars
  <2>2. RecordsOK' /\ \A j : IdsStay(j)
    BY <2>1, RecordsSame DEF ImportInv
  <2>3. ImportsOK'
    BY <2>1, <2>2, FreshKept DEF ImportInv, ImportsOK
  <2>4. Solitary' /\ UniqueNumbers'
    BY <2>1 DEF ImportInv, Solitary, Running, UniqueNumbers
  <2>5. Copies'
    <3>1. \A i \in Importers : Exact(imp[i]) => Exact(imp[i])'
      BY <2>1 DEF Exact, HasKey, KeyOf, NameKey
    <3>2. \A i \in Importers : QuoteRead(imp[i]) => QuoteRead(imp[i])'
      BY <2>1 DEF QuoteRead, Rows
    <3>3. QED
      BY <2>1, <3>1, <3>2 DEF ImportInv, Copies, Running
  <2>6. QED
    BY <2>1, <2>2, <2>3, <2>4, <2>5 DEF ImportInv, KeepsColumns, KeepsAttributes
<1>5. QED
  BY <1>1, <1>2, <1>3, <1>4 DEF ImportsNext

(***************************************************************************)
(* A row of an import that is alone adds to the unmapped columns of the    *)
(* records and quotes and drops none, whatever the rows of the file and    *)
(* whatever records there were, unless the import has renamed a record     *)
(* (the customFields merge in the loops of the imports, and upsertQuote).  *)
(***************************************************************************)
THEOREM ColumnsAreKept == ImportsSpec => KeysKept
<1>1. DayInv => \A d \in docs : DOMAIN d = Fields
  BY DEF DayInv, DocsOK
<1>2. ImportInv /\ (\A d \in docs : DOMAIN d = Fields) /\ [ImportsNext]_allVars => ImportInv'
  BY ImportsGoOn
<1> DEFINE Kept == \A i \in Importers :
             imp[i].pc = "row" /\ imp[i].alone /\ ~imp[i].renamed =>
               /\ \A x \in recs : \E y \in recs' :
                    y.kind = x.kind /\ y.id = x.id /\ x.keys \subseteq y.keys
               /\ \A d \in docs : \E e \in docs' :
                    e.table = d.table /\ e.number = d.number
                      /\ d.attributes \subseteq e.attributes
<1>3. ImportInv /\ (\A d \in docs : DOMAIN d = Fields) /\ [ImportsNext]_allVars => [Kept]_allVars
  BY ImportsGoOn DEF KeepsColumns, KeepsAttributes
<1> HIDE DEF Kept
<1>4. ImportsSpec => [][Kept]_allVars
  BY <1>1, <1>2, <1>3, ImportsBegin, DayInvariant, PTL DEF ImportsSpec
<1>5. QED
  BY <1>4 DEF Kept, KeysKept
=============================================================================
