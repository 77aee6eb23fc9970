------------------------- MODULE KnowledgeBaseProofs -------------------------
(***************************************************************************)
(* Proofs about what the owner teaches, for any number of items, imports,  *)
(* sources and analyses.                                                   *)
(*                                                                         *)
(* The argument: a version stays with the import of the item it replaces   *)
(* (VersionsStayTogether), rows never come back into force, and so an      *)
(* undone import, whose rows in force are all withdrawn at once, keeps     *)
(* none (ActiveImports).  An item that was replaced is not in force, so it *)
(* is not replaced again.                                                  *)
(***************************************************************************)
EXTENDS KnowledgeBase, SequenceTheorems, TLAPS

\* An item names an import that exists and an item that is older.
RowsReferToRows ==
    \A i \in DOMAIN items :
        /\ items[i].batch \in 0..Len(batches)
        /\ items[i].supersedes \in 0..(i - 1)

VersionsStayTogether ==
    \A i \in DOMAIN items :
        items[i].supersedes # 0 => items[items[i].supersedes].batch = items[i].batch

ActiveImports ==
    \A i \in DOMAIN items :
        items[i].status = "ACTIVE" /\ items[i].batch # 0 =>
            batches[items[i].batch].status = "ACTIVE"

KnowledgeInv ==
    /\ TypeOK
    /\ RowsReferToRows
    /\ VersionsStayTogether
    /\ ActiveImports
    /\ OneVersionInForce

-----------------------------------------------------------------------------
(* The helpers.                                                            *)

LEMMA Rows ==
    ASSUME TypeOK
    PROVE  /\ DOMAIN items = 1..Len(items) /\ Len(items) \in Nat
           /\ DOMAIN items \subseteq 1..MaxItems
           /\ \A i \in DOMAIN items : items[i] \in Item
           /\ DOMAIN batches = 1..Len(batches) /\ Len(batches) \in Nat
           /\ \A b \in DOMAIN batches : batches[b] \in Batch
<1>1. DOMAIN items = 1..Len(items) /\ Len(items) \in Nat
  BY LenProperties DEF TypeOK
<1>2. DOMAIN batches = 1..Len(batches) /\ Len(batches) \in Nat
  BY LenProperties DEF TypeOK
<1>3. \A i \in DOMAIN items : items[i] \in Item
  BY <1>1, ElementOfSeq DEF TypeOK
<1>4. \A b \in DOMAIN batches : batches[b] \in Batch
  BY <1>2, ElementOfSeq DEF TypeOK
<1>5. DOMAIN items \subseteq 1..MaxItems
  BY <1>1, KnowledgeAssumption DEF TypeOK
<1> QED BY <1>1, <1>2, <1>3, <1>4, <1>5

\* add_knowledge puts its rows behind those that are there.
LEMMA AddedRows ==
    ASSUME TypeOK, NEW n \in Nat, NEW l \in Levels, NEW b \in 0..MaxBatches, Add(n, l, b)
    PROVE  /\ items' \in Seq(Item) /\ Len(items') <= MaxItems
           /\ DOMAIN items' = 1..(Len(items) + n)
           /\ \A i \in DOMAIN items : items'[i] = items[i]
           /\ \A i \in DOMAIN items' \ DOMAIN items : items'[i] = New(l, b, 0)
<1> DEFINE more == [k \in 1..n |-> New(l, b, 0)]
           len == Len(items)
<1>1. New(l, b, 0) \in Item
  BY KnowledgeAssumption DEF New, Item
<1>2. more \in [1..n -> Item]
  BY <1>1
<1>3. more \in Seq(Item)
  <2> HIDE DEF more
  <2> QED BY <1>2, SeqDef
<1>4. Len(more) = n
  <2>1. DOMAIN more = 1..n
    OBVIOUS
  <2> HIDE DEF more
  <2> QED BY <1>3, <2>1, LenProperties
<1>5. items' = items \o more /\ len + n <= MaxItems
  BY DEF Add
<1>6. DOMAIN items = 1..len /\ len \in Nat /\ items \in Seq(Item)
  BY Rows DEF TypeOK
<1>7. /\ items' \in Seq(Item)
      /\ Len(items') = len + n
      /\ \A i \in 1..(len + n) : items'[i] = IF i <= len THEN items[i] ELSE more[i - len]
  <2> HIDE DEF more, len
  <2>1. Len(items) = len
    BY DEF len
  <2> QED BY <1>3, <1>4, <1>5, <1>6, <2>1, ConcatProperties
<1>8. DOMAIN items' = 1..(len + n)
  <2> HIDE DEF more, len
  <2> QED BY <1>7, LenProperties
<1>9. \A k \in 1..n : more[k] = New(l, b, 0)
  OBVIOUS
<1>10. \A i \in 1..(len + n) : i > len => items'[i] = New(l, b, 0)
  <2> HIDE DEF more, len
  <2> QED BY <1>6, <1>7, <1>9
<1> HIDE DEF more, len
<1>11. len = Len(items)
  BY DEF len
<1> QED BY <1>5, <1>6, <1>7, <1>8, <1>10, <1>11

\* A change of one row's status or level keeps the table.
LEMMA ChangedRow ==
    ASSUME TypeOK, NEW i \in DOMAIN items, NEW row \in Item, items' = [items EXCEPT ![i] = row]
    PROVE  /\ items' \in Seq(Item) /\ Len(items') = Len(items)
           /\ DOMAIN items' = DOMAIN items
           /\ items'[i] = row
           /\ \A k \in DOMAIN items \ {i} : items'[k] = items[k]
<1>1. DOMAIN items = 1..Len(items)
  BY Rows
<1> QED BY <1>1, ExceptSeq DEF TypeOK

\* Rows stay, where they come from stays, and none comes back into force.
RowsGoOn ==
    /\ DOMAIN items \subseteq DOMAIN items'
    /\ \A i \in DOMAIN items :
          /\ items'[i].batch = items[i].batch
          /\ items'[i].supersedes = items[i].supersedes
          /\ items'[i].status = "ACTIVE" => items[i].status = "ACTIVE"

\* Steps that make no new versions.
LEMMA NoNewVersions ==
    ASSUME KnowledgeInv, TypeOK', RowsGoOn, Len(batches) <= Len(batches'), ActiveImports',
           \A i \in DOMAIN items' \ DOMAIN items :
              items'[i].supersedes = 0 /\ items'[i].batch \in 0..Len(batches')
    PROVE  KnowledgeInv'
<1>1. TypeOK /\ RowsReferToRows /\ VersionsStayTogether /\ OneVersionInForce
  BY DEF KnowledgeInv
<1>2. /\ DOMAIN items = 1..Len(items) /\ Len(items) \in Nat
      /\ Len(batches) \in Nat /\ Len(batches') \in Nat
  BY <1>1, Rows, LenProperties DEF TypeOK
<1>3. RowsReferToRows'
  <2> SUFFICES ASSUME NEW i \in DOMAIN items'
               PROVE  items'[i].batch \in 0..Len(batches') /\ items'[i].supersedes \in 0..(i - 1)
    BY DEF RowsReferToRows
  <2>1. DOMAIN items' = 1..Len(items') /\ Len(items') \in Nat
    BY LenProperties DEF TypeOK
  <2>2. CASE i \in DOMAIN items
    <3>1. items[i].batch \in 0..Len(batches) /\ items[i].supersedes \in 0..(i - 1)
      BY <1>1, <2>2 DEF RowsReferToRows
    <3> QED BY <1>2, <2>2, <3>1 DEF RowsGoOn
  <2>3. CASE i \notin DOMAIN items
    BY <2>1, <2>3
  <2> QED BY <2>2, <2>3
<1>4. \A i \in DOMAIN items' : items'[i].supersedes # 0 =>
         i \in DOMAIN items /\ items[i].supersedes \in DOMAIN items
  <2> SUFFICES ASSUME NEW i \in DOMAIN items', items'[i].supersedes # 0
               PROVE  i \in DOMAIN items /\ items[i].supersedes \in DOMAIN items
    OBVIOUS
  <2>1. i \in DOMAIN items
    OBVIOUS
  <2>2. items[i].supersedes \in 0..(i - 1) /\ items[i].supersedes # 0
    BY <1>1, <2>1 DEF RowsReferToRows, RowsGoOn
  <2> QED BY <1>2, <2>1, <2>2
<1>5. VersionsStayTogether'
  BY <1>1, <1>4 DEF VersionsStayTogether, RowsGoOn
<1>6. OneVersionInForce'
  BY <1>1, <1>4 DEF OneVersionInForce, RowsGoOn, Active
<1> QED BY <1>3, <1>5, <1>6 DEF KnowledgeInv

-----------------------------------------------------------------------------
(* The steps.                                                              *)

LEMMA ClearedIsDialog == Cleared \in Dialogs
<1>1. 0 \in 0..MaxItems
  BY KnowledgeAssumption
<1> QED BY <1>1 DEF Cleared, Dialogs

\* Steps that touch the dialog and the analyses only.
LEMMA DialogKeeps ==
    ASSUME KnowledgeInv, items' = items, batches' = batches, dialog' \in Dialogs,
           job' \in [Imports -> Sources \cup {NoSource}]
    PROVE  KnowledgeInv'
<1>1. TypeOK'
  BY DEF KnowledgeInv, TypeOK
<1> QED
  BY <1>1 DEF KnowledgeInv, RowsReferToRows, VersionsStayTogether, ActiveImports,
              OneVersionInForce, Active

\* New items from a single message.
LEMMA LessonKeeps ==
    ASSUME KnowledgeInv, NEW l \in Levels, Add(1, l, 0), batches' = batches, job' = job,
           dialog' \in Dialogs
    PROVE  KnowledgeInv'
<1>1. TypeOK /\ ActiveImports
  BY DEF KnowledgeInv
<1>2. 0 \in 0..MaxBatches /\ Len(batches) \in Nat
  BY <1>1, KnowledgeAssumption, Rows
<1>3. /\ items' \in Seq(Item) /\ Len(items') <= MaxItems
      /\ DOMAIN items' = 1..(Len(items) + 1)
      /\ \A i \in DOMAIN items : items'[i] = items[i]
      /\ \A i \in DOMAIN items' \ DOMAIN items : items'[i] = New(l, 0, 0)
  BY <1>1, <1>2, AddedRows
<1>4. TypeOK'
  BY <1>1, <1>3 DEF TypeOK
<1>5. RowsGoOn
  BY <1>1, <1>3, Rows DEF RowsGoOn
<1>6. ActiveImports'
  BY <1>1, <1>3 DEF ActiveImports, New
<1>7. \A i \in DOMAIN items' \ DOMAIN items :
         items'[i].supersedes = 0 /\ items'[i].batch \in 0..Len(batches')
  BY <1>2, <1>3 DEF New
<1> QED BY <1>2, <1>4, <1>5, <1>6, <1>7, NoNewVersions

\* Deletions and turned levels: no row comes into force.
LEMMA RowChangeKeeps ==
    ASSUME KnowledgeInv, NEW i \in 1..MaxItems, Forgets(i) \/ Deletes(i) \/ TurnsLevel(i)
    PROVE  KnowledgeInv'
<1>1. TypeOK /\ ActiveImports /\ i \in DOMAIN items
  BY DEF KnowledgeInv, Forgets, Deletes, TurnsLevel, Active
<1>2. items[i] \in Item
  BY <1>1, Rows
<1>3. PICK row \in Item :
         /\ items' = [items EXCEPT ![i] = row]
         /\ row.batch = items[i].batch /\ row.supersedes = items[i].supersedes
         /\ row.status = "ACTIVE" => items[i].status = "ACTIVE"
  <2>1. CASE Forgets(i) \/ Deletes(i)
    <3> DEFINE row == [items[i] EXCEPT !.status = "DELETED"]
    <3>1. items' = [items EXCEPT ![i] = row]
      BY <2>1 DEF Forgets, Deletes, WithStatus
    <3>2. row \in Item /\ row.batch = items[i].batch /\ row.supersedes = items[i].supersedes
          /\ row.status = "DELETED"
      BY <1>2 DEF Item
    <3> QED BY <3>1, <3>2
  <2>2. CASE TurnsLevel(i)
    <3> DEFINE row == [items[i] EXCEPT !.level =
                          CASE @ = "PUBLIC" -> "INTERNAL"
                            [] @ = "INTERNAL" -> "PRIVATE"
                            [] @ = "PRIVATE" -> "PUBLIC"]
    <3>1. items' = [items EXCEPT ![i] = row]
      BY <2>2 DEF TurnsLevel
    <3>2. row \in Item /\ row.batch = items[i].batch /\ row.supersedes = items[i].supersedes
          /\ row.status = items[i].status
      BY <1>2 DEF Item, Levels
    <3> QED BY <3>1, <3>2
  <2> QED BY <2>1, <2>2
<1>4. /\ items' \in Seq(Item) /\ Len(items') = Len(items)
      /\ DOMAIN items' = DOMAIN items
      /\ items'[i] = row
      /\ \A k \in DOMAIN items \ {i} : items'[k] = items[k]
  BY <1>1, <1>3, ChangedRow
<1>5. batches' = batches /\ dialog' = dialog /\ job' = job
  BY DEF Forgets, Deletes, TurnsLevel
<1>6. TypeOK'
  BY <1>1, <1>4, <1>5 DEF TypeOK
<1>7. RowsGoOn
  BY <1>3, <1>4 DEF RowsGoOn
<1>8. ActiveImports'
  BY <1>1, <1>3, <1>4, <1>5 DEF ActiveImports
<1>9. Len(batches) <= Len(batches')
  BY <1>1, <1>5, Rows
<1> QED BY <1>4, <1>6, <1>7, <1>8, <1>9, NoNewVersions

\* An import brings its rows and its batch together.
LEMMA CommitsKeeps ==
    ASSUME KnowledgeInv, Commits PROVE KnowledgeInv'
<1> DEFINE p == dialog.preview
           level == LevelOf(dialog.bulk)
           new == [source |-> p.source, level |-> level, status |-> "ACTIVE"]
           b == Len(batches) + 1
<1>1. TypeOK /\ ActiveImports /\ RowsReferToRows
  BY DEF KnowledgeInv
<1>2. p \in Preview /\ level \in Levels
  BY <1>1 DEF TypeOK, Dialogs, Commits, LevelOf, Levels
<1>3. p.source \in Sources /\ p.size \in Nat
  BY <1>2, KnowledgeAssumption DEF Preview
<1>4. new \in Batch
  BY <1>2, <1>3 DEF Batch
<1>5. /\ batches' = Append(batches, new) /\ Add(p.size, level, b)
      /\ Len(batches) < MaxBatches
      /\ dialog' = Cleared /\ job' = job
  BY DEF Commits
<1>6. /\ DOMAIN batches = 1..Len(batches) /\ Len(batches) \in Nat
      /\ batches \in Seq(Batch)
  BY <1>1, Rows DEF TypeOK
<1>7. /\ batches' \in Seq(Batch) /\ Len(batches') = b
      /\ \A k \in DOMAIN batches : batches'[k] = batches[k]
      /\ batches'[b] = new
  <2> HIDE DEF new
  <2> QED BY <1>4, <1>5, <1>6, AppendProperties
<1>8. b \in 0..MaxBatches
  BY <1>5, <1>6, KnowledgeAssumption
<1>9. /\ items' \in Seq(Item) /\ Len(items') <= MaxItems
      /\ DOMAIN items' = 1..(Len(items) + p.size)
      /\ \A i \in DOMAIN items : items'[i] = items[i]
      /\ \A i \in DOMAIN items' \ DOMAIN items : items'[i] = New(level, b, 0)
  <2> HIDE DEF b, level, p
  <2> QED BY <1>1, <1>2, <1>3, <1>5, <1>8, AddedRows
<1>10. TypeOK'
  <2> HIDE DEF new, b, level, p
  <2>1. b <= MaxBatches
    BY <1>5, <1>6, KnowledgeAssumption DEF b
  <2> QED BY <1>1, <1>5, <1>7, <1>9, <2>1, ClearedIsDialog DEF TypeOK
<1>11. RowsGoOn
  <2> HIDE DEF p
  <2> QED BY <1>1, <1>3, <1>9, Rows DEF RowsGoOn
<1>12. ActiveImports'
  <2> SUFFICES ASSUME NEW i \in DOMAIN items', items'[i].status = "ACTIVE", items'[i].batch # 0
               PROVE  batches'[items'[i].batch].status = "ACTIVE"
    BY DEF ActiveImports
  <2>1. CASE i \in DOMAIN items
    <3>1. items[i].batch \in DOMAIN batches /\ batches[items[i].batch].status = "ACTIVE"
      BY <1>1, <1>6, <1>9, <2>1 DEF ActiveImports, RowsReferToRows
    <3> QED BY <1>7, <1>9, <2>1, <3>1
  <2>2. CASE i \notin DOMAIN items
    <3>1. items'[i].batch = b
      BY <1>9, <2>2 DEF New
    <3> QED BY <1>7, <3>1
  <2> QED BY <2>1, <2>2
<1>13. \A i \in DOMAIN items' \ DOMAIN items :
          items'[i].supersedes = 0 /\ items'[i].batch \in 0..Len(batches')
  BY <1>6, <1>7, <1>9 DEF New
<1>14. Len(batches) <= Len(batches')
  BY <1>6, <1>7
<1> QED BY <1>10, <1>11, <1>12, <1>13, <1>14, NoNewVersions

\* Undoing an import withdraws every row of it that is in force.
LEMMA UndoesImportKeeps ==
    ASSUME KnowledgeInv, NEW b \in 1..MaxBatches, UndoesImport(b) PROVE KnowledgeInv'
<1> DEFINE withdrawn(i) == [items[i] EXCEPT !.status = "ROLLED_BACK"]
           undone == [batches[b] EXCEPT !.status = "ROLLED_BACK"]
<1>1. TypeOK /\ ActiveImports /\ RowsReferToRows /\ b \in DOMAIN batches
  BY DEF KnowledgeInv, UndoesImport
<1>2. /\ DOMAIN items = 1..Len(items) /\ Len(items) \in Nat
      /\ DOMAIN batches = 1..Len(batches) /\ Len(batches) \in Nat
      /\ \A i \in DOMAIN items : items[i] \in Item
      /\ batches[b] \in Batch
  BY <1>1, Rows
<1>3. undone \in Batch /\ batches' = [batches EXCEPT ![b] = undone]
  BY <1>2 DEF Batch, UndoesImport
<1>4. /\ batches' \in Seq(Batch) /\ Len(batches') = Len(batches)
      /\ \A k \in DOMAIN batches : batches'[k] = IF k = b THEN undone ELSE batches[k]
  <2> HIDE DEF undone
  <2> QED BY <1>1, <1>2, <1>3, ExceptSeq DEF TypeOK
<1>5. /\ DOMAIN items' = 1..Len(items)
      /\ \A i \in DOMAIN items :
            items'[i] = IF items[i].batch = b /\ items[i].status = "ACTIVE"
                        THEN withdrawn(i) ELSE items[i]
  BY <1>2 DEF UndoesImport, Active
<1>6. \A i \in DOMAIN items :
         /\ withdrawn(i) \in Item /\ withdrawn(i).status = "ROLLED_BACK"
         /\ withdrawn(i).batch = items[i].batch
         /\ withdrawn(i).supersedes = items[i].supersedes
  BY <1>2 DEF Item
<1>7. \A i \in 1..Len(items) : items'[i] \in Item
  <2> HIDE DEF withdrawn
  <2> QED BY <1>2, <1>5, <1>6
<1>8. items' = [i \in 1..Len(items) |-> items'[i]]
  BY <1>2 DEF UndoesImport
<1>9. items' \in Seq(Item) /\ Len(items') = Len(items)
  <2>1. items' \in [1..Len(items) -> Item]
    BY <1>7, <1>8
  <2>2. items' \in Seq(Item)
    BY <1>2, <2>1, SeqDef
  <2> QED BY <1>2, <1>5, <2>2, LenProperties
<1>10. dialog' = dialog /\ job' = job
  BY DEF UndoesImport
<1>11. TypeOK'
  BY <1>1, <1>4, <1>9, <1>10 DEF TypeOK
<1>12. RowsGoOn
  <2> HIDE DEF withdrawn
  <2> QED BY <1>2, <1>5, <1>6 DEF RowsGoOn
<1>13. ActiveImports'
  <2> SUFFICES ASSUME NEW i \in DOMAIN items, items'[i].status = "ACTIVE", items'[i].batch # 0
               PROVE  batches'[items'[i].batch].status = "ACTIVE"
    BY <1>2, <1>5 DEF ActiveImports
  <2> HIDE DEF withdrawn, undone
  <2>1. items'[i] = items[i] /\ items[i].batch # b
    BY <1>5, <1>6
  <2>2. items[i].batch \in DOMAIN batches /\ batches[items[i].batch].status = "ACTIVE"
    BY <1>1, <1>2, <2>1 DEF ActiveImports, RowsReferToRows
  <2> QED BY <1>4, <2>1, <2>2
<1> QED BY <1>2, <1>4, <1>5, <1>11, <1>12, <1>13, NoNewVersions

\* An edit puts a new version, of the same import, in the place of one in force.
LEMMA SavesEditKeeps ==
    ASSUME KnowledgeInv, SavesEdit PROVE KnowledgeInv'
<1> DEFINE i == dialog.item
           n == Len(items)
           old == [items[i] EXCEPT !.status = "SUPERSEDED"]
           new == New(items[i].level, items[i].batch, i)
           marked == [items EXCEPT ![i] = old]
<1>1. /\ TypeOK /\ RowsReferToRows /\ VersionsStayTogether /\ ActiveImports
      /\ OneVersionInForce /\ i \in DOMAIN items /\ items[i].status = "ACTIVE"
  BY DEF KnowledgeInv, SavesEdit, Active
<1>2. /\ DOMAIN items = 1..n /\ n \in Nat /\ items[i] \in Item /\ i \in 1..n
      /\ i \in 1..MaxItems /\ Len(batches) \in Nat
  BY <1>1, Rows
<1>3. /\ old \in Item /\ old.batch = items[i].batch /\ old.supersedes = items[i].supersedes
      /\ old.status = "SUPERSEDED"
  BY <1>2 DEF Item
<1>4. /\ new \in Item /\ new.batch = items[i].batch /\ new.supersedes = i
      /\ new.status = "ACTIVE"
  BY <1>2 DEF Item, New
<1>5. /\ items' = Append(marked, new) /\ n < MaxItems /\ dialog' = Cleared
      /\ batches' = batches /\ job' = job
  BY DEF SavesEdit, WithStatus
<1> HIDE DEF old, new
<1>6. /\ marked \in Seq(Item) /\ Len(marked) = n
      /\ \A k \in 1..n : marked[k] = IF k = i THEN old ELSE items[k]
  BY <1>1, <1>2, <1>3, ExceptSeq DEF TypeOK
<1> HIDE DEF marked, i, n
<1>7. /\ items' \in Seq(Item) /\ Len(items') = n + 1
      /\ \A k \in 1..n : items'[k] = IF k = i THEN old ELSE items[k]
      /\ items'[n + 1] = new
  BY <1>4, <1>5, <1>6, AppendProperties
<1>8. DOMAIN items' = 1..(n + 1)
  BY <1>7, LenProperties
<1>9. TypeOK'
  <2>1. n + 1 <= MaxItems
    BY <1>2, <1>5, KnowledgeAssumption
  <2> QED BY <1>1, <1>5, <1>7, <2>1, ClearedIsDialog DEF TypeOK
<1>10. \A k \in 1..n : /\ items'[k].batch = items[k].batch
                       /\ items'[k].supersedes = items[k].supersedes
                       /\ items'[k].status = "ACTIVE" => k # i /\ items[k].status = "ACTIVE"
  BY <1>3, <1>7
<1>11. \A k \in 1..n : /\ items[k].supersedes \in 0..(k - 1)
                       /\ items[k].batch \in 0..Len(batches)
  BY <1>1, <1>2 DEF RowsReferToRows
<1>12. RowsReferToRows'
  BY <1>2, <1>4, <1>5, <1>7, <1>8, <1>10, <1>11 DEF RowsReferToRows
<1>13. VersionsStayTogether'
  <2> SUFFICES ASSUME NEW k \in 1..(n + 1), items'[k].supersedes # 0
               PROVE  items'[items'[k].supersedes].batch = items'[k].batch
    BY <1>8 DEF VersionsStayTogether
  <2>1. CASE k = n + 1
    BY <1>2, <1>4, <1>7, <1>10, <2>1
  <2>2. CASE k # n + 1
    <3>1. k \in 1..n
      BY <1>2, <2>2
    <3>2. items[k].supersedes \in 1..n /\ items[k].supersedes # 0
      BY <1>2, <1>10, <1>11, <3>1
    <3>3. items[items[k].supersedes].batch = items[k].batch
      BY <1>1, <1>2, <3>1, <3>2 DEF VersionsStayTogether
    <3> QED BY <1>10, <3>1, <3>2, <3>3
  <2> QED BY <2>1, <2>2
<1>14. ActiveImports'
  <2> SUFFICES ASSUME NEW k \in 1..(n + 1), items'[k].status = "ACTIVE", items'[k].batch # 0
               PROVE  batches[items'[k].batch].status = "ACTIVE"
    BY <1>5, <1>8 DEF ActiveImports
  <2>1. CASE k = n + 1
    BY <1>1, <1>4, <1>7, <2>1 DEF ActiveImports
  <2>2. CASE k # n + 1
    <3>1. k \in 1..n
      BY <1>2, <2>2
    <3> QED BY <1>1, <1>2, <1>10, <3>1 DEF ActiveImports
  <2> QED BY <2>1, <2>2
<1>15. OneVersionInForce'
  <2>1. \A k \in 1..n : items[k].supersedes # i
    BY <1>1, <1>2 DEF OneVersionInForce, Active
  <2> SUFFICES ASSUME NEW k \in 1..(n + 1), items'[k].supersedes # 0
               PROVE  /\ items'[k].supersedes \in 1..n
                      /\ items'[items'[k].supersedes].status # "ACTIVE"
                      /\ \A r \in 1..(n + 1) : items'[r].supersedes = items'[k].supersedes => r = k
    BY <1>2, <1>8 DEF OneVersionInForce, Active
  <2>2. CASE k = n + 1
    <3>1. items'[k].supersedes = i
      BY <1>4, <1>7, <2>2
    <3>2. \A r \in 1..n : items'[r].supersedes # i
      BY <1>10, <2>1
    <3> QED BY <1>2, <1>10, <2>2, <3>1, <3>2
  <2>3. CASE k # n + 1
    <3>1. k \in 1..n
      BY <1>2, <2>3
    <3>2. /\ items'[k].supersedes = items[k].supersedes /\ items[k].supersedes \in 1..n
          /\ items[k].supersedes # 0 /\ items[k].supersedes # i
      BY <1>2, <1>10, <1>11, <2>1, <3>1
    <3>3. /\ items[items[k].supersedes].status # "ACTIVE"
          /\ \A r \in 1..n : items[r].supersedes = items[k].supersedes => r = k
      BY <1>1, <1>2, <3>1, <3>2 DEF OneVersionInForce, Active
    <3>4. items'[n + 1].supersedes = i
      BY <1>4, <1>7
    <3> QED BY <1>2, <1>10, <3>1, <3>2, <3>3, <3>4
  <2> QED BY <2>2, <2>3
<1> QED BY <1>9, <1>12, <1>13, <1>14, <1>15 DEF KnowledgeInv

-----------------------------------------------------------------------------
(* The theorems.                                                           *)

\* The inductive invariant.
THEOREM KnowledgeInvariant == Spec => []KnowledgeInv
<1>1. Init => KnowledgeInv
  <2> SUFFICES ASSUME Init PROVE KnowledgeInv
    OBVIOUS
  <2>1. /\ items \in Seq(Item) /\ DOMAIN items = {} /\ Len(items) = 0
        /\ batches \in Seq(Batch) /\ Len(batches) = 0
    BY EmptySeq DEF Init
  <2>2. TypeOK
    BY <2>1, ClearedIsDialog, KnowledgeAssumption DEF Init, TypeOK
  <2> QED
    BY <2>1, <2>2 DEF KnowledgeInv, RowsReferToRows, VersionsStayTogether, ActiveImports,
                      OneVersionInForce
<1>2. KnowledgeInv /\ [Next]_vars => KnowledgeInv'
  <2> SUFFICES ASSUME KnowledgeInv, [Next]_vars PROVE KnowledgeInv'
    OBVIOUS
  <2> USE KnowledgeAssumption DEF Levels
  <2>1. /\ dialog \in Dialogs /\ Cleared \in Dialogs
        /\ job \in [Imports -> Sources \cup {NoSource}]
    BY ClearedIsDialog DEF KnowledgeInv, TypeOK
  <2>2. CASE OpensScreen \/ EditComesTooLate \/ CommitsAgain \/ StartsRewording \/ Crash
    BY <2>1, <2>2, DialogKeeps DEF OpensScreen, EditComesTooLate, CommitsAgain,
                                   StartsRewording, Crash, Dialogs, Cleared
  <2>3. ASSUME NEW i \in 1..MaxItems, StartsEdit(i) PROVE KnowledgeInv'
    <3>1. i \in 0..MaxItems
      BY <2>3
    <3>2. [Cleared EXCEPT !.at = "editing", !.item = i] \in Dialogs
      BY <2>1, <3>1 DEF Dialogs
    <3> QED BY <2>1, <2>3, <3>2, DialogKeeps DEF StartsEdit
  <2>4. CASE Rewords
    <3>1. [dialog EXCEPT !.at = "nowhere", !.edited = TRUE] \in Dialogs
      BY <2>1 DEF Dialogs
    <3> QED BY <2>1, <2>4, <3>1, DialogKeeps DEF Rewords
  <2>5. ASSUME NEW l \in Offered, ChoosesLevel(l) \/ StartsImport(l) PROVE KnowledgeInv'
    <3>1. /\ [dialog EXCEPT !.adds = l, !.at = "adding"] \in Dialogs
          /\ [Cleared EXCEPT !.at = "source", !.bulk = l] \in Dialogs
      BY <2>1 DEF Dialogs, Cleared
    <3> QED BY <2>1, <2>5, <3>1, DialogKeeps DEF ChoosesLevel, StartsImport
  <2>6. ASSUME NEW j \in Imports, NEW s \in Sources, SendsSource(j, s) PROVE KnowledgeInv'
    BY <2>1, <2>6, DialogKeeps DEF SendsSource
  <2>7. ASSUME NEW j \in Imports, FindsNothing(j) \/ AnalysisFails(j) PROVE KnowledgeInv'
    BY <2>1, <2>7, DialogKeeps DEF FindsNothing, AnalysisFails
  <2>8. ASSUME NEW j \in Imports, NEW k \in 1..Yield, ShowsPreview(j, k) PROVE KnowledgeInv'
    <3>1. job[j] \in Sources
      BY <2>1, <2>8 DEF ShowsPreview
    <3>2. [dialog EXCEPT !.at = "nowhere", !.preview = [source |-> job[j], size |-> k]] \in Dialogs
      BY <2>1, <3>1 DEF Dialogs, Preview
    <3> QED BY <2>1, <2>8, <3>2, DialogKeeps DEF ShowsPreview
  <2>9. ASSUME NEW l \in Offered, LearnsByCommand(l) PROVE KnowledgeInv'
    BY <2>1, <2>9, LessonKeeps DEF LearnsByCommand
  <2>10. CASE Writes \/ Learns
    <3>1. LevelOf(dialog.adds) \in Levels /\ "INTERNAL" \in Levels
      BY <2>1 DEF Dialogs, LevelOf, Levels
    <3> QED BY <2>1, <2>10, <3>1, LessonKeeps DEF Writes, Learns
  <2>11. ASSUME NEW i \in 1..MaxItems, Forgets(i) \/ Deletes(i) \/ TurnsLevel(i)
         PROVE  KnowledgeInv'
    BY <2>11, RowChangeKeeps
  <2>12. CASE SavesEdit
    BY <2>12, SavesEditKeeps
  <2>13. CASE Commits
    BY <2>13, CommitsKeeps
  <2>14. ASSUME NEW b \in 1..MaxBatches, UndoesImport(b) PROVE KnowledgeInv'
    BY <2>14, UndoesImportKeeps
  <2>15. CASE UNCHANGED vars
    BY <2>1, <2>15, DialogKeeps DEF vars
  <2> QED
    BY <2>2, <2>3, <2>4, <2>5, <2>6, <2>7, <2>8, <2>9, <2>10, <2>11, <2>12, <2>13, <2>14,
       <2>15 DEF Next, ItemStep, WizardStep, ImportStep
<1> QED BY <1>1, <1>2, PTL DEF Spec

\* Every reachable state of the tables and the dialog is well typed.
THEOREM KnowledgeTypes == Spec => []TypeOK
<1>1. KnowledgeInv => TypeOK
  BY DEF KnowledgeInv
<1> QED BY <1>1, KnowledgeInvariant, PTL

\* Nothing of an undone import can reach the model, later versions of its items
\* included (knowledge/admin.py:152).
THEOREM UndoneImportsLeaveNothing == Spec => []UndoneLeavesNothing
<1>1. KnowledgeInv => UndoneLeavesNothing
  <2> SUFFICES ASSUME KnowledgeInv, NEW i \in DOMAIN items, Usable(i),
                      NEW k \in {i, items[i].supersedes} \ {0}, items[k].batch # 0
               PROVE  batches[items[k].batch].status = "ACTIVE"
    BY DEF UndoneLeavesNothing
  <2>1. items[k].batch = items[i].batch
    BY DEF KnowledgeInv, VersionsStayTogether
  <2> QED BY <2>1 DEF KnowledgeInv, ActiveImports, Usable, Active
<1> QED BY <1>1, KnowledgeInvariant, PTL

\* A replaced item is not in force, and is replaced by one version only
\* (knowledge/admin.py:99).
THEOREM VersionsDoNotFork == Spec => []OneVersionInForce
<1>1. KnowledgeInv => OneVersionInForce
  BY DEF KnowledgeInv
<1> QED BY <1>1, KnowledgeInvariant, PTL
=============================================================================
