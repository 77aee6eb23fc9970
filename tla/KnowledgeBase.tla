---------------------------- MODULE KnowledgeBase ----------------------------
(***************************************************************************)
(* What the owner teaches the secretary (app/knowledge, the screens        *)
(* knowledge_manage_ui, bulk_knowledge_ui and brain_ui, the commands and   *)
(* the lessons of app/telegram): items with versions, imports of whole     *)
(* sources that can be undone, and the one dialog that all screens of the  *)
(* owner share (aiogram's FSM context, kept in memory).                    *)
(*                                                                         *)
(* A handler runs without an await between reading the dialog and its      *)
(* commit, but the analysis of a source by the model: it outlives the      *)
(* dialog it was started in.                                               *)
(*                                                                         *)
(* The definitions whose comment starts with "Slip:" are faulty variants   *)
(* of the definition that follows them; no specification uses them.        *)
(***************************************************************************)
EXTENDS Naturals, Sequences

CONSTANTS
    Sources,    \* texts the owner imports, told apart by their hash
    Imports,    \* slots for analyses that run
    Offered,    \* the levels that the owner chooses from, of the three
    Yield,      \* bound on the items that one analysis finds
    MaxItems,   \* bound on the rows of knowledge_items
    MaxBatches  \* bound on the rows of knowledge_batches

ASSUME KnowledgeAssumption ==
    /\ Offered \subseteq {"PUBLIC", "INTERNAL", "PRIVATE"}
    /\ Yield \in Nat \ {0}
    /\ {MaxItems, MaxBatches} \subseteq Nat

VARIABLES
    items,      \* the table knowledge_items; an id is a position
    batches,    \* the table knowledge_batches
    dialog,     \* state and data of the owner's FSM context
    job         \* the analyses under way (bulk_receive)

vars == <<items, batches, dialog, job>>

-----------------------------------------------------------------------------
Levels == {"PUBLIC", "INTERNAL", "PRIVATE"}

\* Items that belong to no import, or replace none, have 0 there.
Item == [status : {"ACTIVE", "SUPERSEDED", "DELETED", "ROLLED_BACK"}, level : Levels,
         batch : 0..MaxBatches, supersedes : 0..MaxItems]

Batch == [source : Sources, level : Levels, status : {"ACTIVE", "ROLLED_BACK"}]

NoPreview == [size |-> 0]

\* The items that were found in a source and wait for the owner's word.
Preview == [source : Sources, size : 1..Yield]

NoSource == "none"

Cleared ==
    [at |-> "nowhere", item |-> 0, bulk |-> "UNSET", adds |-> "UNSET",
     edited |-> FALSE, preview |-> NoPreview]

\* `at` is the state, "nowhere" if a message of the owner would not get into a table
\* of this module; the other fields are the data: knowledge_item_id, bulk_visibility,
\* knowledge_visibility, edited_text and bulk_candidates.
Dialogs ==
    [at : {"nowhere", "source", "editing", "adding", "rewording"},
     item : 0..MaxItems, bulk : Levels \cup {"UNSET"}, adds : Levels \cup {"UNSET"},
     edited : BOOLEAN, preview : Preview \cup {NoPreview}]

TypeOK ==
    /\ items \in Seq(Item) /\ Len(items) <= MaxItems
    /\ batches \in Seq(Batch) /\ Len(batches) <= MaxBatches
    /\ dialog \in Dialogs
    /\ job \in [Imports -> Sources \cup {NoSource}]

Init ==
    /\ items = <<>>
    /\ batches = <<>>
    /\ dialog = Cleared
    /\ job = [j \in Imports |-> NoSource]

-----------------------------------------------------------------------------
(* The table of items (app/knowledge/admin.py).                            *)

\* Slip: data that is missing is stored as it is.
LevelAsIs(l) == l

\* What a handler makes of a level that the dialog may have lost.
LevelOf(l) == IF l = "UNSET" THEN "INTERNAL" ELSE l

New(l, b, old) == [status |-> "ACTIVE", level |-> l, batch |-> b, supersedes |-> old]

\* add_knowledge, n times.
Add(n, l, b) ==
    /\ Len(items) + n <= MaxItems
    /\ items' = items \o [k \in 1..n |-> New(l, b, 0)]

WithStatus(i, s) == [items EXCEPT ![i].status = s]

\* Slip: every row that is there can be edited.
Present(i) == i \in DOMAIN items

\* _owned_item, and the same test again in supersede_knowledge.
Active(i) == i \in DOMAIN items /\ items[i].status = "ACTIVE"

\* What retrieve_knowledge can hand to the model.
Usable(i) == Active(i) /\ items[i].level # "PRIVATE"

-----------------------------------------------------------------------------
(* Single items.                                                           *)

\* Any screen that starts by forgetting what the dialog was about.
OpensScreen ==
    /\ dialog' = Cleared
    /\ UNCHANGED <<items, batches, job>>

\* /learn.
LearnsByCommand(l) ==
    /\ Add(1, l, 0)
    /\ UNCHANGED <<batches, dialog, job>>

\* /forgetknowledge, and a delete button of an old list: whatever the status is.
Forgets(i) ==
    /\ i \in DOMAIN items
    /\ items' = WithStatus(i, "DELETED")
    /\ UNCHANGED <<batches, dialog, job>>

\* The delete button of an item.
Deletes(i) ==
    /\ Active(i)
    /\ items' = WithStatus(i, "DELETED")
    /\ UNCHANGED <<batches, dialog, job>>

\* The button that turns the level of an item.
TurnsLevel(i) ==
    /\ Active(i)
    /\ items' = [items EXCEPT ![i].level =
                    CASE @ = "PUBLIC" -> "INTERNAL"
                      [] @ = "INTERNAL" -> "PRIVATE"
                      [] @ = "PRIVATE" -> "PUBLIC"]
    /\ UNCHANGED <<batches, dialog, job>>

\* The buttons for a new title or content, be the item still current or not.
StartsEdit(i) ==
    /\ i \in DOMAIN items
    /\ dialog' = [Cleared EXCEPT !.at = "editing", !.item = i]
    /\ UNCHANGED <<items, batches, job>>

\* Slip: the new version forgets the import it came with.
SavesEditAsOwn ==
    /\ dialog.at = "editing"
    /\ Active(dialog.item)
    /\ Len(items) < MaxItems
    /\ items' = Append(WithStatus(dialog.item, "SUPERSEDED"),
                       New(items[dialog.item].level, 0, dialog.item))
    /\ dialog' = Cleared
    /\ UNCHANGED <<batches, job>>

\* supersede_knowledge: the text becomes a new version of the item.
SavesEdit ==
    LET i == dialog.item
    IN  /\ dialog.at = "editing"
        /\ Active(i)
        /\ Len(items) < MaxItems
        /\ items' = Append(WithStatus(i, "SUPERSEDED"), New(items[i].level, items[i].batch, i))
        /\ dialog' = Cleared
        /\ UNCHANGED <<batches, job>>

\* The item was edited, deleted or withdrawn since the button was pressed.
EditComesTooLate ==
    /\ dialog.at = "editing"
    /\ ~Active(dialog.item)
    /\ dialog' = Cleared
    /\ UNCHANGED <<items, batches, job>>

\* The wizard for a new item: level, title, content.  The choice of the level does
\* not clear what the dialog held before.
ChoosesLevel(l) ==
    /\ dialog' = [dialog EXCEPT !.adds = l, !.at = "adding"]
    /\ UNCHANGED <<items, batches, job>>

\* Title and content come in two messages; nothing tells the state between them apart.
Writes ==
    /\ dialog.at = "adding"
    /\ Add(1, LevelOf(dialog.adds), 0)
    /\ dialog' = Cleared
    /\ UNCHANGED <<batches, job>>

\* The owner rewords a draft (the draft is ApprovalLedger's) and may keep the text as
\* an internal lesson.
StartsRewording ==
    /\ dialog' = [Cleared EXCEPT !.at = "rewording"]
    /\ UNCHANGED <<items, batches, job>>

Rewords ==
    /\ dialog.at = "rewording"
    /\ dialog' = [dialog EXCEPT !.at = "nowhere", !.edited = TRUE]
    /\ UNCHANGED <<items, batches, job>>

Learns ==
    /\ dialog.edited
    /\ Add(1, "INTERNAL", 0)
    /\ dialog' = Cleared
    /\ UNCHANGED <<batches, job>>

-----------------------------------------------------------------------------
(* Imports.                                                                *)

\* bulk_start.
StartsImport(l) ==
    /\ dialog' = [Cleared EXCEPT !.at = "source", !.bulk = l]
    /\ UNCHANGED <<items, batches, job>>

\* bulk_receive: the dialog stays where it is while the model reads the source.
SendsSource(j, s) ==
    /\ dialog.at = "source"
    /\ job[j] = NoSource
    /\ job' = [job EXCEPT ![j] = s]
    /\ UNCHANGED <<items, batches, dialog>>

\* The preview is shown, under the level that was chosen when the analysis began; its
\* items wait in the dialog of this moment.
ShowsPreview(j, n) ==
    /\ job[j] # NoSource
    /\ dialog' = [dialog EXCEPT !.at = "nowhere",
                                  !.preview = [source |-> job[j], size |-> n]]
    /\ job' = [job EXCEPT ![j] = NoSource]
    /\ UNCHANGED <<items, batches>>

FindsNothing(j) ==
    /\ job[j] # NoSource
    /\ job' = [job EXCEPT ![j] = NoSource]
    /\ UNCHANGED <<items, batches, dialog>>

AnalysisFails(j) ==
    /\ job[j] # NoSource
    /\ job' = [job EXCEPT ![j] = NoSource]
    /\ dialog' = Cleared
    /\ UNCHANGED <<items, batches>>

Imported(s) == \E b \in DOMAIN batches : batches[b].source = s /\ batches[b].status = "ACTIVE"

\* bulk_commit, save_bulk_candidates: the preview and the level are the dialog's.
Commits ==
    LET p == dialog.preview
        level == LevelOf(dialog.bulk)
    IN  /\ p # NoPreview
        /\ ~Imported(p.source)
        /\ Len(batches) < MaxBatches
        /\ batches' = Append(batches, [source |-> p.source, level |-> level, status |-> "ACTIVE"])
        /\ Add(p.size, level, Len(batches) + 1)
        /\ dialog' = Cleared
        /\ UNCHANGED job

\* The source is already there: nothing is stored.
CommitsAgain ==
    /\ dialog.preview # NoPreview
    /\ Imported(dialog.preview.source)
    /\ dialog' = Cleared
    /\ UNCHANGED <<items, batches, job>>

\* rollback_knowledge_batch.
UndoesImport(b) ==
    /\ b \in DOMAIN batches
    /\ batches[b].status = "ACTIVE"
    /\ items' = [i \in DOMAIN items |->
                    IF items[i].batch = b /\ Active(i)
                    THEN [items[i] EXCEPT !.status = "ROLLED_BACK"]
                    ELSE items[i]]
    /\ batches' = [batches EXCEPT ![b].status = "ROLLED_BACK"]
    /\ UNCHANGED <<dialog, job>>

\* The process dies: dialog and analyses were in memory only.
Crash ==
    /\ dialog' = Cleared
    /\ job' = [j \in Imports |-> NoSource]
    /\ UNCHANGED <<items, batches>>

-----------------------------------------------------------------------------
ItemStep(i) == Forgets(i) \/ Deletes(i) \/ TurnsLevel(i) \/ StartsEdit(i)

WizardStep ==
    \/ OpensScreen
    \/ SavesEdit
    \/ EditComesTooLate
    \/ Writes
    \/ StartsRewording
    \/ Rewords
    \/ Learns
    \/ \E l \in Offered : LearnsByCommand(l) \/ ChoosesLevel(l)

ImportStep ==
    \/ \E l \in Offered : StartsImport(l)
    \/ \E j \in Imports :
          \/ \E s \in Sources : SendsSource(j, s)
          \/ \E n \in 1..Yield : ShowsPreview(j, n)
          \/ FindsNothing(j)
          \/ AnalysisFails(j)
    \/ Commits
    \/ CommitsAgain
    \/ \E b \in 1..MaxBatches : UndoesImport(b)

Next ==
    \/ \E i \in 1..MaxItems : ItemStep(i)
    \/ WizardStep
    \/ ImportStep
    \/ Crash

Spec == Init /\ [][Next]_vars

-----------------------------------------------------------------------------
\* docs/KNOWLEDGE_AND_MEMORY.md:106: what an undone import brought is out of the
\* secretary's reach, the versions that the owner made of its items included, be they
\* made before or be their wizard still open when the import is undone.
UndoneLeavesNothing ==
    \A i \in DOMAIN items : Usable(i) =>
        \A k \in {i, items[i].supersedes} \ {0} :
            items[k].batch # 0 => batches[items[k].batch].status = "ACTIVE"

\* Of all versions of an item at most the last is in force: two wizards that were
\* started on one version, or an old list, do not fork it.
OneVersionInForce ==
    \A i \in DOMAIN items : items[i].supersedes # 0 =>
        /\ ~Active(items[i].supersedes)
        /\ \A k \in DOMAIN items : items[k].supersedes = items[i].supersedes => k = i
=============================================================================
