---------------------------- MODULE ContactMemory ----------------------------
(***************************************************************************)
(* What the secretary remembers about the people it writes with            *)
(* (app/memory/service.py, brain/service.py, telegram/memory_ui.py): a row *)
(* of memory per contact, which the owner fills by hand or by approving    *)
(* suggestions that the model extracts from the conversation; the consent  *)
(* to remember; and the date after which a memory is no longer used.       *)
(*                                                                         *)
(* The extraction awaits the model between the look at the consent and the *)
(* new suggestion; everything else runs without a real await.              *)
(*                                                                         *)
(* The definitions whose comment starts with "Slip:" are faulty variants   *)
(* of the definition that follows them; no specification uses them.        *)
(***************************************************************************)
EXTENDS Naturals, Sequences

CONSTANTS
    Contacts,       \* the people
    Keys,           \* what can be remembered: the summary, titles of facts ...
    Section,        \* where each key belongs
    Extractions,    \* slots for running memory_suggest handlers
    MaxSuggestions  \* bound on the rows of memory_suggestions

Sections == {"summary", "facts", "preferences"}

ASSUME MemoryAssumption ==
    /\ Section \in [Keys -> Sections]
    /\ MaxSuggestions \in Nat

VARIABLES
    memory,         \* the table contact_memories, by contact
    allowed,        \* the contacts with memory_allowed
    suggestions,    \* the table memory_suggestions; an id is a position
    overdue,        \* the suggestions whose expires_at has passed
    dialog,         \* state and data of the owner's FSM context
    job,            \* whom every running extraction is about
    cleared         \* ghost: suggestions older than the last clearing of their contact

vars == <<memory, allowed, suggestions, overdue, dialog, job, cleared>>

-----------------------------------------------------------------------------
Ids == 1..MaxSuggestions

\* Who said it: the owner, or the suggestion with this id.
Manual == 0
Origins == {Manual} \cup Ids

\* Who is meant when a handler, or the dialog, is about nobody.
Nobody == "nobody"

\* Some keys with the origin of each.
Entries == UNION {[K -> Origins] : K \in SUBSET Keys}

NoEntries == [k \in {} |-> Manual]

\* `content` stands for summary, facts_json and preferences_json, an entry by who
\* wrote it; `provenance` for provenance_json, which is stored beside them.
Row == [content : Entries, provenance : Entries, shared : BOOLEAN,
        retention : {"UNLIMITED", "RUNNING", "OVER"}]

\* A contact without a row is treated like one with this row, which is also what a
\* private note alone leaves: the note itself is read by nobody but the owner.
NoMemory == [content |-> NoEntries, provenance |-> NoEntries, shared |-> TRUE,
             retention |-> "UNLIMITED"]

Suggestion == [contact : Contacts, keys : (SUBSET Keys) \ {{}},
               status : {"PENDING", "APPROVED", "REJECTED", "SUPERSEDED", "EXPIRED"}]

Cleared == [at |-> "nowhere", contact |-> Nobody]

Dialogs == {Cleared} \cup [at : Sections \cup {"private"}, contact : Contacts]

TypeOK ==
    /\ memory \in [Contacts -> Row]
    /\ allowed \subseteq Contacts
    /\ suggestions \in Seq(Suggestion) /\ Len(suggestions) <= MaxSuggestions
    /\ overdue \subseteq DOMAIN suggestions
    /\ dialog \in Dialogs
    /\ job \in [Extractions -> Contacts \cup {Nobody}]
    /\ cleared \subseteq DOMAIN suggestions

Init ==
    /\ memory = [c \in Contacts |-> NoMemory]
    /\ allowed = Contacts
    /\ suggestions = <<>>
    /\ overdue = {}
    /\ dialog = Cleared
    /\ job = [j \in Extractions |-> Nobody]
    /\ cleared = {}

Pending(s) == s \in DOMAIN suggestions /\ suggestions[s].status = "PENDING"

\* Every open suggestion about c gets this status.
Resolved(c, status) ==
    [s \in DOMAIN suggestions |->
        IF suggestions[s].contact = c /\ Pending(s)
        THEN [suggestions[s] EXCEPT !.status = status] ELSE suggestions[s]]

WithStatus(s, status) == [suggestions EXCEPT ![s].status = status]

\* entries without `gone`, and with `keys` from the given origin.
Written(entries, gone, keys, origin) ==
    [k \in (DOMAIN entries \ gone) \cup keys |-> IF k \in keys THEN origin ELSE entries[k]]

\* memory_for_ai: what the model is given about a person.
ForAI(c) ==
    IF memory[c].shared /\ c \in allowed /\ memory[c].retention # "OVER"
    THEN memory[c].content ELSE NoEntries

-----------------------------------------------------------------------------
(* The owner writes.                                                       *)

\* Any screen that starts by forgetting what the dialog was about.
OpensScreen ==
    /\ dialog' = Cleared
    /\ UNCHANGED <<memory, allowed, suggestions, overdue, job, cleared>>

\* The buttons for a new summary, facts, preferences or private note.
StartsEdit(c, at) ==
    /\ dialog' = [at |-> at, contact |-> c]
    /\ UNCHANGED <<memory, allowed, suggestions, overdue, job, cleared>>

\* Slip: what the section held stays in the record of its sources.
SavesSectionOverOldSources(keys) ==
    LET c == dialog.contact
        gone == {k \in Keys : Section[k] = dialog.at}
    IN  /\ dialog.at \in Sections
        /\ keys \subseteq gone
        /\ memory' = [memory EXCEPT
               ![c].content = Written(@, gone, keys, Manual),
               ![c].provenance = Written(@, {}, keys, Manual),
               ![c].retention = "RUNNING"]
        /\ dialog' = Cleared
        /\ UNCHANGED <<allowed, suggestions, overdue, job, cleared>>

\* What the owner typed takes the place of the whole section; "-" empties it.
SavesSection(keys) ==
    LET c == dialog.contact
        gone == {k \in Keys : Section[k] = dialog.at}
    IN  /\ dialog.at \in Sections
        /\ keys \subseteq gone
        /\ memory' = [memory EXCEPT
               ![c].content = Written(@, gone, keys, Manual),
               ![c].provenance = Written(@, gone, keys, Manual),
               ![c].retention = "RUNNING"]
        /\ dialog' = Cleared
        /\ UNCHANGED <<allowed, suggestions, overdue, job, cleared>>

SavesPrivateNote ==
    /\ dialog.at = "private"
    /\ dialog' = Cleared
    /\ UNCHANGED <<memory, allowed, suggestions, overdue, job, cleared>>

TurnsSharing(c) ==
    /\ memory' = [memory EXCEPT ![c].shared = ~@]
    /\ UNCHANGED <<allowed, suggestions, overdue, dialog, job, cleared>>

\* The button on the contact's card says what it turns the consent to.
SetsConsent(c, enabled) ==
    /\ allowed' = IF enabled THEN allowed \cup {c} ELSE allowed \ {c}
    /\ UNCHANGED <<memory, suggestions, overdue, dialog, job, cleared>>

\* Slip: suggestions that wait for the owner are forgotten about.
ClearsRowOnly(c) ==
    /\ memory' = [memory EXCEPT ![c] = NoMemory]
    /\ cleared' = cleared \cup {s \in DOMAIN suggestions : suggestions[s].contact = c}
    /\ UNCHANGED <<allowed, suggestions, overdue, dialog, job>>

\* memory_clear_confirm; an open dialog or a running extraction goes on.
Clears(c) ==
    /\ memory' = [memory EXCEPT ![c] = NoMemory]
    /\ suggestions' = Resolved(c, "REJECTED")
    /\ cleared' = cleared \cup {s \in DOMAIN suggestions : suggestions[s].contact = c}
    /\ UNCHANGED <<allowed, overdue, dialog, job>>

-----------------------------------------------------------------------------
(* Suggestions.                                                            *)

\* memory_suggest until the model is asked.
AsksForSuggestion(j, c) ==
    /\ job[j] = Nobody
    /\ c \in allowed
    /\ job' = [job EXCEPT ![j] = c]
    /\ UNCHANGED <<memory, allowed, suggestions, overdue, dialog, cleared>>

\* The model fails, or finds nothing worth keeping.
FindsNothing(j) ==
    /\ job[j] # Nobody
    /\ job' = [job EXCEPT ![j] = Nobody]
    /\ UNCHANGED <<memory, allowed, suggestions, overdue, dialog, cleared>>

\* create_memory_suggestion: the new suggestion takes the place of one that is open.
Suggests(j, keys) ==
    /\ job[j] # Nobody
    /\ keys # {}
    /\ Len(suggestions) < MaxSuggestions
    /\ suggestions' = Append(Resolved(job[j], "SUPERSEDED"),
                             [contact |-> job[j], keys |-> keys, status |-> "PENDING"])
    /\ job' = [job EXCEPT ![j] = Nobody]
    /\ UNCHANGED <<memory, allowed, overdue, dialog, cleared>>

\* Slip: the date of the row is left as it is.
MergesUndated(s) ==
    LET c == suggestions[s].contact
    IN  memory' = [memory EXCEPT
            ![c].content = Written(@, {}, suggestions[s].keys, s),
            ![c].provenance = Written(@, {}, suggestions[s].keys, s)]

\* The suggestion is merged into the row, which counts as reviewed.
Merges(s) ==
    LET c == suggestions[s].contact
    IN  memory' = [memory EXCEPT
            ![c].content = Written(@, {}, suggestions[s].keys, s),
            ![c].provenance = Written(@, {}, suggestions[s].keys, s),
            ![c].retention = "RUNNING"]

\* approve_memory_suggestion.
Approves(s) ==
    /\ Pending(s)
    /\ s \notin overdue
    /\ Merges(s)
    /\ suggestions' = WithStatus(s, "APPROVED")
    /\ UNCHANGED <<allowed, overdue, dialog, job, cleared>>

\* Slip: the status of a suggestion approved too late is one that nothing reads.
ApprovesTooLateClosed(s) ==
    /\ Pending(s)
    /\ s \in overdue
    /\ suggestions' = WithStatus(s, "CLOSED")
    /\ UNCHANGED <<memory, allowed, overdue, dialog, job, cleared>>

\* The same button after the suggestion's time.
ApprovesTooLate(s) ==
    /\ Pending(s)
    /\ s \in overdue
    /\ suggestions' = WithStatus(s, "EXPIRED")
    /\ UNCHANGED <<memory, allowed, overdue, dialog, job, cleared>>

Rejects(s) ==
    /\ Pending(s)
    /\ suggestions' = WithStatus(s, "REJECTED")
    /\ UNCHANGED <<memory, allowed, overdue, dialog, job, cleared>>

-----------------------------------------------------------------------------
(* Time and crashes.                                                       *)

SuggestionLapses(s) ==
    /\ Pending(s)
    /\ overdue' = overdue \cup {s}
    /\ UNCHANGED <<memory, allowed, suggestions, dialog, job, cleared>>

RetentionEnds(c) ==
    /\ memory[c].retention = "RUNNING"
    /\ memory' = [memory EXCEPT ![c].retention = "OVER"]
    /\ UNCHANGED <<allowed, suggestions, overdue, dialog, job, cleared>>

\* The process dies: dialog and extractions were in memory only.
Crash ==
    /\ dialog' = Cleared
    /\ job' = [j \in Extractions |-> Nobody]
    /\ UNCHANGED <<memory, allowed, suggestions, overdue, cleared>>

-----------------------------------------------------------------------------
ContactStep(c) ==
    \/ \E at \in Sections \cup {"private"} : StartsEdit(c, at)
    \/ TurnsSharing(c)
    \/ \E enabled \in BOOLEAN : SetsConsent(c, enabled)
    \/ Clears(c)
    \/ \E j \in Extractions : AsksForSuggestion(j, c)
    \/ RetentionEnds(c)

SuggestionStep(s) ==
    \/ Approves(s)
    \/ ApprovesTooLate(s)
    \/ Rejects(s)
    \/ SuggestionLapses(s)

Next ==
    \/ \E c \in Contacts : ContactStep(c)
    \/ \E s \in Ids : SuggestionStep(s)
    \/ \E keys \in SUBSET Keys : SavesSection(keys)
    \/ \E j \in Extractions :
          FindsNothing(j) \/ \E keys \in SUBSET Keys : Suggests(j, keys)
    \/ SavesPrivateNote
    \/ OpensScreen
    \/ Crash

Spec == Init /\ [][Next]_vars

-----------------------------------------------------------------------------
\* The owner typed what is remembered of c under k, or approved it in the suggestion s
\* about c that had it, and nothing was cleared since.
TrueOrigin(c, k, s) ==
    s # Manual =>
        /\ s \in DOMAIN suggestions \ cleared
        /\ suggestions[s].contact = c
        /\ k \in suggestions[s].keys
        /\ suggestions[s].status = "APPROVED"

\* docs/M8_MEMORY_INTELLIGENCE.md:13 and :25: the record of sources tells the truth
\* about every entry that is stored, and has no other.
SourcesAreTrue ==
    \A c \in Contacts :
        /\ memory[c].provenance = memory[c].content
        /\ \A k \in DOMAIN memory[c].content : TrueOrigin(c, k, memory[c].content[k])

\* docs/M8_MEMORY_INTELLIGENCE.md:11 and :16: only the newest suggestion about a person
\* can be approved, and none from before the person's memory was cleared, however
\* extractions overlap and whichever old card is pressed.
OnlyNewestIsOpen ==
    \A s \in DOMAIN suggestions : Pending(s) =>
        /\ s \notin cleared
        /\ \A r \in DOMAIN suggestions :
              suggestions[r].contact = suggestions[s].contact => r <= s

\* memory_for_ai takes a row without a date for one that never ends: nothing that the
\* model is given about a person is in such a row, whoever filled it.
EverythingEnds ==
    \A c \in Contacts : ForAI(c) # NoEntries => memory[c].retention = "RUNNING"
=============================================================================
