------------------------- MODULE ContactMemoryProofs -------------------------
(***************************************************************************)
(* Proofs about what is remembered, for any number of people, keys,        *)
(* extractions and suggestions.                                            *)
(*                                                                         *)
(* The three properties hold each other up: an approval writes true        *)
(* sources only because an open suggestion is never one from before a      *)
(* clearing (OnlyNewestIsOpen), and an entry keeps its source because only *)
(* open suggestions change.                                                *)
(***************************************************************************)
EXTENDS ContactMemory, SequenceTheorems, TLAPS

Statuses == {"PENDING", "APPROVED", "REJECTED", "SUPERSEDED", "EXPIRED"}

\* A row that holds something has a date of its own.
FilledRowsEnd ==
    \A c \in Contacts : memory[c].content # NoEntries => memory[c].retention # "UNLIMITED"

MemoryInv ==
    /\ TypeOK
    /\ SourcesAreTrue
    /\ OnlyNewestIsOpen
    /\ FilledRowsEnd

-----------------------------------------------------------------------------
(* The helpers.                                                            *)

LEMMA DomainOfSuggestions ==
    ASSUME TypeOK
    PROVE  /\ DOMAIN suggestions = 1..Len(suggestions)
           /\ Len(suggestions) \in Nat
           /\ DOMAIN suggestions \subseteq Ids
           /\ \A s \in DOMAIN suggestions : suggestions[s] \in Suggestion
<1>1. DOMAIN suggestions = 1..Len(suggestions) /\ Len(suggestions) \in Nat
  BY LenProperties DEF TypeOK
<1>2. \A s \in DOMAIN suggestions : suggestions[s] \in Suggestion
  BY <1>1, ElementOfSeq DEF TypeOK
<1>3. DOMAIN suggestions \subseteq Ids
  BY <1>1, MemoryAssumption DEF TypeOK, Ids
<1> QED BY <1>1, <1>2, <1>3

\* Resolving the suggestions about a person changes the status of the open ones.
LEMMA ResolvedRows ==
    ASSUME TypeOK, NEW c \in Contacts, NEW status \in Statuses
    PROVE  /\ Resolved(c, status) \in Seq(Suggestion)
           /\ Len(Resolved(c, status)) = Len(suggestions)
           /\ DOMAIN Resolved(c, status) = DOMAIN suggestions
           /\ \A s \in DOMAIN suggestions :
                 Resolved(c, status)[s] =
                    IF suggestions[s].contact = c /\ suggestions[s].status = "PENDING"
                    THEN [suggestions[s] EXCEPT !.status = status] ELSE suggestions[s]
<1> DEFINE R == Resolved(c, status)
           n == Len(suggestions)
<1>1. DOMAIN suggestions = 1..n /\ n \in Nat
  BY DomainOfSuggestions
<1>2. \A s \in DOMAIN suggestions : suggestions[s] \in Suggestion
  BY DomainOfSuggestions
<1>3. \A s \in DOMAIN suggestions :
         R[s] = IF suggestions[s].contact = c /\ suggestions[s].status = "PENDING"
                THEN [suggestions[s] EXCEPT !.status = status] ELSE suggestions[s]
  BY DEF Resolved, Pending
<1>4. \A s \in DOMAIN suggestions : R[s] \in Suggestion
  <2> TAKE s \in DOMAIN suggestions
  <2>1. suggestions[s] \in Suggestion /\ R[s] \in {suggestions[s], [suggestions[s] EXCEPT !.status = status]}
    <3> HIDE DEF R
    <3> QED BY <1>2, <1>3
  <2> QED BY <2>1 DEF Suggestion, Statuses
<1>5. DOMAIN R = 1..n
  BY <1>1 DEF Resolved
<1>6. R = [s \in 1..n |-> R[s]]
  BY <1>1 DEF Resolved
<1>7. R \in [1..n -> Suggestion]
  <2> HIDE DEF R, n
  <2> QED BY <1>1, <1>4, <1>6
<1>8. R \in Seq(Suggestion)
  BY <1>1, <1>7, SeqDef
<1>9. Len(R) = n
  <2> HIDE DEF R, n
  <2> QED BY <1>1, <1>5, <1>8, LenProperties
<1> QED BY <1>1, <1>3, <1>5, <1>8, <1>9

\* Closing one suggestion leaves the others.
LEMMA ClosedRow ==
    ASSUME TypeOK, NEW t \in DOMAIN suggestions, NEW status \in Statuses
    PROVE  /\ WithStatus(t, status) \in Seq(Suggestion)
           /\ Len(WithStatus(t, status)) = Len(suggestions)
           /\ DOMAIN WithStatus(t, status) = DOMAIN suggestions
           /\ \A s \in DOMAIN suggestions :
                 WithStatus(t, status)[s] =
                    IF s = t THEN [suggestions[t] EXCEPT !.status = status] ELSE suggestions[s]
<1>1. DOMAIN suggestions = 1..Len(suggestions) /\ suggestions[t] \in Suggestion
  BY DomainOfSuggestions
<1>2. [suggestions[t] EXCEPT !.status = status] \in Suggestion
  BY <1>1 DEF Suggestion, Statuses
<1>3. WithStatus(t, status) = [suggestions EXCEPT ![t] = [suggestions[t] EXCEPT !.status = status]]
  BY DEF WithStatus
<1>4. DOMAIN WithStatus(t, status) = DOMAIN suggestions
  BY DEF WithStatus
<1> QED BY <1>1, <1>2, <1>3, <1>4, ExceptSeq DEF TypeOK

\* Writing keys of one origin keeps the other entries that are not gone.
LEMMA WrittenEntries ==
    ASSUME NEW entries \in Entries, NEW gone, NEW keys \in SUBSET Keys, NEW origin \in Origins
    PROVE  /\ Written(entries, gone, keys, origin) \in Entries
           /\ DOMAIN Written(entries, gone, keys, origin) = (DOMAIN entries \ gone) \cup keys
           /\ \A k \in DOMAIN Written(entries, gone, keys, origin) :
                 Written(entries, gone, keys, origin)[k] = IF k \in keys THEN origin ELSE entries[k]
<1>1. PICK K \in SUBSET Keys : entries \in [K -> Origins]
  BY DEF Entries
<1> DEFINE D == (DOMAIN entries \ gone) \cup keys
<1>2. D \in SUBSET Keys
  BY <1>1
<1>3. Written(entries, gone, keys, origin) \in [D -> Origins]
  BY <1>1 DEF Written
<1>4. Written(entries, gone, keys, origin) \in Entries
  BY <1>2, <1>3 DEF Entries
<1> QED BY <1>4 DEF Written

LEMMA NoMemoryIsRow == NoMemory \in Row
<1>1. NoEntries \in [{} -> Origins] /\ {} \in SUBSET Keys
  BY DEF NoEntries
<1>2. NoEntries \in Entries
  BY <1>1 DEF Entries
<1> QED BY <1>2 DEF NoMemory, Row

\* The fields of a row.
LEMMA RowFields ==
    ASSUME TypeOK, NEW c \in Contacts
    PROVE  /\ memory[c] \in Row
           /\ memory[c].content \in Entries
           /\ memory[c].provenance \in Entries
           /\ DOMAIN memory[c].content \subseteq Keys
           /\ memory[c].retention \in {"UNLIMITED", "RUNNING", "OVER"}
<1>1. memory[c] \in Row
  BY DEF TypeOK
<1>2. /\ memory[c].content \in Entries /\ memory[c].provenance \in Entries
      /\ memory[c].retention \in {"UNLIMITED", "RUNNING", "OVER"}
  BY <1>1 DEF Row
<1>3. DOMAIN memory[c].content \subseteq Keys
  BY <1>2 DEF Entries
<1> QED BY <1>1, <1>2, <1>3

-----------------------------------------------------------------------------
(* What a step must do to the two tables to keep the invariant.            *)

\* Suggestions are closed or added; none is changed otherwise or taken back.
TableGoesOn ==
    /\ DOMAIN suggestions \subseteq DOMAIN suggestions'
    /\ \A s \in DOMAIN suggestions :
          /\ suggestions'[s].contact = suggestions[s].contact
          /\ suggestions'[s].keys = suggestions[s].keys
          /\ suggestions[s].status = "APPROVED" => suggestions'[s].status = "APPROVED"

\* A true source stays true while nothing about its person is cleared.
LEMMA OriginsStayTrue ==
    ASSUME TableGoesOn, NEW c, NEW k, NEW s, TrueOrigin(c, k, s),
           \A r \in cleared' \ cleared : suggestions[r].contact # c
    PROVE  TrueOrigin(c, k, s)'
BY DEF TableGoesOn, TrueOrigin

\* Rows that keep what they hold, or lose all of it, keep the invariant.
LEMMA RowsKept ==
    ASSUME MemoryInv, TypeOK', TableGoesOn,
           NEW gone \in SUBSET Contacts,
           \A c \in gone : memory'[c] = NoMemory,
           \A c \in Contacts \ gone :
              /\ memory'[c].content = memory[c].content
              /\ memory'[c].provenance = memory[c].provenance
              /\ memory'[c].retention \in {memory[c].retention, "OVER"}
              /\ \A r \in cleared' \ cleared : suggestions[r].contact # c
    PROVE  SourcesAreTrue' /\ FilledRowsEnd'
<1>1. ASSUME NEW c \in Contacts
      PROVE  /\ memory'[c].provenance = memory'[c].content
             /\ \A k \in DOMAIN memory'[c].content : \A s :
                   s = memory'[c].content[k] => TrueOrigin(c, k, s)'
             /\ memory'[c].content # NoEntries => memory'[c].retention # "UNLIMITED"
  <2>1. CASE c \in gone
    <3>1. memory'[c].content = NoEntries /\ memory'[c].provenance = NoEntries
      BY <2>1 DEF NoMemory
    <3>2. DOMAIN NoEntries = {}
      BY DEF NoEntries
    <3> QED BY <3>1, <3>2
  <2>2. CASE c \notin gone
    <3>1. /\ memory[c].provenance = memory[c].content
          /\ \A k \in DOMAIN memory[c].content : TrueOrigin(c, k, memory[c].content[k])
      BY DEF MemoryInv, SourcesAreTrue
    <3>2. ASSUME NEW k \in DOMAIN memory'[c].content, NEW s, s = memory'[c].content[k]
          PROVE  TrueOrigin(c, k, s)'
      <4>1. k \in DOMAIN memory[c].content /\ s = memory[c].content[k]
        BY <2>2, <3>2
      <4>2. TrueOrigin(c, k, s)
        BY <3>1, <4>1
      <4> QED BY <2>2, <4>2, OriginsStayTrue
    <3>3. memory[c].content # NoEntries => memory[c].retention # "UNLIMITED"
      BY DEF MemoryInv, FilledRowsEnd
    <3>4. memory'[c].content # NoEntries => memory'[c].retention # "UNLIMITED"
      BY <2>2, <3>3
    <3> QED BY <2>2, <3>1, <3>2, <3>4
  <2> QED BY <2>1, <2>2
<1> QED BY <1>1 DEF SourcesAreTrue, FilledRowsEnd, TrueOrigin

\* What a section's wizard and an approval do to the row of c.
Stores(c, gone, keys, origin) ==
    memory' = [memory EXCEPT
        ![c].content = Written(@, gone, keys, origin),
        ![c].provenance = Written(@, gone, keys, origin),
        ![c].retention = "RUNNING"]

LEMMA StoredRow ==
    ASSUME TypeOK, NEW c \in Contacts, NEW gone, NEW keys \in SUBSET Keys,
           NEW origin \in Origins, Stores(c, gone, keys, origin)
    PROVE  /\ memory' \in [Contacts -> Row]
           /\ memory'[c].content = Written(memory[c].content, gone, keys, origin)
           /\ memory'[c].provenance = Written(memory[c].provenance, gone, keys, origin)
           /\ memory'[c].retention = "RUNNING"
           /\ \A d \in Contacts \ {c} : memory'[d] = memory[d]
<1> DEFINE C == Written(memory[c].content, gone, keys, origin)
           P == Written(memory[c].provenance, gone, keys, origin)
<1>1. C \in Entries /\ P \in Entries
  BY RowFields, WrittenEntries
<1>2. memory \in [Contacts -> Row]
  BY DEF TypeOK
<1>3. memory' = [memory EXCEPT ![c] =
         [memory[c] EXCEPT !.content = C, !.provenance = P, !.retention = "RUNNING"]]
  BY <1>2 DEF Stores, Row
<1>4. [memory[c] EXCEPT !.content = C, !.provenance = P, !.retention = "RUNNING"] \in Row
  <2> HIDE DEF C, P
  <2> QED BY <1>1, <1>2 DEF Row
<1>5. /\ memory' \in [Contacts -> Row]
      /\ memory'[c] = [memory[c] EXCEPT !.content = C, !.provenance = P, !.retention = "RUNNING"]
      /\ \A d \in Contacts \ {c} : memory'[d] = memory[d]
  <2> HIDE DEF C, P
  <2> QED BY <1>2, <1>3, <1>4
<1>6. memory'[c].content = C /\ memory'[c].provenance = P /\ memory'[c].retention = "RUNNING"
  <2> HIDE DEF C, P
  <2> QED BY <1>2, <1>5 DEF Row
<1> QED BY <1>5, <1>6

\* A row that is written from a true source keeps the invariant.
LEMMA RowWritten ==
    ASSUME MemoryInv, TableGoesOn, cleared' = cleared,
           NEW c \in Contacts, NEW gone, NEW keys \in SUBSET Keys,
           NEW origin \in Origins, Stores(c, gone, keys, origin),
           \A k \in keys : TrueOrigin(c, k, origin)'
    PROVE  SourcesAreTrue' /\ FilledRowsEnd'
<1>1. TypeOK /\ SourcesAreTrue /\ FilledRowsEnd
  BY DEF MemoryInv
<1>2. ASSUME NEW d \in Contacts
      PROVE  /\ memory'[d].provenance = memory'[d].content
             /\ \A k \in DOMAIN memory'[d].content : \A s :
                   s = memory'[d].content[k] => TrueOrigin(d, k, s)'
             /\ memory'[d].content # NoEntries => memory'[d].retention # "UNLIMITED"
  <2>1. /\ memory[d].provenance = memory[d].content
        /\ \A k \in DOMAIN memory[d].content : TrueOrigin(d, k, memory[d].content[k])
        /\ memory[d].content # NoEntries => memory[d].retention # "UNLIMITED"
    BY <1>1 DEF SourcesAreTrue, FilledRowsEnd
  <2>2. ASSUME NEW k \in DOMAIN memory[d].content, NEW s, s = memory[d].content[k]
        PROVE  TrueOrigin(d, k, s)'
    <3>1. TrueOrigin(d, k, s)
      BY <2>1, <2>2
    <3> QED BY <3>1, OriginsStayTrue
  <2>3. CASE d # c
    <3>1. memory'[d] = memory[d]
      BY <1>1, <2>3, StoredRow
    <3> QED BY <2>1, <2>2, <3>1
  <2>4. CASE d = c
    <3>1. /\ memory'[c].content = Written(memory[c].content, gone, keys, origin)
          /\ memory'[c].provenance = Written(memory[c].provenance, gone, keys, origin)
          /\ memory'[c].retention = "RUNNING"
      BY <1>1, StoredRow
    <3>2. ASSUME NEW k \in DOMAIN memory'[c].content, NEW s, s = memory'[c].content[k]
          PROVE  TrueOrigin(c, k, s)'
      <4>1. \/ k \in keys /\ s = origin
            \/ k \in DOMAIN memory[c].content /\ s = memory[c].content[k]
        <5> DEFINE old == memory[c].content
                   new == Written(old, gone, keys, origin)
        <5>1. /\ DOMAIN new = (DOMAIN old \ gone) \cup keys
              /\ \A i \in DOMAIN new : new[i] = IF i \in keys THEN origin ELSE old[i]
          BY DEF Written
        <5>2. k \in DOMAIN new /\ s = new[k]
          BY <3>1, <3>2
        <5> HIDE DEF new
        <5> QED BY <5>1, <5>2
      <4> QED BY <2>2, <2>4, <4>1
    <3> QED BY <2>1, <2>4, <3>1, <3>2
  <2> QED BY <2>3, <2>4
<1> QED BY <1>2 DEF SourcesAreTrue, FilledRowsEnd, TrueOrigin

\* Closing suggestions, those about a cleared person among them, opens none.
LEMMA StillOnlyNewest ==
    ASSUME OnlyNewestIsOpen,
           DOMAIN suggestions' = DOMAIN suggestions,
           \A s \in DOMAIN suggestions :
              /\ suggestions'[s].contact = suggestions[s].contact
              /\ suggestions'[s].status = "PENDING" =>
                    suggestions[s].status = "PENDING" /\ s \notin cleared' \ cleared
    PROVE  OnlyNewestIsOpen'
BY DEF OnlyNewestIsOpen, Pending

-----------------------------------------------------------------------------
(* The steps.                                                              *)

\* Every step keeps the types; the rows that a step stores are StoredRow's.
LEMMA TypesKept ==
    ASSUME TypeOK, [Next]_vars PROVE TypeOK'
<1> USE DEF TypeOK
<1>1. \A c \in Contacts, at \in Sections \cup {"private"} :
         [at |-> at, contact |-> c] \in Dialogs
  BY DEF Dialogs
<1>2. Cleared \in Dialogs
  BY DEF Dialogs
<1>3. \A d \in Dialogs : d.at \in Sections => d.contact \in Contacts
  BY DEF Dialogs, Cleared, Sections
<1>4. DOMAIN suggestions = 1..Len(suggestions) /\ Len(suggestions) \in Nat
  BY DomainOfSuggestions
<1>5. CASE OpensScreen \/ SavesPrivateNote
  BY <1>2, <1>5 DEF OpensScreen, SavesPrivateNote
<1>6. ASSUME NEW c \in Contacts, NEW at \in Sections \cup {"private"}, StartsEdit(c, at)
      PROVE  TypeOK'
  BY <1>1, <1>6 DEF StartsEdit
<1>7. ASSUME NEW keys \in SUBSET Keys, SavesSection(keys) PROVE TypeOK'
  <2> DEFINE c == dialog.contact
             gone == {k \in Keys : Section[k] = dialog.at}
  <2>1. c \in Contacts
    BY <1>3, <1>7 DEF SavesSection
  <2>2. Stores(c, gone, keys, Manual) /\ Manual \in Origins
    BY <1>7 DEF SavesSection, Stores, Origins
  <2>3. memory' \in [Contacts -> Row]
    <3> HIDE DEF c, gone
    <3> QED BY <2>1, <2>2, StoredRow
  <2> QED BY <1>2, <1>7, <2>3 DEF SavesSection
<1>8. ASSUME NEW c \in Contacts, TurnsSharing(c) \/ RetentionEnds(c) PROVE TypeOK'
  <2> DEFINE turned == [memory[c] EXCEPT !.shared = ~memory[c].shared]
             over == [memory[c] EXCEPT !.retention = "OVER"]
  <2>1. memory[c] \in Row
    OBVIOUS
  <2>2. turned \in Row /\ over \in Row
    BY <2>1 DEF Row
  <2>3. memory' = [memory EXCEPT ![c] = turned] \/ memory' = [memory EXCEPT ![c] = over]
    BY <1>8 DEF TurnsSharing, RetentionEnds
  <2>4. memory' \in [Contacts -> Row]
    <3> HIDE DEF turned, over
    <3> QED BY <2>2, <2>3
  <2> QED BY <1>8, <2>4 DEF TurnsSharing, RetentionEnds
<1>9. ASSUME NEW c \in Contacts, NEW enabled \in BOOLEAN, SetsConsent(c, enabled)
      PROVE  TypeOK'
  BY <1>9 DEF SetsConsent
<1>10. ASSUME NEW c \in Contacts, Clears(c) PROVE TypeOK'
  <2>1. /\ suggestions' \in Seq(Suggestion)
        /\ Len(suggestions') = Len(suggestions)
        /\ DOMAIN suggestions' = DOMAIN suggestions
    BY <1>10, ResolvedRows DEF Clears, Statuses
  <2> QED BY <1>10, <2>1, NoMemoryIsRow DEF Clears
<1>11. ASSUME NEW j \in Extractions, NEW c \in Contacts, AsksForSuggestion(j, c)
       PROVE  TypeOK'
  BY <1>11 DEF AsksForSuggestion
<1>12. ASSUME NEW j \in Extractions, FindsNothing(j) PROVE TypeOK'
  BY <1>12 DEF FindsNothing
<1>13. ASSUME NEW j \in Extractions, NEW keys \in SUBSET Keys, Suggests(j, keys)
       PROVE  TypeOK'
  <2> DEFINE R == Resolved(job[j], "SUPERSEDED")
             new == [contact |-> job[j], keys |-> keys, status |-> "PENDING"]
  <2>1. job[j] \in Contacts
    BY <1>13 DEF Suggests
  <2>2. R \in Seq(Suggestion) /\ Len(R) = Len(suggestions)
    BY <2>1, ResolvedRows DEF Statuses
  <2>3. new \in Suggestion
    BY <1>13, <2>1 DEF Suggests, Suggestion
  <2>4. suggestions' = Append(R, new)
    BY <1>13 DEF Suggests
  <2>5. /\ suggestions' \in Seq(Suggestion)
        /\ Len(suggestions') = Len(suggestions) + 1
    <3> HIDE DEF R, new
    <3> QED BY <2>2, <2>3, <2>4, AppendProperties
  <2>6. DOMAIN suggestions' = 1..Len(suggestions')
    BY <2>5, LenProperties
  <2>7. DOMAIN suggestions \subseteq DOMAIN suggestions'
    BY <1>4, <2>5, <2>6
  <2>8. Len(suggestions') <= MaxSuggestions
    BY <1>4, <1>13, <2>5, MemoryAssumption DEF Suggests
  <2>9. /\ memory' = memory /\ allowed' = allowed /\ overdue' = overdue
        /\ dialog' = dialog /\ cleared' = cleared
        /\ job' \in [Extractions -> Contacts \cup {Nobody}]
    BY <1>13 DEF Suggests
  <2> HIDE DEF R, new
  <2> QED BY <2>5, <2>7, <2>8, <2>9
<1>14. ASSUME NEW s \in Ids, Approves(s) PROVE TypeOK'
  <2>1. s \in DOMAIN suggestions
    BY <1>14 DEF Approves, Pending
  <2> DEFINE c == suggestions[s].contact
             keys == suggestions[s].keys
  <2>2. c \in Contacts /\ keys \in SUBSET Keys /\ s \in Origins
    BY <2>1, DomainOfSuggestions DEF Suggestion, Origins
  <2>3. Stores(c, {}, keys, s)
    BY <1>14 DEF Approves, Merges, Stores
  <2>4. memory' \in [Contacts -> Row]
    <3> HIDE DEF c, keys
    <3> QED BY <2>2, <2>3, StoredRow
  <2> QED BY <1>14, <2>1, <2>4, ClosedRow DEF Approves, Statuses
<1>15. ASSUME NEW s \in Ids, ApprovesTooLate(s) \/ Rejects(s) PROVE TypeOK'
  <2>1. s \in DOMAIN suggestions
    BY <1>15 DEF ApprovesTooLate, Rejects, Pending
  <2> QED BY <1>15, <2>1, ClosedRow DEF ApprovesTooLate, Rejects, Statuses
<1>16. ASSUME NEW s \in Ids, SuggestionLapses(s) PROVE TypeOK'
  BY <1>16 DEF SuggestionLapses, Pending
<1>17. CASE Crash
  BY <1>2, <1>17 DEF Crash
<1>18. CASE UNCHANGED vars
  BY <1>18 DEF vars
<1> QED
  BY <1>5, <1>6, <1>7, <1>8, <1>9, <1>10, <1>11, <1>12, <1>13, <1>14, <1>15, <1>16,
     <1>17, <1>18 DEF Next, ContactStep, SuggestionStep

\* Closing open suggestions takes none back and changes nothing but their status.
LEMMA ClosingGoesOn ==
    ASSUME TypeOK, NEW status \in Statuses \ {"PENDING"},
           DOMAIN suggestions' = DOMAIN suggestions,
           \A s \in DOMAIN suggestions :
              \/ suggestions'[s] = suggestions[s]
              \/ /\ suggestions[s].status = "PENDING"
                 /\ suggestions'[s] = [suggestions[s] EXCEPT !.status = status]
    PROVE  /\ TableGoesOn
           /\ \A s \in DOMAIN suggestions :
                 /\ suggestions'[s].contact = suggestions[s].contact
                 /\ suggestions'[s].status = "PENDING" =>
                       /\ suggestions[s].status = "PENDING"
                       /\ suggestions'[s] = suggestions[s]
<1>1. ASSUME NEW s \in DOMAIN suggestions
      PROVE  /\ suggestions'[s].contact = suggestions[s].contact
             /\ suggestions'[s].keys = suggestions[s].keys
             /\ suggestions[s].status = "APPROVED" => suggestions'[s].status = "APPROVED"
             /\ suggestions'[s].status = "PENDING" =>
                   /\ suggestions[s].status = "PENDING"
                   /\ suggestions'[s] = suggestions[s]
  <2>1. CASE suggestions'[s] = suggestions[s]
    BY <2>1
  <2>2. CASE /\ suggestions[s].status = "PENDING"
             /\ suggestions'[s] = [suggestions[s] EXCEPT !.status = status]
    <3>1. suggestions[s] \in Suggestion
      BY DomainOfSuggestions
    <3> QED BY <2>2, <3>1 DEF Suggestion
  <2> QED BY <2>1, <2>2
<1> QED BY <1>1 DEF TableGoesOn

\* A clearing rejects every open suggestion about the person.
LEMMA ClearsKeeps ==
    ASSUME MemoryInv, TypeOK', NEW c \in Contacts, Clears(c) PROVE MemoryInv'
<1>1. TypeOK /\ OnlyNewestIsOpen
  BY DEF MemoryInv
<1>2. /\ DOMAIN suggestions' = DOMAIN suggestions
      /\ \A s \in DOMAIN suggestions :
            suggestions'[s] = IF suggestions[s].contact = c /\ suggestions[s].status = "PENDING"
                              THEN [suggestions[s] EXCEPT !.status = "REJECTED"]
                              ELSE suggestions[s]
  BY <1>1, ResolvedRows DEF Clears, Statuses
<1>3. /\ TableGoesOn
      /\ \A s \in DOMAIN suggestions :
            /\ suggestions'[s].contact = suggestions[s].contact
            /\ suggestions'[s].status = "PENDING" =>
                  /\ suggestions[s].status = "PENDING"
                  /\ suggestions'[s] = suggestions[s]
  BY <1>1, <1>2, ClosingGoesOn DEF Statuses
<1>4. \A r \in cleared' \ cleared : suggestions[r].contact = c
  BY DEF Clears
<1>5. \A s \in DOMAIN suggestions :
         suggestions'[s].status = "PENDING" => s \notin cleared' \ cleared
  <2> SUFFICES ASSUME NEW s \in DOMAIN suggestions, suggestions'[s].status = "PENDING",
                      suggestions[s].contact = c
               PROVE  FALSE
    BY <1>4
  <2>1. suggestions[s] \in Suggestion /\ suggestions[s].status = "PENDING"
    BY <1>1, <1>3, DomainOfSuggestions
  <2>2. suggestions'[s] = [suggestions[s] EXCEPT !.status = "REJECTED"]
    BY <1>2, <2>1
  <2>3. suggestions'[s].status = "REJECTED"
    BY <2>1, <2>2 DEF Suggestion
  <2> QED BY <2>3
<1>6. OnlyNewestIsOpen'
  BY <1>1, <1>2, <1>3, <1>5, StillOnlyNewest
<1>7. /\ memory'[c] = NoMemory
      /\ \A d \in Contacts \ {c} : memory'[d] = memory[d]
  BY <1>1 DEF Clears, TypeOK
<1>8. SourcesAreTrue' /\ FilledRowsEnd'
  <2> DEFINE gone == {c}
  <2>1. gone \in SUBSET Contacts /\ \A d \in gone : memory'[d] = NoMemory
    BY <1>7
  <2>2. \A d \in Contacts \ gone :
           /\ memory'[d].content = memory[d].content
           /\ memory'[d].provenance = memory[d].provenance
           /\ memory'[d].retention \in {memory[d].retention, "OVER"}
           /\ \A r \in cleared' \ cleared : suggestions[r].contact # d
    BY <1>4, <1>7
  <2> HIDE DEF gone
  <2> QED BY <1>3, <2>1, <2>2, RowsKept
<1> QED BY <1>6, <1>8 DEF MemoryInv

\* A new suggestion supersedes the open ones about its person.
LEMMA SuggestsKeeps ==
    ASSUME MemoryInv, TypeOK', NEW j \in Extractions, NEW keys \in SUBSET Keys, Suggests(j, keys)
    PROVE  MemoryInv'
<1> DEFINE c == job[j]
           n == Len(suggestions)
           R == Resolved(c, "SUPERSEDED")
           new == [contact |-> c, keys |-> keys, status |-> "PENDING"]
<1>1. TypeOK /\ OnlyNewestIsOpen
  BY DEF MemoryInv
<1>2. c \in Contacts /\ new \in Suggestion
  BY <1>1 DEF Suggests, TypeOK, Suggestion
<1>3. DOMAIN suggestions = 1..n /\ n \in Nat
  BY <1>1, DomainOfSuggestions
<1>4. /\ R \in Seq(Suggestion) /\ Len(R) = n
      /\ \A s \in 1..n :
            R[s] = IF suggestions[s].contact = c /\ suggestions[s].status = "PENDING"
                   THEN [suggestions[s] EXCEPT !.status = "SUPERSEDED"] ELSE suggestions[s]
  <2> HIDE DEF c
  <2> QED BY <1>1, <1>2, <1>3, ResolvedRows DEF Statuses
<1>5. suggestions' = Append(R, new)
  BY DEF Suggests
<1>6. /\ DOMAIN suggestions' = 1..(n + 1)
      /\ \A s \in 1..n : suggestions'[s] = R[s]
      /\ suggestions'[n + 1] = new
  <2>1. /\ suggestions' \in Seq(Suggestion)
        /\ Len(suggestions') = n + 1
        /\ \A s \in 1..n : suggestions'[s] = R[s]
        /\ suggestions'[n + 1] = new
    <3> HIDE DEF R, new, n, c
    <3> QED BY <1>2, <1>4, <1>5, AppendProperties
  <2>2. DOMAIN suggestions' = 1..Len(suggestions')
    BY <2>1, LenProperties
  <2> QED BY <2>1, <2>2
<1>7. ASSUME NEW s \in 1..n
      PROVE  /\ suggestions'[s].contact = suggestions[s].contact
             /\ suggestions'[s].keys = suggestions[s].keys
             /\ suggestions[s].status = "APPROVED" => suggestions'[s].status = "APPROVED"
             /\ suggestions'[s].status = "PENDING" =>
                   suggestions[s].status = "PENDING" /\ suggestions[s].contact # c
  <2>1. suggestions[s] \in Suggestion
    BY <1>1, <1>3, DomainOfSuggestions
  <2>2. suggestions'[s] = IF suggestions[s].contact = c /\ suggestions[s].status = "PENDING"
                          THEN [suggestions[s] EXCEPT !.status = "SUPERSEDED"]
                          ELSE suggestions[s]
    <3> HIDE DEF R, n, c
    <3> QED BY <1>4, <1>6
  <2> HIDE DEF c
  <2> QED BY <2>1, <2>2 DEF Suggestion
<1>8. TableGoesOn
  <2> HIDE DEF n, c
  <2> QED BY <1>3, <1>6, <1>7 DEF TableGoesOn
<1>9. memory' = memory /\ cleared' = cleared
  BY DEF Suggests
<1>10. OnlyNewestIsOpen'
  <2> SUFFICES ASSUME NEW s \in 1..(n + 1), suggestions'[s].status = "PENDING"
               PROVE  /\ s \notin cleared
                      /\ \A r \in 1..(n + 1) :
                            suggestions'[r].contact = suggestions'[s].contact => r <= s
    BY <1>6, <1>9 DEF OnlyNewestIsOpen, Pending
  <2>1. CASE s = n + 1
    <3>1. cleared \subseteq 1..n
      BY <1>1, <1>3 DEF TypeOK
    <3> QED BY <1>3, <2>1, <3>1
  <2>2. CASE s # n + 1
    <3>1. s \in 1..n
      BY <1>3, <2>2
    <3>2. suggestions[s].status = "PENDING" /\ suggestions[s].contact # c
      BY <1>7, <3>1
    <3>3. /\ s \notin cleared
          /\ \A r \in 1..n : suggestions[r].contact = suggestions[s].contact => r <= s
      BY <1>1, <1>3, <3>1, <3>2 DEF OnlyNewestIsOpen, Pending
    <3>4. suggestions'[n + 1].contact = c
      BY <1>6
    <3>5. suggestions'[s].contact = suggestions[s].contact
      BY <1>7, <3>1
    <3>6. ASSUME NEW r \in 1..(n + 1), suggestions'[r].contact = suggestions'[s].contact
          PROVE  r <= s
      <4>1. r # n + 1
        BY <3>2, <3>4, <3>5, <3>6
      <4>2. r \in 1..n
        BY <1>3, <4>1
      <4>3. suggestions[r].contact = suggestions[s].contact
        BY <1>7, <3>5, <3>6, <4>2
      <4> QED BY <3>3, <4>2, <4>3
    <3> QED BY <3>3, <3>6
  <2> QED BY <2>1, <2>2
<1>11. SourcesAreTrue' /\ FilledRowsEnd'
  <2> DEFINE gone == {}
  <2>1. gone \in SUBSET Contacts /\ \A d \in gone : memory'[d] = NoMemory
    OBVIOUS
  <2>2. \A d \in Contacts \ gone :
           /\ memory'[d].content = memory[d].content
           /\ memory'[d].provenance = memory[d].provenance
           /\ memory'[d].retention \in {memory[d].retention, "OVER"}
           /\ \A r \in cleared' \ cleared : suggestions[r].contact # d
    BY <1>9
  <2> HIDE DEF gone
  <2> QED BY <1>8, <2>1, <2>2, RowsKept
<1> QED BY <1>10, <1>11 DEF MemoryInv

\* Steps that leave both tables alone but for sharing and dates.
LEMMA OthersKeep ==
    ASSUME MemoryInv, TypeOK', suggestions' = suggestions, cleared' = cleared,
           \A c \in Contacts :
              /\ memory'[c].content = memory[c].content
              /\ memory'[c].provenance = memory[c].provenance
              /\ memory'[c].retention \in {memory[c].retention, "OVER"}
    PROVE  MemoryInv'
<1> DEFINE gone == {}
<1>1. TableGoesOn
  BY DEF TableGoesOn
<1>2. gone \in SUBSET Contacts /\ \A d \in gone : memory'[d] = NoMemory
  OBVIOUS
<1>3. \A d \in Contacts \ gone :
         /\ memory'[d].content = memory[d].content
         /\ memory'[d].provenance = memory[d].provenance
         /\ memory'[d].retention \in {memory[d].retention, "OVER"}
         /\ \A r \in cleared' \ cleared : suggestions[r].contact # d
  OBVIOUS
<1>4. SourcesAreTrue' /\ FilledRowsEnd'
  <2> HIDE DEF gone
  <2> QED BY <1>1, <1>2, <1>3, RowsKept
<1>5. OnlyNewestIsOpen'
  BY DEF MemoryInv, OnlyNewestIsOpen, Pending
<1> QED BY <1>4, <1>5 DEF MemoryInv

\* The owner's own words need no other source.
LEMMA SavesSectionKeeps ==
    ASSUME MemoryInv, TypeOK', NEW keys \in SUBSET Keys, SavesSection(keys)
    PROVE  MemoryInv'
<1> DEFINE c == dialog.contact
           gone == {k \in Keys : Section[k] = dialog.at}
<1>1. c \in Contacts
  <2>1. \A d \in Dialogs : d.at \in Sections => d.contact \in Contacts
    BY DEF Dialogs, Cleared, Sections
  <2>2. dialog \in Dialogs /\ dialog.at \in Sections
    BY DEF MemoryInv, TypeOK, SavesSection
  <2> QED BY <2>1, <2>2
<1>2. Stores(c, gone, keys, Manual) /\ Manual \in Origins
  BY DEF SavesSection, Stores, Origins
<1>3. suggestions' = suggestions /\ cleared' = cleared
  BY DEF SavesSection
<1>4. TableGoesOn
  BY <1>3 DEF TableGoesOn
<1>5. \A k \in keys : TrueOrigin(c, k, Manual)'
  BY DEF TrueOrigin
<1>6. SourcesAreTrue' /\ FilledRowsEnd'
  <2> SUFFICES ASSUME NEW d, d = c, NEW g, g = gone PROVE SourcesAreTrue' /\ FilledRowsEnd'
    OBVIOUS
  <2>1. \A k \in keys : TrueOrigin(d, k, Manual)'
    BY DEF TrueOrigin
  <2>2. d \in Contacts /\ Stores(d, g, keys, Manual)
    BY <1>1, <1>2
  <2> HIDE DEF c, gone
  <2> QED BY <1>2, <1>3, <1>4, <2>1, <2>2, RowWritten
<1>7. OnlyNewestIsOpen'
  BY <1>3 DEF MemoryInv, OnlyNewestIsOpen, Pending
<1> QED BY <1>6, <1>7 DEF MemoryInv

\* Closing one open suggestion leaves the newest of each person the only one.
LEMMA ClosingKeepsNewest ==
    ASSUME MemoryInv, NEW s \in Ids, Pending(s), NEW status \in Statuses \ {"PENDING"},
           suggestions' = WithStatus(s, status), cleared' = cleared
    PROVE  TableGoesOn /\ OnlyNewestIsOpen'
<1>1. TypeOK /\ OnlyNewestIsOpen
  BY DEF MemoryInv
<1>2. s \in DOMAIN suggestions /\ suggestions[s].status = "PENDING"
  BY DEF Pending
<1>3. /\ DOMAIN suggestions' = DOMAIN suggestions
      /\ \A r \in DOMAIN suggestions :
            suggestions'[r] = IF r = s THEN [suggestions[s] EXCEPT !.status = status]
                              ELSE suggestions[r]
  <2>1. status \in Statuses
    OBVIOUS
  <2> QED BY <1>1, <1>2, <2>1, ClosedRow
<1>4. /\ TableGoesOn
      /\ \A r \in DOMAIN suggestions :
            /\ suggestions'[r].contact = suggestions[r].contact
            /\ suggestions'[r].status = "PENDING" =>
                  /\ suggestions[r].status = "PENDING"
                  /\ suggestions'[r] = suggestions[r]
  BY <1>1, <1>2, <1>3, ClosingGoesOn
<1> QED BY <1>1, <1>3, <1>4, StillOnlyNewest

\* An approval writes itself as the source of what it brings.
LEMMA ApprovesKeeps ==
    ASSUME MemoryInv, TypeOK', NEW s \in Ids, Approves(s) PROVE MemoryInv'
<1>1. /\ s \in DOMAIN suggestions /\ suggestions[s].status = "PENDING"
      /\ suggestions' = WithStatus(s, "APPROVED") /\ cleared' = cleared
  BY DEF Approves, Pending
<1>2. TableGoesOn /\ OnlyNewestIsOpen'
  BY <1>1, ClosingKeepsNewest DEF Statuses, Pending
<1>3. PICK c \in Contacts, keys \in SUBSET Keys :
         c = suggestions[s].contact /\ keys = suggestions[s].keys
  BY <1>1, DomainOfSuggestions DEF MemoryInv, Suggestion
<1>4. Stores(c, {}, keys, s) /\ s \in Origins
  BY <1>3 DEF Approves, Merges, Stores, Origins
<1>5. /\ s \in DOMAIN suggestions' \ cleared'
      /\ suggestions'[s].contact = c
      /\ suggestions'[s].keys = keys
      /\ suggestions'[s].status = "APPROVED"
  <2>1. s \notin cleared
    BY <1>1 DEF MemoryInv, OnlyNewestIsOpen, Pending
  <2>2. suggestions[s] \in Suggestion
    BY <1>1, DomainOfSuggestions DEF MemoryInv
  <2>3. /\ DOMAIN suggestions' = DOMAIN suggestions
        /\ suggestions'[s] = [suggestions[s] EXCEPT !.status = "APPROVED"]
    BY <1>1, ClosedRow DEF MemoryInv, Statuses
  <2> QED BY <1>1, <1>3, <2>1, <2>2, <2>3 DEF Suggestion
<1>6. \A k \in keys : TrueOrigin(c, k, s)'
  BY <1>5 DEF TrueOrigin
<1>7. SourcesAreTrue' /\ FilledRowsEnd'
  <2> SUFFICES ASSUME NEW none, none = {} PROVE SourcesAreTrue' /\ FilledRowsEnd'
    OBVIOUS
  <2> QED BY <1>1, <1>2, <1>4, <1>6, RowWritten
<1> QED BY <1>2, <1>7 DEF MemoryInv

\* A suggestion that was rejected, or approved too late, changes no row.
LEMMA ClosesKeeps ==
    ASSUME MemoryInv, TypeOK', NEW s \in Ids, ApprovesTooLate(s) \/ Rejects(s)
    PROVE  MemoryInv'
<1>1. PICK status \in Statuses \ {"PENDING"} :
         /\ Pending(s) /\ suggestions' = WithStatus(s, status)
         /\ cleared' = cleared /\ memory' = memory
  BY DEF ApprovesTooLate, Rejects, Statuses
<1>2. TableGoesOn /\ OnlyNewestIsOpen'
  BY <1>1, ClosingKeepsNewest
<1>3. SourcesAreTrue' /\ FilledRowsEnd'
  <2> DEFINE gone == {}
  <2>1. gone \in SUBSET Contacts /\ \A d \in gone : memory'[d] = NoMemory
    OBVIOUS
  <2>2. \A d \in Contacts \ gone :
           /\ memory'[d].content = memory[d].content
           /\ memory'[d].provenance = memory[d].provenance
           /\ memory'[d].retention \in {memory[d].retention, "OVER"}
           /\ \A r \in cleared' \ cleared : suggestions[r].contact # d
    BY <1>1
  <2> HIDE DEF gone
  <2> QED BY <1>2, <2>1, <2>2, RowsKept
<1> QED BY <1>2, <1>3 DEF MemoryInv

-----------------------------------------------------------------------------
(* The theorems.                                                           *)

\* The inductive invariant.
THEOREM MemoryInvariant == Spec => []MemoryInv
<1>1. Init => MemoryInv
  <2> SUFFICES ASSUME Init PROVE MemoryInv
    OBVIOUS
  <2>1. suggestions = <<>> /\ DOMAIN suggestions = {} /\ Len(suggestions) = 0
    BY DEF Init
  <2>2. suggestions \in Seq(Suggestion)
    BY <2>1, EmptySeq
  <2>3. Cleared \in Dialogs
    BY DEF Dialogs
  <2>4. TypeOK
    BY <2>1, <2>2, <2>3, NoMemoryIsRow, MemoryAssumption DEF Init, TypeOK
  <2>5. \A c \in Contacts : memory[c].content = NoEntries /\ memory[c].provenance = NoEntries
    BY DEF Init, NoMemory
  <2>6. DOMAIN NoEntries = {}
    BY DEF NoEntries
  <2>7. SourcesAreTrue /\ FilledRowsEnd
    BY <2>5, <2>6 DEF SourcesAreTrue, FilledRowsEnd
  <2>8. OnlyNewestIsOpen
    BY <2>1 DEF OnlyNewestIsOpen
  <2> QED BY <2>4, <2>7, <2>8 DEF MemoryInv
<1>2. MemoryInv /\ [Next]_vars => MemoryInv'
  <2> SUFFICES ASSUME MemoryInv, [Next]_vars PROVE MemoryInv'
    OBVIOUS
  <2>1. TypeOK'
    BY TypesKept DEF MemoryInv
  <2>2. CASE \/ OpensScreen \/ SavesPrivateNote \/ Crash \/ UNCHANGED vars
             \/ \E c \in Contacts : \/ \E at \in Sections \cup {"private"} : StartsEdit(c, at)
                                    \/ \E enabled \in BOOLEAN : SetsConsent(c, enabled)
                                    \/ \E j \in Extractions : AsksForSuggestion(j, c)
             \/ \E j \in Extractions : FindsNothing(j)
             \/ \E s \in Ids : SuggestionLapses(s)
    <3>1. memory' = memory /\ suggestions' = suggestions /\ cleared' = cleared
      BY <2>2 DEF OpensScreen, SavesPrivateNote, Crash, vars, StartsEdit, SetsConsent,
                  AsksForSuggestion, FindsNothing, SuggestionLapses
    <3> QED BY <2>1, <3>1, OthersKeep
  <2>3. ASSUME NEW c \in Contacts, TurnsSharing(c) \/ RetentionEnds(c) PROVE MemoryInv'
    <3>1. memory \in [Contacts -> Row]
      BY DEF MemoryInv, TypeOK
    <3>2. \A d \in Contacts :
             /\ memory'[d].content = memory[d].content
             /\ memory'[d].provenance = memory[d].provenance
             /\ memory'[d].retention \in {memory[d].retention, "OVER"}
      BY <2>3, <3>1 DEF TurnsSharing, RetentionEnds, Row
    <3>3. suggestions' = suggestions /\ cleared' = cleared
      BY <2>3 DEF TurnsSharing, RetentionEnds
    <3> QED BY <2>1, <3>2, <3>3, OthersKeep
  <2>4. CASE \E c \in Contacts : Clears(c)
    BY <2>1, <2>4, ClearsKeeps
  <2>5. CASE \E j \in Extractions, keys \in SUBSET Keys : Suggests(j, keys)
    BY <2>1, <2>5, SuggestsKeeps
  <2>6. CASE \E keys \in SUBSET Keys : SavesSection(keys)
    BY <2>1, <2>6, SavesSectionKeeps
  <2>7. CASE \E s \in Ids : Approves(s)
    BY <2>1, <2>7, ApprovesKeeps
  <2>8. CASE \E s \in Ids : ApprovesTooLate(s) \/ Rejects(s)
    BY <2>1, <2>8, ClosesKeeps
  <2> QED
    BY <2>2, <2>3, <2>4, <2>5, <2>6, <2>7, <2>8 DEF Next, ContactStep, SuggestionStep
<1> QED BY <1>1, <1>2, PTL DEF Spec

\* Every reachable state of the memory tables and the dialog is well typed.
THEOREM MemoryTypes == Spec => []TypeOK
<1>1. MemoryInv => TypeOK
  BY DEF MemoryInv
<1> QED BY <1>1, MemoryInvariant, PTL

\* The record of sources agrees with what is stored, and each entry was typed by the
\* owner or approved in a suggestion from after the last clearing (memory_ui.py:217).
THEOREM SourcesAreAlwaysTrue == Spec => []SourcesAreTrue
<1>1. MemoryInv => SourcesAreTrue
  BY DEF MemoryInv
<1> QED BY <1>1, MemoryInvariant, PTL

\* Only the newest suggestion about a person is ever open, and none from before a
\* clearing (memory/service.py:137, memory_ui.py:847).
THEOREM OneOpenSuggestion == Spec => []OnlyNewestIsOpen
<1>1. MemoryInv => OnlyNewestIsOpen
  BY DEF MemoryInv
<1> QED BY <1>1, MemoryInvariant, PTL

\* The model is never given anything from a row whose retention has no end, or has
\* ended (brain/service.py:149).
THEOREM NothingIsKeptForEver == Spec => []EverythingEnds
<1>1. MemoryInv => EverythingEnds
  <2> SUFFICES ASSUME MemoryInv, NEW c \in Contacts, ForAI(c) # NoEntries
               PROVE  memory[c].retention = "RUNNING"
    BY DEF EverythingEnds
  <2>1. memory[c].content # NoEntries /\ memory[c].retention # "OVER"
    BY DEF ForAI
  <2>2. memory[c].retention # "UNLIMITED"
    BY <2>1 DEF MemoryInv, FilledRowsEnd
  <2>3. memory[c].retention \in {"UNLIMITED", "RUNNING", "OVER"}
    BY RowFields DEF MemoryInv
  <2> QED BY <2>1, <2>2, <2>3
<1> QED BY <1>1, MemoryInvariant, PTL
=============================================================================
