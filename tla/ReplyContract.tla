---------------------------- MODULE ReplyContract ----------------------------
(***************************************************************************)
(* What the approval ledger promises, without revisions, expiry or status  *)
(* codes: a proposed reply goes out at most once, only while the chat is   *)
(* exactly what the reply was written against, with the text it was        *)
(* committed with, and never after it was voided; a chat has at most one   *)
(* open proposal (docs/DECISIONS.md, ADR-008; docs/SECURITY.md, Send       *)
(* Safety).                                                                *)
(***************************************************************************)
CONSTANTS
    Chats,
    Replies,
    Texts,
    Contents     \* what a chat may hold

VARIABLES
    content,     \* what each chat holds now
    phase,       \* how far each reply has come
    target,      \* the chat a reply is for
    text,        \* what a reply says
    seen         \* what its chat held when the reply was written

vars == <<content, phase, target, text, seen>>

Phases == {"unused", "open", "committed", "settled", "void"}

Init ==
    /\ content \in [Chats -> Contents]
    /\ phase = [r \in Replies |-> "unused"]
    /\ target \in [Replies -> Chats]
    /\ text \in [Replies -> Texts]
    /\ seen \in [Replies -> Contents]

OpenIn(c) == {r \in Replies : phase[r] = "open" /\ target[r] = c}

\* Only the chat c changes, to anything a chat may hold.
Rewritten(c) ==
    /\ content'[c] \in Contents
    /\ content' = [content EXCEPT ![c] = content'[c]]

\* The chat changes, and any number of its open proposals fall with it.
Change(c) ==
    /\ Rewritten(c)
    /\ phase' \in [Replies -> Phases]
    /\ \A r \in Replies : phase'[r] = phase[r] \/ (r \in OpenIn(c) /\ phase'[r] = "void")
    /\ UNCHANGED <<target, text, seen>>

\* A reply is written against the chat as it is; it replaces the open one.
Propose(r, c) ==
    /\ phase[r] = "unused"
    /\ phase' = [q \in Replies |->
                    IF q = r THEN "open" ELSE IF q \in OpenIn(c) THEN "void" ELSE phase[q]]
    /\ target' = [target EXCEPT ![r] = c]
    /\ text'[r] \in Texts
    /\ text' = [text EXCEPT ![r] = text'[r]]
    /\ seen' = [seen EXCEPT ![r] = content[c]]
    /\ UNCHANGED content

Reword(r) ==
    /\ phase[r] = "open"
    /\ text'[r] \in Texts
    /\ text' = [text EXCEPT ![r] = text'[r]]
    /\ UNCHANGED <<content, phase, target, seen>>

\* From here the reply may reach the customer.
Commit(r) ==
    /\ phase[r] = "open"
    /\ content[target[r]] = seen[r]
    /\ phase' = [phase EXCEPT ![r] = "committed"]
    /\ UNCHANGED <<content, target, text, seen>>

\* The outcome is recorded; a delivered reply becomes part of its chat.
Settle(r) ==
    /\ phase[r] = "committed"
    /\ phase' = [phase EXCEPT ![r] = "settled"]
    /\ Rewritten(target[r])
    /\ UNCHANGED <<target, text, seen>>

Void(r) ==
    /\ phase[r] = "open"
    /\ phase' = [phase EXCEPT ![r] = "void"]
    /\ UNCHANGED <<content, target, text, seen>>

Next ==
    \/ \E c \in Chats : Change(c)
    \/ \E r \in Replies, c \in Chats : Propose(r, c)
    \/ \E r \in Replies : Reword(r) \/ Commit(r) \/ Settle(r) \/ Void(r)

Spec == Init /\ [][Next]_vars
=============================================================================
