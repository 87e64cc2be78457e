--------------------------- MODULE InboxRepository ---------------------------
(***************************************************************************)
(* What the console's routes read (repositories/inbox_repository.py and    *)
(* the detail of a contact in api/routes/console_inbox.py), as functions   *)
(* of one lead's rows: its Talks in the order of created_at, and its       *)
(* messages in the order they were committed.  A statement sees what was   *)
(* committed before it: list_contacts filters in one, and reads each Talk  *)
(* again, by its id, in another.  Search, the funnel, the previews, the    *)
(* unread counts and the limit of 50 rows are left out.                    *)
(***************************************************************************)
EXTENDS Naturals, Sequences

CONSTANT Nil

ActiveStatuses == {"active", "requires_review"}
Filters == {"awaiting", "ai", "requires_review", "human", "closed"}

\* active_talk_sq: the newest Talk that is open, by its place; 0 if there is none.
ActiveId(talks) ==
  LET open == {i \in DOMAIN talks : talks[i].status \in ActiveStatuses}
  IN IF open = {} THEN 0 ELSE CHOOSE i \in open : \A k \in open : k <= i

ActiveTalk(talks) == IF ActiveId(talks) = 0 THEN Nil ELSE talks[ActiveId(talks)]

DeriveState(talk) ==
  CASE talk = Nil -> "awaiting"
    [] talk # Nil /\ talk.status = "requires_review" -> "requires_review"
    [] talk # Nil /\ talk.status # "requires_review" /\ talk.mode = "human" -> "human"
    [] talk # Nil /\ talk.status = "active" /\ talk.mode # "human" -> "ai"
    [] OTHER -> "closed"

HasClosed(talks) == \E i \in DOMAIN talks : talks[i].status \notin ActiveStatuses

\* Mutant: the badge is that of the Talk the lead has by the second read.
RowStateNow(was, now) ==
  IF ActiveId(now) # 0 THEN DeriveState(now[ActiveId(now)])
  ELSE IF HasClosed(was) THEN "closed" ELSE "awaiting"

\* The state of a row of list_contacts: which Talk it is was read with the
\* filter, what the Talk is was read after it.
RowState(was, now) ==
  IF ActiveId(was) # 0 THEN DeriveState(now[ActiveId(was)])
  ELSE IF HasClosed(was) THEN "closed" ELSE "awaiting"

\* list_contacts' status filter.
Under(f, talks) ==
  LET t == ActiveTalk(talks) IN
  CASE f = "awaiting" -> t = Nil /\ ~HasClosed(talks)
    [] f = "closed"   -> t = Nil /\ HasClosed(talks)
    [] f = "human"    -> t # Nil /\ t.mode = "human"
    [] f = "ai"       -> t # Nil /\ t.status = "active" /\ t.mode = "ai"
    [] OTHER          -> t # Nil /\ t.status = f

\* list_contacts: the rows that a tab shows, with the badge of each.
ListContacts(f, was, now) ==
  [l \in {c \in DOMAIN was : Under(f, was[c])} |-> RowState(was[l], now[l])]

-----------------------------------------------------------------------------
\* list_messages; the browser sorts them.
MessageRows(stream) == 1..stream

\* get_contact_detail.
ContactDetail(talks, windowOpen) ==
  [state |-> DeriveState(ActiveTalk(talks)), window |-> windowOpen]
=============================================================================
