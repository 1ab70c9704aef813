-------------------------------- MODULE Bell --------------------------------
(* The bell above every page (notification-bell.tsx): a number of unread     *)
(* notifications and, when it is open, the list.  The two are asked for      *)
(* apart, and what the user marks as read is marked on the screen at once.   *)
EXTENDS Naturals, Sequences, FiniteSets, SequencesExt

CONSTANTS MaxNotes,      \* bound: notifications
          MaxQueries,    \* bound: answers of one kind on their way at once
          MaxTouches,    \* bound: what the user does to the bell
          MaxMisses      \* bound: answers and marks that are lost

VARIABLES notes,     \* the Notification rows of the user: unread, or read
          open,      \* the list is on the screen
          badge,     \* the number beside the bell
          items,     \* the rows in the list
          counting,  \* answers to unread-count on their way
          listing,   \* answers to the list on their way
          marks,     \* markings on their way to the API: of one row, or of all
          touches, misses

vars == <<notes, open, badge, items, counting, listing, marks, touches, misses>>

Row(number, isRead) == [number |-> number, isRead |-> isRead]
Numbers == 1 .. MaxNotes
Unread(rows) == Cardinality({row \in rows : ~row.isRead})

(* The rows of `numbers` are read from now on.                               *)
Ticked(rows, numbers) ==
  {Row(row.number, row.isRead \/ row.number \in numbers) : row \in rows}

TypeOK == /\ notes \cup items \subseteq [number : Numbers, isRead : BOOLEAN]
          /\ badge \in Nat /\ marks \subseteq SUBSET Numbers
          /\ Len(counting) <= MaxQueries /\ Len(listing) <= MaxQueries

Init == /\ notes = {} /\ items = {} /\ open = FALSE /\ badge = 0
        /\ counting = <<0>> /\ listing = <<>> /\ marks = {}
        /\ touches = 0 /\ misses = 0

LoadUnread == Len(counting) < MaxQueries /\ counting' = Append(counting, Unread(notes))
LoadList == Len(listing) < MaxQueries /\ listing' = Append(listing, notes)
Touch == touches < MaxTouches /\ touches' = touches + 1

Notify == /\ Cardinality(notes) < MaxNotes
          /\ notes' = notes \cup {Row(Cardinality(notes) + 1, FALSE)}
          /\ UNCHANGED <<open, badge, items, counting, listing, marks, touches, misses>>

(* Slip: the list comes once, when it is opened.                             *)
HandlerCounts == /\ LoadUnread
                 /\ UNCHANGED <<notes, open, badge, items, listing, marks, touches, misses>>

(* Every twenty seconds, or at a push that comes before: the number, and the *)
(* list while it is on the screen.                                           *)
Handler == /\ LoadUnread
           /\ IF open THEN LoadList ELSE UNCHANGED listing
           /\ UNCHANGED <<notes, open, badge, items, marks, touches, misses>>

(* Opening asks for the list; the effect on [open] asks for the number.      *)
Toggle == /\ Touch /\ open' = ~open
          /\ LoadUnread
          /\ IF open THEN UNCHANGED listing ELSE LoadList
          /\ UNCHANGED <<notes, badge, items, marks, misses>>

MarkAllRead == /\ open /\ badge > 0 /\ Touch
               /\ items' = Ticked(items, Numbers) /\ badge' = 0
               /\ marks' = marks \cup {Numbers}
               /\ UNCHANGED <<notes, open, counting, listing, misses>>

MarkOneRead(row) ==
  /\ open /\ row \in items /\ ~row.isRead /\ Touch
  /\ items' = Ticked(items, {row.number}) /\ badge' = IF badge = 0 THEN 0 ELSE badge - 1
  /\ marks' = marks \cup {{row.number}}
  /\ UNCHANGED <<notes, open, counting, listing, misses>>

(* NotificationsService.markRead and markAllRead; nothing waits for them.    *)
Mark(numbers) ==
  /\ numbers \in marks /\ marks' = marks \ {numbers}
  /\ notes' = Ticked(notes, numbers)
  /\ UNCHANGED <<open, badge, items, counting, listing, touches, misses>>

CountArrives(i) ==
  /\ i \in DOMAIN counting
  /\ badge' = counting[i] /\ counting' = RemoveAt(counting, i)
  /\ UNCHANGED <<notes, open, items, listing, marks, touches, misses>>

ListArrives(i) ==
  /\ i \in DOMAIN listing
  /\ items' = listing[i] /\ listing' = RemoveAt(listing, i)
  /\ UNCHANGED <<notes, open, badge, counting, marks, touches, misses>>

(* An answer, or a marking before the API has seen it: nothing is said.      *)
Miss == /\ misses < MaxMisses /\ misses' = misses + 1
        /\ \/ /\ \E i \in DOMAIN counting : counting' = RemoveAt(counting, i)
              /\ UNCHANGED <<listing, marks>>
           \/ /\ \E i \in DOMAIN listing : listing' = RemoveAt(listing, i)
              /\ UNCHANGED <<counting, marks>>
           \/ /\ \E numbers \in marks : marks' = marks \ {numbers}
              /\ UNCHANGED <<counting, listing>>
        /\ UNCHANGED <<notes, open, badge, items, touches>>

Next == \/ Notify \/ Handler \/ Toggle \/ MarkAllRead \/ Miss
        \/ \E row \in items : MarkOneRead(row)
        \/ \E numbers \in marks : Mark(numbers)
        \/ \E i \in DOMAIN counting : CountArrives(i)
        \/ \E i \in DOMAIN listing : ListArrives(i)

(* What the bell ends up showing: what is in the table, marked or not.       *)
Settled == badge = Unread(notes) /\ (open => items = notes)
=============================================================================
