------------------------------- MODULE Support ------------------------------
(* The support chat: SupportService, the inbox of the office (admin/support) *)
(* and the widget of one customer.  Both screens fill a thread from four     *)
(* sources that nothing orders: a first load, a timer, pushes, and the       *)
(* answers to their own messages.                                            *)
EXTENDS Naturals, Sequences, FiniteSets, SequencesExt

CONSTANTS Customers,
          Widget,        \* the customer whose chat window is open
          Nobody,        \* no conversation is selected
          MaxMessages,   \* bound: messages
          MaxFlight,     \* bound: requests on their way when a timer sends another
          MaxSwitches,   \* bound: conversations opened
          MaxLapses      \* bound: answers that are lost

VARIABLES watched,    \* what this behaviour is about: the "thread" or the "counts" of
                      \* the office, or the "window" of the customer
          messages,   \* the SupportMessage rows of each customer, oldest first
          unread,     \* those of the customer with isRead = false
          selected,   \* the conversation the office has open
          thread,     \* what is on the office's screen
          counts,     \* the unread counts beside the conversations
          failed,     \* an error is on the office's screen instead of them
          inbox,      \* answers on their way to the office
          marking,    \* conversations that have been read and not yet marked as read
          chat,       \* what is on the customer's screen
          mail,       \* answers on their way to the customer
          pushes,     \* support:message events on their way, to either screen
          sent, switches, lapses

office == <<selected, thread, counts, failed, inbox, marking>>
window == <<chat, mail>>
vars == <<watched, messages, unread, office, window, pushes, sent, switches, lapses>>

TypeOK == /\ messages \in [Customers -> Seq(Customers \X Nat)]
          /\ unread \in [Customers -> SUBSET (Customers \X Nat)]
          /\ selected \in Customers \cup {Nobody}
          /\ counts \in [Customers -> Nat] /\ failed \in BOOLEAN

Init == /\ watched \in {"thread", "counts", "window"}
        /\ messages = [c \in Customers |-> <<>>] /\ unread = [c \in Customers |-> {}]
        /\ selected = Nobody /\ thread = <<>> /\ counts = [c \in Customers |-> 0]
        /\ failed = FALSE /\ inbox = <<>> /\ marking = <<>>
        /\ chat = <<>> /\ mail = <<>> /\ pushes = {}
        /\ sent = 0 /\ switches = 0 /\ lapses = 0

(***************************************************************************)
(* SupportService.                                                         *)
(***************************************************************************)

(* Which pushes somebody is listening for.                                   *)
Heard(c) == IF watched = "window" THEN c = Widget ELSE watched = "thread"

(* Every message is pushed to the customer and to the office.                *)
Store(c, message) ==
  /\ sent < MaxMessages /\ sent' = sent + 1
  /\ messages' = [messages EXCEPT ![c] = Append(@, message)]
  /\ pushes' = pushes \cup {push \in {[c |-> c, message |-> message]} : Heard(push.c)}
  /\ UNCHANGED watched

(* May another request be sent by a timer?                                   *)
Sends == Len(inbox) + Len(marking) + Len(mail) < MaxFlight

SendAsCustomer(c) ==
  LET message == <<c, sent>> IN
    /\ Store(c, message)
    /\ unread' = [unread EXCEPT ![c] = @ \cup {message}]
    /\ IF watched = "window" /\ c = Widget
         THEN mail' = Append(mail, [kind |-> "created", of |-> <<message>>])
         ELSE UNCHANGED mail
    /\ UNCHANGED <<office, chat, switches, lapses>>

(* The office's own message is read already: isRead is true from the start.  *)
SendAsAdmin(c) ==
  LET message == <<c, sent>> IN
    /\ watched = "window" \/ (c = selected /\ ~failed)
    /\ Store(c, message)
    /\ inbox' = IF watched = "window" THEN inbox
                 ELSE Append(inbox, [kind |-> "created", c |-> c, of |-> <<message>>])
    /\ UNCHANGED <<unread, selected, thread, counts, failed, marking, window, switches, lapses>>

(* adminConversation reads the rows in one statement ...                     *)
ReadConversation(c, kind) ==
  marking' = Append(marking, [kind |-> kind, c |-> c, of |-> messages[c]])

(* ... and marks as read, in another, whatever is unread by then.            *)
MarkRead ==
  /\ marking # <<>>
  /\ unread' = [unread EXCEPT ![Head(marking).c] = {}]
  /\ inbox' = Append(inbox, Head(marking)) /\ marking' = Tail(marking)
  /\ UNCHANGED <<watched, messages, selected, thread, counts, failed, window, pushes, sent, switches, lapses>>

(***************************************************************************)
(* The office.                                                             *)
(***************************************************************************)

OpenConversation(c) ==
  /\ watched # "window" /\ ~failed /\ c # selected
  /\ switches < MaxSwitches /\ switches' = switches + 1
  /\ selected' = c /\ thread' = <<>>
  /\ ReadConversation(c, "open")
  /\ UNCHANGED <<watched, messages, unread, counts, failed, inbox, window, pushes, sent, lapses>>

(* setInterval(refreshSelected, 5000), while a conversation is open.         *)
RefreshSelected ==
  /\ watched = "thread" /\ selected # Nobody /\ Sends /\ ReadConversation(selected, "refresh")
  /\ UNCHANGED <<watched, messages, unread, selected, thread, counts, failed, inbox, window, pushes, sent, switches, lapses>>

(* loadConversations, on a timer: the counts beside the conversations.       *)
LoadConversations ==
  /\ watched = "counts"
  /\ Sends /\ failed' = FALSE
  /\ inbox' = Append(inbox, [kind |-> "counts",
                             of |-> [c \in Customers |-> Cardinality(unread[c])]])
  /\ UNCHANGED <<watched, messages, unread, selected, thread, counts, marking, window, pushes, sent, switches, lapses>>

(* Only the first load and the answer to a message look at which             *)
(* conversation is selected by now; a refresh does not.                      *)
OfficeReply(i) ==
  /\ i \in DOMAIN inbox /\ inbox' = RemoveAt(inbox, i)
  /\ LET reply == inbox[i] IN
       CASE reply.kind = "counts" -> counts' = reply.of /\ UNCHANGED thread
         [] reply.kind = "open" ->
              /\ thread' = IF reply.c = selected THEN reply.of ELSE thread
              /\ counts' = [counts EXCEPT ![reply.c] = 0]
         [] reply.kind = "refresh" -> thread' = reply.of /\ UNCHANGED counts
         [] reply.kind = "created" ->
              /\ thread' = IF reply.c = selected THEN thread \o reply.of ELSE thread
              /\ UNCHANGED counts
  /\ UNCHANGED <<watched, messages, unread, selected, failed, marking, window, pushes, sent, switches, lapses>>

OfficePush(push) ==
  /\ watched = "thread" /\ push \in pushes /\ pushes' = pushes \ {push}
  /\ thread' = IF push.c = selected THEN Append(thread, push.message) ELSE thread
  /\ UNCHANGED <<watched, messages, unread, selected, counts, failed, inbox, marking, window, sent, switches, lapses>>

(***************************************************************************)
(* The customer's window.                                                  *)
(***************************************************************************)

WidgetLoad ==
  /\ watched = "window"
  /\ Sends /\ mail' = Append(mail, [kind |-> "load", of |-> messages[Widget]])
  /\ UNCHANGED <<watched, messages, unread, office, chat, pushes, sent, switches, lapses>>

WidgetReply(i) ==
  /\ i \in DOMAIN mail /\ mail' = RemoveAt(mail, i)
  /\ chat' = IF mail[i].kind = "load" THEN mail[i].of ELSE chat \o mail[i].of
  /\ UNCHANGED <<watched, messages, unread, office, pushes, sent, switches, lapses>>

WidgetPush(push) ==
  /\ watched = "window" /\ push \in pushes /\ pushes' = pushes \ {push}
  /\ chat' = Append(chat, push.message)
  /\ UNCHANGED <<watched, messages, unread, office, mail, sent, switches, lapses>>

(***************************************************************************)
(* What gets lost.                                                         *)
(***************************************************************************)

(* The serverless API holds no socket.                                       *)
LosePush(push) == /\ push \in pushes /\ pushes' = pushes \ {push}
                  /\ UNCHANGED <<watched, messages, unread, office, window, sent, switches, lapses>>

(* A refresh, the window's load: nothing is said.  A first load, a message:  *)
(* an alert.  The list of conversations: an error on the whole screen.       *)
LoseReply ==
  /\ lapses < MaxLapses /\ lapses' = lapses + 1
  /\ \/ \E i \in DOMAIN inbox :
          /\ inbox' = RemoveAt(inbox, i) /\ failed' = (failed \/ inbox[i].kind = "counts")
          /\ UNCHANGED mail
     \/ /\ \E i \in DOMAIN mail : mail' = RemoveAt(mail, i)
        /\ UNCHANGED <<inbox, failed>>
  /\ UNCHANGED <<watched, messages, unread, selected, thread, counts, marking, chat, pushes, sent, switches>>

Next == \/ \E c \in Customers : SendAsCustomer(c) \/ SendAsAdmin(c) \/ OpenConversation(c)
        \/ MarkRead \/ RefreshSelected \/ LoadConversations \/ WidgetLoad \/ LoseReply
        \/ \E i \in DOMAIN inbox : OfficeReply(i)
        \/ \E i \in DOMAIN mail : WidgetReply(i)
        \/ \E push \in pushes : OfficePush(push) \/ WidgetPush(push) \/ LosePush(push)

(***************************************************************************)
(* Properties.                                                             *)
(***************************************************************************)

(* "An in-flight response for a conversation the admin has since navigated   *)
(* away from must not overwrite what's on screen now."                       *)
OwnConversation == \A i \in DOMAIN thread : thread[i][1] = selected

(* What both screens end up with: the messages that were sent, each of them  *)
(* once and in order, and in the inbox the right number of unread ones.      *)
Caught == CASE watched = "window" -> chat = messages[Widget]
            [] watched = "thread" -> selected # Nobody => thread = messages[selected]
            [] watched = "counts" -> ~failed /\ counts = [c \in Customers |-> Cardinality(unread[c])]
=============================================================================
