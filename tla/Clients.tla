------------------------------- MODULE Clients ------------------------------
(* The programs around the API: the pages of the web client, the bell above  *)
(* them, the checkouts, the support chat, the rider on the map, and the seed *)
(* script.  They meet in the API only; a behaviour is about one, its part.   *)
EXTENDS Naturals, Sequences

CONSTANTS Parts,                                                        \* what is checked
          Rows, NewRows, PageSize, MaxAnswers, MaxClicks, MaxOthers, MaxFailures,  \* see Pages
          MaxNotes, MaxQueries, MaxTouches, MaxMisses,                  \* see Bell
          MaxReplies, MaxPresses, MaxMoves, MaxLosses,                  \* see DetailPages
          Customers, Widget, Nobody, MaxMessages, MaxFlight, MaxSwitches, MaxLapses,  \* see Support
          MaxFixes, MaxFrames, MaxTurns, MaxDrops,                      \* see Tracking
          MaxSteps, MaxOrders, MaxAgain, MaxChanges, MaxFlaws,          \* see Storefront
          MaxRuns, MaxDeaths, MaxEdits                                  \* see Seed

VARIABLES part,
          page, in, version, view, shown, error, overtaken, answers, posted, mine, clicks, others,
          failures,
          notes, open, badge, items, counting, listing, marks, touches, misses,
          screen, status, seen, broken, replies, dialog, pressed, refused, presses, moves, losses,
          watched, messages, unread, selected, thread, counts, failed, inbox, marking, chat, mail,
          pushes, sent, switches, lapses,
          here, frames, stored, found, delivery, events, readings, map, outrun, timer, turns, drops,
          desk, terms, basket, saved, stage, known, asked, code, discount, applying, late,
          placing, requests, paying, verifying, orders, again, steps, changes, flaws,
          rows, busy, reviewed, rated, over, step, at, torn, runs, deaths, edits

Page   == INSTANCE Pages
Ring   == INSTANCE Bell
Detail == INSTANCE DetailPages
Chat   == INSTANCE Support
Track  == INSTANCE Tracking
Shop   == INSTANCE Storefront
Script == INSTANCE Seed

pageVars   == <<page, in, version, view, shown, error, overtaken, answers, posted, mine, clicks,
                others, failures>>
bellVars   == <<notes, open, badge, items, counting, listing, marks, touches, misses>>
detailVars == <<screen, status, seen, broken, replies, dialog, pressed, refused, presses, moves,
                losses>>
chatVars   == <<watched, messages, unread, selected, thread, counts, failed, inbox, marking, chat,
                mail, pushes, sent, switches, lapses>>
trackVars  == <<here, frames, stored, found, delivery, events, readings, map, outrun, timer, turns,
                drops>>
shopVars   == <<desk, terms, basket, saved, stage, known, asked, code, discount, applying, late,
                placing, requests, paying, verifying, orders, again, steps, changes, flaws>>
scriptVars == <<rows, busy, reviewed, rated, over, step, at, torn, runs, deaths, edits>>
vars == <<part, pageVars, bellVars, detailVars, chatVars, trackVars, shopVars, scriptVars>>

(* The parts a behaviour is not about start in one way only.                 *)
Init == /\ part \in Parts
        /\ Page!Init /\ Ring!Init /\ Detail!Init /\ Chat!Init /\ Track!Init /\ Shop!Init
        /\ Script!Init
        /\ part = "pages" \/ page = Page!AdminDashboard
        /\ part = "details" \/ screen = Detail!AdminRide
        /\ part = "chat" \/ watched = "thread"
        /\ part = "shop" \/ desk = "cab"

Next ==
  /\ UNCHANGED part
  /\ \/ /\ part = "pages" /\ Page!Next
        /\ UNCHANGED <<bellVars, detailVars, chatVars, trackVars, shopVars, scriptVars>>
     \/ /\ part = "bell" /\ Ring!Next
        /\ UNCHANGED <<pageVars, detailVars, chatVars, trackVars, shopVars, scriptVars>>
     \/ /\ part = "details" /\ Detail!Next
        /\ UNCHANGED <<pageVars, bellVars, chatVars, trackVars, shopVars, scriptVars>>
     \/ /\ part = "chat" /\ Chat!Next
        /\ UNCHANGED <<pageVars, bellVars, detailVars, trackVars, shopVars, scriptVars>>
     \/ /\ part = "tracking" /\ Track!Next
        /\ UNCHANGED <<pageVars, bellVars, detailVars, chatVars, shopVars, scriptVars>>
     \/ /\ part = "shop" /\ Shop!Next
        /\ UNCHANGED <<pageVars, bellVars, detailVars, chatVars, trackVars, scriptVars>>
     \/ /\ part = "seed" /\ Script!Next
        /\ UNCHANGED <<pageVars, bellVars, detailVars, chatVars, trackVars, shopVars>>

(* Timers of an open page and of the rider's phone fire, and what is on its  *)
(* way to the API or back is answered sooner or later; a push comes or not.  *)
Fairness ==
  /\ WF_bellVars(part = "bell" /\ Ring!Handler)
  /\ WF_bellVars(part = "bell" /\ Ring!CountArrives(1))
  /\ WF_bellVars(part = "bell" /\ Ring!ListArrives(1))
  /\ WF_bellVars(part = "bell" /\ \E numbers \in marks : Ring!Mark(numbers))
  /\ WF_detailVars(part = "details" /\ Detail!Reload)
  /\ WF_detailVars(part = "details" /\ Detail!Reply(1))
  /\ WF_detailVars(part = "details" /\ Detail!Decide(1))
  /\ WF_chatVars(part = "chat" /\ Chat!MarkRead)
  /\ WF_chatVars(part = "chat" /\ Chat!RefreshSelected)
  /\ WF_chatVars(part = "chat" /\ Chat!LoadConversations)
  /\ WF_chatVars(part = "chat" /\ Chat!OfficeReply(1))
  /\ WF_chatVars(part = "chat" /\ Chat!WidgetLoad)
  /\ WF_chatVars(part = "chat" /\ Chat!WidgetReply(1))
  /\ WF_chatVars(part = "chat" /\ \E push \in pushes : Chat!LosePush(push))
  /\ WF_trackVars(part = "tracking" /\ Track!Heartbeat)
  /\ WF_trackVars(part = "tracking" /\ \E fix \in frames : Track!UpdateRiderLocation(fix))
  /\ WF_trackVars(part = "tracking" /\ \E fix \in found : Track!EmitRiderLocation(fix))
  /\ WF_trackVars(part = "tracking" /\ Track!Poll)
  /\ WF_trackVars(part = "tracking" /\ Track!Arrive(1))
  /\ WF_trackVars(part = "tracking" /\ \E fix \in events : Track!LosePush(fix))

Spec == Init /\ [][Next]_vars /\ Fairness

(***************************************************************************)
(* Properties.                                                             *)
(***************************************************************************)

(* A page that is done loading shows the filter and the page number that are *)
(* chosen, as they were after the user's own last change or later, unless    *)
(* the answer that came last was overtaken; and no button of a detail page   *)
(* is refused unless the order has moved since the button was pressed or its *)
(* dialog was opened.                                                        *)
ScreensSound == Page!ShowsChoice /\ Detail!OffersAccepted

(* What is charged is what was shown, but for prices that have changed,      *)
(* estimates of another trip and coupon answers that came late; and one      *)
(* order comes of one checkout, but for answers and payments that got lost   *)
(* and presses of the button between the answer and the next page.           *)
CheckoutSound == Shop!CheckoutSound

(* The seed script can be run again after any failure, and after people have *)
(* deleted menus, groceries and banners and completed orders.                *)
SeededOnce == Script!SeededOnce

(* "An in-flight response for a conversation the admin has since navigated   *)
(* away from must not overwrite what's on screen now."                       *)
OwnConversation == Chat!OwnConversation

(* However answers overtake each other, and whichever are lost, the screens  *)
(* that poll end up with what the database holds: bell, detail pages, chat   *)
(* windows, and the rider's marker, but for an answer about him that comes   *)
(* after his timer has stopped.                                              *)
Converges ==
  <>[](CASE part = "bell" -> Ring!Settled
         [] part = "details" -> Detail!Followed
         [] part = "chat" -> Chat!Caught
         [] part = "tracking" -> Track!MarkerTrue
         [] OTHER -> TRUE)
=============================================================================
