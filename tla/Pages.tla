-------------------------------- MODULE Pages -------------------------------
(* The web client's pages that show a list, or one record, and never poll:   *)
(* what a page asks for (a filter, a page number), when it asks again, and   *)
(* how its own changes come back to it.  One record describes each page; the *)
(* rows, the answers on their way and the other users are the same for all.  *)
EXTENDS Naturals, Sequences, FiniteSets, SequencesExt

CONSTANTS Rows,          \* 1 .. n, in the order the API sorts them
          NewRows,       \* the rows that do not exist at first
          PageSize,
          MaxAnswers,    \* bound: loads on their way at once
          MaxClicks,     \* bound: what the user of the page does
          MaxOthers,     \* bound: changes by other users
          MaxFailures    \* bound: loads and changes that fail

VARIABLES page,      \* which page this behaviour is about
          in,        \* the rows of the table: the filter each row matches, or "gone"
          version,   \* the number of changes the table has seen
          view,      \* the filter and the page number that are chosen
          shown,     \* the answer that is on the screen
          error,     \* an error is on the screen instead
          overtaken, \* what is on the screen was asked before, and came after, something else
          answers,   \* what is on its way to the page, in the order it was asked for
          posted,      \* the changes the user has sent and that are not answered
          mine,      \* the version that the user's last change has made
          clicks, others, failures

vars == <<page, in, version, view, shown, error, overtaken, answers, posted, mine,
          clicks, others, failures>>

(***************************************************************************)
(* The pages.  `filters`: the query names a filter the user picks.  `cut`: *)
(* whether the list is cut into pages, by the API or by the browser.       *)
(* `edits`: what the page can do to rows; `after`: it asks again, takes    *)
(* the answer itself, or patches that one row.  `silent`: nothing is said  *)
(* of a load that fails.                                                   *)
(***************************************************************************)

Plain == [filters |-> FALSE, cut |-> "no", edits |-> {}, after |-> "reload", silent |-> FALSE]
Tabbed == [Plain EXCEPT !.filters = TRUE, !.cut = "api"]

AdminOrders         == Tabbed
AdminGroceryOrders  == Tabbed
AdminRides          == Tabbed
AdminRestaurants    == [Tabbed EXCEPT !.edits = {"move", "create"}]
AdminPartners       == [Tabbed EXCEPT !.edits = {"move", "create"}]
AdminDrivers        == [Tabbed EXCEPT !.edits = {"move", "create"}]
AdminProducts       == [Tabbed EXCEPT !.edits = {"move", "remove", "create"}]
AdminAllOrders      == [Tabbed EXCEPT !.cut = "browser"]
PartnerOrders       == [Plain EXCEPT !.filters = TRUE]
AdminReports        == [Plain EXCEPT !.filters = TRUE]
FoodList            == [Plain EXCEPT !.filters = TRUE]
GroceryList         == [Plain EXCEPT !.filters = TRUE]
AdminCoupons        == [Plain EXCEPT !.edits = {"move", "create"}]
AdminStaff          == [Plain EXCEPT !.edits = {"move", "create"}]
AdminCities         == [Plain EXCEPT !.edits = {"move", "create"}]
AdminRideTypes      == [Plain EXCEPT !.edits = {"move", "create"}]
AdminCategories     == [Plain EXCEPT !.edits = {"move", "remove", "create"}]
AdminBanners        == [Plain EXCEPT !.edits = {"move", "remove", "create"}]
AdminRestaurantMenu == [Plain EXCEPT !.edits = {"move", "remove", "create"}]
PartnerMenu         == [Plain EXCEPT !.edits = {"move", "remove", "create"}]
AdminUser           == [Plain EXCEPT !.edits = {"move"}]
WalletPage          == [Plain EXCEPT !.edits = {"create"}]
AdminSettings       == [Plain EXCEPT !.edits = {"move"}, !.after = "answer"]
PartnerHome         == [Plain EXCEPT !.edits = {"move"}, !.after = "answer"]
ProfilePage         == [Plain EXCEPT !.edits = {"remove"}, !.after = "patch", !.silent = TRUE]
AdminAuditLog       == Plain
AdminDashboard      == Plain
HomePage            == Plain
RestaurantPage      == Plain
CustomerOrders      == Plain
CustomerGroceries   == Plain
CustomerRides       == Plain

AllPages == {AdminOrders, AdminGroceryOrders, AdminRides, AdminRestaurants, AdminPartners,
             AdminDrivers, AdminProducts, AdminAllOrders, PartnerOrders, AdminReports,
             FoodList, GroceryList, AdminCoupons, AdminStaff, AdminCities, AdminRideTypes,
             AdminCategories, AdminBanners, AdminRestaurantMenu, PartnerMenu, AdminUser,
             WalletPage, AdminSettings, PartnerHome, ProfilePage, AdminAuditLog,
             AdminDashboard, HomePage, RestaurantPage, CustomerOrders, CustomerGroceries,
             CustomerRides}

(***************************************************************************)
(* What the API answers.                                                   *)
(***************************************************************************)

Filters == {"one", "two"}
Matches(place, filter) == place \in IF filter = "all" THEN Filters ELSE {filter}

Matching(table, filter) == {r \in Rows : Matches(table[r], filter)}

Slice(rows, n) == {r \in rows : Cardinality({s \in rows : s < r}) \div PageSize = n - 1}

Answer(table, v, at) ==
  LET rows == Matching(table, v.filter)
  IN  [filter |-> v.filter, n |-> v.n, total |-> Cardinality(rows), version |-> at,
       rows |-> IF page.cut = "api" THEN Slice(rows, v.n) ELSE rows, late |-> FALSE]

Blank == [filter |-> "none", n |-> 0, total |-> 0, version |-> 0, rows |-> {}, late |-> FALSE]
Loaded == ~error /\ shown # Blank
PagesOf(total) == IF page.cut = "no" THEN 1 ELSE (total + PageSize - 1) \div PageSize

TypeOK == /\ page \in AllPages
          /\ in \in [Rows -> Filters \cup {"gone"}] /\ shown.rows \subseteq Rows
          /\ version \in Nat /\ mine \in 0 .. version /\ Len(answers) <= MaxAnswers
          /\ overtaken \in BOOLEAN

Init == /\ page \in AllPages
        /\ in = [r \in Rows |-> IF r \in NewRows THEN "gone" ELSE "one"]
        /\ version = 0 /\ mine = 0
        /\ view = [filter |-> IF page.filters THEN "one" ELSE "all", n |-> 1]
        /\ shown = Blank /\ error = FALSE /\ overtaken = FALSE
        /\ answers = <<Answer(in, view, 0)>>
        /\ posted = {}
        /\ clicks = 0 /\ others = 0 /\ failures = 0

(* Nothing is disabled while loads or changes are on their way.              *)
Click == clicks < MaxClicks /\ clicks' = clicks + 1
Await(more) == Len(answers \o more) <= MaxAnswers /\ answers' = answers \o more
Ask(loads) == Await(loads) /\ error' = FALSE

(***************************************************************************)
(* What the page does.                                                     *)
(***************************************************************************)

(* The effect on [status, page] loads with the old number, the effect on     *)
(* [status] then sets the number to 1, and the first effect runs once more.  *)
ChooseFilter(filter) ==
  /\ page.filters /\ filter # view.filter /\ Click
  /\ view' = [filter |-> filter, n |-> 1]
  /\ Ask(<<Answer(in, [view EXCEPT !.filter = filter], version)>>
         \o IF page.cut = "api" /\ view.n # 1 THEN <<Answer(in, view', version)>> ELSE <<>>)
  /\ UNCHANGED <<page, in, version, shown, overtaken, posted, mine, others, failures>>

(* Previous and next, below rows that there are and when there is another    *)
(* page: a page past the end has no pager.                                   *)
ChoosePage(n) ==
  /\ Loaded /\ shown.rows # {} /\ Click
  /\ n \in {view.n - 1, view.n + 1} /\ n \in 1 .. PagesOf(shown.total)
  /\ view' = [view EXCEPT !.n = n]
  /\ IF page.cut = "api" THEN Ask(<<Answer(in, view', version)>>) ELSE UNCHANGED <<answers, error>>
  /\ UNCHANGED <<page, in, version, shown, overtaken, posted, mine, others, failures>>

Patched(what, row, to) ==
  [what EXCEPT !.rows = IF Matches(to, what.filter) THEN @ \cup {row} ELSE @ \ {row}]

Targets(row) == {to \in Filters \cup {"gone"} :
  \/ "move" \in page.edits /\ row \in shown.rows /\ to \in Filters
  \/ "remove" \in page.edits /\ row \in shown.rows /\ to = "gone"
  \/ "create" \in page.edits /\ in[row] = "gone" /\ to \in Filters}

(* A handler keeps the filter and the number of the moment it was clicked.   *)
Send(row, to) ==
  /\ Loaded /\ to \in Targets(row) /\ Click
  /\ posted' = posted \cup {[id |-> clicks, row |-> row, to |-> to, view |-> view]}
  /\ UNCHANGED <<page, in, version, view, shown, error, overtaken, answers, mine, others,
                 failures>>

(* Slip: a page that changes something does not ask for it again.            *)
FollowUnloaded(from) == UNCHANGED <<shown, answers, error>>

(* A load for what was chosen when the change was made, maybe no longer.     *)
Follow(from) ==
  LET reply == [Answer(in', from.view, version') EXCEPT !.late = from.view # view]
  IN  CASE page.after = "reload" -> Ask(<<reply>>) /\ UNCHANGED shown
        [] page.after = "answer" -> Await(<<reply>>) /\ UNCHANGED <<shown, error>>
        [] page.after = "patch" ->
             /\ shown' = [Patched(shown, from.row, from.to) EXCEPT !.version = version']
             /\ UNCHANGED <<answers, error>>

Serve(from) ==
  /\ from \in posted /\ posted' = posted \ {from}
  /\ in' = [in EXCEPT ![from.row] = from.to]
  /\ version' = version + 1 /\ mine' = version + 1
  /\ Follow(from)
  /\ UNCHANGED <<page, view, overtaken, clicks, others, failures>>

(* Refused, or served and the answer lost: a toast, and nothing is loaded.   *)
Refuse(from, served) ==
  /\ from \in posted /\ posted' = posted \ {from}
  /\ failures < MaxFailures /\ failures' = failures + 1
  /\ in' = IF served THEN [in EXCEPT ![from.row] = from.to] ELSE in
  /\ version' = IF served THEN version + 1 ELSE version
  /\ UNCHANGED <<page, view, shown, error, overtaken, answers, mine, clicks, others>>

(* setItems(answer): whichever answer comes last stays.                      *)
Arrive(i) ==
  /\ i \in DOMAIN answers
  /\ shown' = answers[i] /\ overtaken' = answers[i].late
  /\ answers' = RemoveAt([j \in DOMAIN answers |->
                            [answers[j] EXCEPT !.late = @ \/ j < i]], i)
  /\ UNCHANGED <<page, in, version, view, error, posted, mine, clicks, others, failures>>

(* A load that fails: most pages show an error with a button.  What happens  *)
(* when the answer to a change is lost is said above.                        *)
Fail(i) ==
  /\ i \in DOMAIN answers /\ failures < MaxFailures /\ failures' = failures + 1
  /\ page.after = "answer" => shown = Blank
  /\ error' = ~page.silent
  /\ answers' = RemoveAt(answers, i)
  /\ UNCHANGED <<page, in, version, view, shown, overtaken, posted, mine, clicks, others>>

Retry ==
  /\ error /\ Click
  /\ Ask(<<Answer(in, view, version)>>)
  /\ UNCHANGED <<page, in, version, view, shown, overtaken, posted, mine, others, failures>>

OtherUser(row, to) ==
  /\ others < MaxOthers /\ others' = others + 1
  /\ in[row] # to
  /\ in' = [in EXCEPT ![row] = to] /\ version' = version + 1
  /\ UNCHANGED <<page, view, shown, error, overtaken, answers, posted, mine, clicks, failures>>

Next == \/ \E filter \in Filters : ChooseFilter(filter)
        \/ \E n \in Rows : ChoosePage(n)
        \/ \E row \in Rows, to \in Filters \cup {"gone"} : Send(row, to) \/ OtherUser(row, to)
        \/ \E from \in posted : Serve(from) \/ \E served \in BOOLEAN : Refuse(from, served)
        \/ \E i \in DOMAIN answers : Arrive(i) \/ Fail(i)
        \/ Retry

(***************************************************************************)
(* Properties.                                                             *)
(***************************************************************************)

(* A page that is done loading shows the filter and the page number that are *)
(* chosen, as they were after the user's last change or later, whatever      *)
(* others do and however fast the user clicks: unless the answer that came   *)
(* last was overtaken, by the answer to a later question or by the user.     *)
Quiet == answers = <<>> /\ posted = {}
ShowsChoice == Quiet /\ Loaded /\ ~overtaken =>
                 /\ shown.filter = view.filter /\ shown.version >= mine
                 /\ page.cut = "api" => shown.n = view.n
=============================================================================
