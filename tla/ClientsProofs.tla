---------------------------- MODULE ClientsProofs ----------------------------
(* The programs around the API, for any number of rows, clicks, requests and *)
(* failures: what a user sees, what a checkout charges, and what             *)
(* the seed script leaves.  A behaviour is about one part, and the invariant *)
(* of each part is kept by its steps and not touched by those of the others. *)
EXTENDS Clients, SequenceTheorems, TLAPS

(***************************************************************************)
(* Sequences of what is on its way.                                        *)
(***************************************************************************)

(* RemoveAt of the community modules, as the three modules instantiate it.   *)
Without(s, i) == SubSeq(s, 1, i - 1) \o SubSeq(s, i + 1, Len(s))

LEMMA WithoutFacts ==
  ASSUME NEW S, NEW s \in Seq(S), NEW i \in 1 .. Len(s)
  PROVE  /\ Without(s, i) \in Seq(S) /\ Len(Without(s, i)) = Len(s) - 1
         /\ \A j \in 1 .. Len(s) - 1 : Without(s, i)[j] = IF j < i THEN s[j] ELSE s[j + 1]
<1>1. Len(s) \in Nat /\ i \in Int /\ \A j \in 1 .. Len(s) : s[j] \in S
  BY LenProperties, ElementOfSeq
<1> DEFINE front == SubSeq(s, 1, i - 1)
           back  == SubSeq(s, i + 1, Len(s))
<1>2. /\ front \in Seq(S) /\ Len(front) = i - 1
      /\ \A j \in 1 .. i - 1 : front[j] = s[j]
  <2>1. \A j \in 1 .. i - 1 : s[j] \in S
    BY <1>1
  <2>2. /\ front \in Seq(S) /\ Len(front) = IF 1 <= i - 1 THEN (i - 1) - 1 + 1 ELSE 0
        /\ \A j \in 1 .. (i - 1) - 1 + 1 : front[j] = s[1 + j - 1]
    BY <1>1, <2>1, SubSeqProperties
  <2> HIDE DEF front
  <2> QED BY <1>1, <2>2
<1>3. /\ back \in Seq(S) /\ Len(back) = Len(s) - i
      /\ \A j \in 1 .. Len(s) - i : back[j] = s[i + j]
  <2>1. \A j \in i + 1 .. Len(s) : s[j] \in S
    BY <1>1
  <2>2. /\ back \in Seq(S) /\ Len(back) = IF i + 1 <= Len(s) THEN Len(s) - (i + 1) + 1 ELSE 0
        /\ \A j \in 1 .. Len(s) - (i + 1) + 1 : back[j] = s[(i + 1) + j - 1]
    BY <1>1, <2>1, SubSeqProperties
  <2> HIDE DEF back
  <2> QED BY <1>1, <2>2
<1>4. Without(s, i) = front \o back
  BY DEF Without
<1> HIDE DEF front, back
<1>5. /\ front \o back \in Seq(S) /\ Len(front \o back) = Len(front) + Len(back)
      /\ \A j \in 1 .. Len(front) + Len(back) :
           (front \o back)[j] = IF j <= Len(front) THEN front[j] ELSE back[j - Len(front)]
  BY <1>2, <1>3, ConcatProperties
<1>6. /\ Without(s, i) \in Seq(S) /\ Len(Without(s, i)) = Len(s) - 1
  BY <1>1, <1>2, <1>3, <1>4, <1>5
<1>7. ASSUME NEW j \in 1 .. Len(s) - 1
      PROVE  Without(s, i)[j] = IF j < i THEN s[j] ELSE s[j + 1]
  <2>1. Without(s, i)[j] = IF j <= i - 1 THEN front[j] ELSE back[j - (i - 1)]
    BY <1>1, <1>2, <1>3, <1>4, <1>5
  <2>2. CASE j < i
    BY <1>1, <1>2, <2>1, <2>2
  <2>3. CASE ~(j < i)
    <3>1. j - (i - 1) \in 1 .. Len(s) - i /\ i + (j - (i - 1)) = j + 1
      BY <1>1, <2>3
    <3>2. back[j - (i - 1)] = s[j + 1]
      BY <1>3, <3>1
    <3> QED BY <1>1, <2>1, <2>3, <3>2
  <2> QED BY <2>2, <2>3, Zenon
<1> QED BY <1>6, <1>7

(* Whatever is left was there before.                                        *)
LEMMA WithoutElements ==
  ASSUME NEW S, NEW s \in Seq(S), NEW i \in 1 .. Len(s), NEW j \in 1 .. Len(Without(s, i))
  PROVE  \E k \in 1 .. Len(s) : k # i /\ Without(s, i)[j] = s[k]
<1>1. Len(s) \in Nat /\ j \in 1 .. Len(s) - 1
  BY WithoutFacts
<1>2. CASE j < i
  <2>1. j \in 1 .. Len(s) /\ j # i /\ Without(s, i)[j] = s[j]
    BY <1>1, <1>2, WithoutFacts
  <2> QED BY <2>1
<1>3. CASE ~(j < i)
  <2>1. j + 1 \in 1 .. Len(s) /\ j + 1 # i /\ Without(s, i)[j] = s[j + 1]
    BY <1>1, <1>3, WithoutFacts
  <2> QED BY <2>1
<1> QED BY <1>2, <1>3, Zenon

LEMMA SameRemoveAt ==
  \A s, i : /\ Page!RemoveAt(s, i) = Without(s, i) /\ Detail!RemoveAt(s, i) = Without(s, i)
            /\ Shop!RemoveAt(s, i) = Without(s, i)
BY DEF Page!RemoveAt, Detail!RemoveAt, Shop!RemoveAt, Without

(***************************************************************************)
(* Lists.                                                                  *)
(***************************************************************************)

Usual(p) == p.silent = FALSE /\ p.after \in {"reload", "answer"}

(* One page says nothing of a load that fails, and loads once.               *)
LEMMA PagesAreUsual ==
  \A p \in Page!AllPages : Usual(p) \/ p = Page!ProfilePage
<1>1. Usual(Page!Plain) /\ Usual(Page!Tabbed)
  BY DEF Usual, Page!Plain, Page!Tabbed
<1>2. /\ Usual(Page!AdminOrders) /\ Usual(Page!AdminGroceryOrders) /\ Usual(Page!AdminRides)
      /\ Usual(Page!AdminAuditLog) /\ Usual(Page!AdminDashboard) /\ Usual(Page!HomePage)
      /\ Usual(Page!RestaurantPage) /\ Usual(Page!CustomerOrders)
      /\ Usual(Page!CustomerGroceries) /\ Usual(Page!CustomerRides)
  BY <1>1 DEF Page!AdminOrders, Page!AdminGroceryOrders, Page!AdminRides, Page!AdminAuditLog,
              Page!AdminDashboard, Page!HomePage, Page!RestaurantPage, Page!CustomerOrders,
              Page!CustomerGroceries, Page!CustomerRides
<1>3. Usual(Page!AdminRestaurants) /\ Usual(Page!AdminPartners) /\ Usual(Page!AdminDrivers)
  BY DEF Usual, Page!Plain, Page!Tabbed, Page!AdminRestaurants, Page!AdminPartners,
         Page!AdminDrivers
<1>4. Usual(Page!AdminProducts) /\ Usual(Page!AdminAllOrders)
  BY DEF Usual, Page!Plain, Page!Tabbed, Page!AdminProducts, Page!AdminAllOrders
<1>5. /\ Usual(Page!PartnerOrders) /\ Usual(Page!AdminReports) /\ Usual(Page!FoodList)
      /\ Usual(Page!GroceryList)
  BY DEF Usual, Page!Plain, Page!PartnerOrders, Page!AdminReports, Page!FoodList,
         Page!GroceryList
<1>6. /\ Usual(Page!AdminCoupons) /\ Usual(Page!AdminStaff) /\ Usual(Page!AdminCities)
      /\ Usual(Page!AdminRideTypes)
  BY DEF Usual, Page!Plain, Page!AdminCoupons, Page!AdminStaff, Page!AdminCities,
         Page!AdminRideTypes
<1>7. /\ Usual(Page!AdminCategories) /\ Usual(Page!AdminBanners)
      /\ Usual(Page!AdminRestaurantMenu) /\ Usual(Page!PartnerMenu)
  BY DEF Usual, Page!Plain, Page!AdminCategories, Page!AdminBanners,
         Page!AdminRestaurantMenu, Page!PartnerMenu
<1>8. /\ Usual(Page!AdminUser) /\ Usual(Page!WalletPage) /\ Usual(Page!AdminSettings)
      /\ Usual(Page!PartnerHome)
  BY DEF Usual, Page!Plain, Page!AdminUser, Page!WalletPage, Page!AdminSettings,
         Page!PartnerHome
<1> QED BY <1>2, <1>3, <1>4, <1>5, <1>6, <1>7, <1>8 DEF Page!AllPages

(* What tells the pages apart.                                               *)
LEMMA PageRead ==
  ASSUME NEW p \in Page!AllPages
  PROVE  /\ p.silent \in BOOLEAN /\ p.after \in {"reload", "answer", "patch"}
         /\ p.silent = (p.after = "patch")
         /\ p.silent => p.filters = FALSE /\ p.cut = "no"
<1>1. /\ Page!ProfilePage.silent = TRUE /\ Page!ProfilePage.after = "patch"
      /\ Page!ProfilePage.filters = FALSE /\ Page!ProfilePage.cut = "no"
  BY DEF Page!ProfilePage, Page!Plain
<1> QED BY <1>1, PagesAreUsual DEF Usual

Views == [filter : Page!Filters \cup {"all"}, n : Rows \cup {1}]
Replies == [filter : Page!Filters \cup {"all"}, n : Rows \cup {1}, version : Nat,
            total : {Page!Cardinality(rs) : rs \in SUBSET Rows}, rows : SUBSET Rows,
            late : BOOLEAN]

(* An answer that shows what is chosen, with the user's own last change.     *)
FitsTo(a, v, change) == /\ a.filter = v.filter /\ a.version >= change
                        /\ page.cut = "api" => a.n = v.n
Fits(a) == FitsTo(a, view, mine)

PageTyped ==
  /\ page \in Page!AllPages /\ view \in Views /\ version \in Nat /\ mine \in Nat /\ mine <= version
  /\ error \in BOOLEAN /\ overtaken \in BOOLEAN /\ answers \in Seq(Replies)
  /\ \A from \in posted : from.view \in Views

(* The load that was asked for last fits, and so does the screen when none   *)
(* is on its way, unless something has overtaken them.                       *)
LastFits ==
  ~error => IF answers # <<>> THEN answers[Len(answers)].late \/ Fits(answers[Len(answers)])
                              ELSE shown = Page!Blank \/ overtaken \/ Fits(shown)

(* The page that patches what it shows has loaded it before.                 *)
OneLoad ==
  page.silent => /\ ~error /\ "filter" \in DOMAIN shown /\ "version" \in DOMAIN shown
                 /\ answers # <<>> => Len(answers) = 1 /\ shown = Page!Blank
                 /\ posted # {} => shown # Page!Blank
                 /\ shown # Page!Blank => shown.filter # "none"

PageInv == PageTyped /\ LastFits /\ OneLoad

(* What the API answers has the filter and the number it was asked for.      *)
LEMMA AnswerFacts ==
  ASSUME NEW table, NEW v \in Views, NEW done \in Nat
  PROVE  /\ Page!Answer(table, v, done) \in Replies
         /\ Page!Answer(table, v, done).filter = v.filter
         /\ Page!Answer(table, v, done).n = v.n
         /\ Page!Answer(table, v, done).version = done
<1> DEFINE rs == Page!Matching(table, v.filter)
           cut == IF page.cut = "api" THEN Page!Slice(rs, v.n) ELSE rs
<1>1. rs \in SUBSET Rows /\ cut \in SUBSET Rows
  BY DEF Page!Matching, Page!Slice
<1>2. Page!Answer(table, v, done) = [filter |-> v.filter, n |-> v.n, total |-> Page!Cardinality(rs),
                                   version |-> done, rows |-> cut, late |-> FALSE]
  BY DEF Page!Answer
<1> HIDE DEF rs, cut
<1>3. Page!Cardinality(rs) \in {Page!Cardinality(s) : s \in SUBSET Rows}
  BY <1>1
<1>4. v.filter \in Page!Filters \cup {"all"} /\ v.n \in Rows \cup {1}
  BY DEF Views
<1> QED BY <1>1, <1>2, <1>3, <1>4 DEF Replies

(* The page asks once more, for what is chosen or for what was.              *)
LEMMA PageAsks ==
  ASSUME PageInv, page' = page, ~page.silent, view' \in Views,
         version' \in Nat, mine' \in Nat, mine' <= version',
         error' \in BOOLEAN, overtaken' \in BOOLEAN, posted' \subseteq posted,
         NEW a \in Replies, answers' = Append(answers, a), a.late \/ FitsTo(a, view', mine')
  PROVE  PageInv'
<1>1. /\ answers' \in Seq(Replies) /\ Len(answers') = Len(answers) + 1
      /\ answers'[Len(answers')] = a /\ Len(answers) \in Nat
  BY AppendProperties, LenProperties DEF PageInv, PageTyped
<1>2. answers' # <<>>
  BY <1>1, EmptySeq
<1>3. PageTyped'
  BY <1>1 DEF PageInv, PageTyped, Views, Replies, Page!AllPages
<1>4. LastFits'
  BY <1>1, <1>2 DEF LastFits, Fits, FitsTo
<1>5. OneLoad'
  BY DEF OneLoad
<1> QED BY <1>3, <1>4, <1>5 DEF PageInv

(* A filter: the second of two loads counts.                                 *)
LEMMA PageFilter ==
  ASSUME PageInv, NEW filter \in Page!Filters, Page!ChooseFilter(filter)
  PROVE  PageInv'
<1>1. /\ page' = page /\ page.filters /\ view' = [filter |-> filter, n |-> 1]
      /\ UNCHANGED <<version, mine, shown, overtaken, posted>> /\ error' = FALSE
  BY DEF Page!ChooseFilter, Page!Ask
<1>2. /\ ~page.silent /\ view \in Views /\ version \in Nat /\ mine \in Nat /\ mine <= version
      /\ overtaken \in BOOLEAN /\ answers \in Seq(Replies) /\ Len(answers) \in Nat
  BY <1>1, PageRead, LenProperties DEF PageInv, PageTyped
<1> DEFINE first == [view EXCEPT !.filter = filter]
<1>3. /\ view' \in Views /\ view'.filter = filter /\ view'.n = 1
      /\ first \in Views /\ first.filter = filter /\ first.n = view.n
  BY <1>1, <1>2 DEF Views
<1> HIDE DEF first
<1> DEFINE a == Page!Answer(in, first, version)
           b == Page!Answer(in, view', version)
<1>4. /\ a \in Replies /\ a.filter = filter /\ a.n = view.n /\ a.version = version
      /\ b \in Replies /\ b.filter = filter /\ b.n = 1 /\ b.version = version
  BY <1>2, <1>3, AnswerFacts
<1> HIDE DEF a, b
<1>5. answers' = answers \o (<<a>> \o IF page.cut = "api" /\ view.n # 1 THEN <<b>> ELSE <<>>)
  BY DEF Page!ChooseFilter, Page!Ask, Page!Await, a, b, first
<1>6. posted' \subseteq posted /\ error' \in BOOLEAN /\ overtaken' \in BOOLEAN
  BY <1>1, <1>2, Zenon
<1>7. CASE page.cut = "api" /\ view.n # 1
  <2>1. answers' = answers \o <<a, b>>
    BY <1>5, <1>7, <1>4
  <2>2. /\ answers' \in Seq(Replies) /\ Len(answers') = Len(answers) + 2
        /\ answers'[Len(answers')] = b
    BY <1>2, <1>4, <2>1
  <2>3. answers' # <<>>
    BY <1>2, <2>2, EmptySeq
  <2>4. FitsTo(b, view', mine')
    BY <1>1, <1>2, <1>3, <1>4 DEF Fits, FitsTo
  <2>5. PageTyped'
    BY <1>1, <1>2, <1>3, <1>6, <2>2 DEF PageInv, PageTyped, Views, Replies, Page!AllPages
  <2>6. LastFits' /\ OneLoad'
    BY <1>1, <1>2, <2>2, <2>3, <2>4 DEF LastFits, OneLoad, Fits, FitsTo
  <2> QED BY <2>5, <2>6 DEF PageInv
<1>8. CASE ~(page.cut = "api" /\ view.n # 1)
  <2>1. answers' = Append(answers, a)
    BY <1>2, <1>4, <1>5, <1>8
  <2>2. FitsTo(a, view', mine')
    BY <1>1, <1>2, <1>3, <1>4, <1>8 DEF Fits, FitsTo
  <2> QED BY <1>1, <1>2, <1>3, <1>4, <1>6, <2>1, <2>2, PageAsks
<1> QED BY <1>7, <1>8

(* A load of what is chosen is asked for.                                    *)
LEMMA PageAsksNow ==
  ASSUME PageInv, ~page.silent, view' \in Views, overtaken' \in BOOLEAN,
         UNCHANGED <<page, version, mine, posted>>,
         Page!Ask(<<Page!Answer(in, view', version)>>)
  PROVE  PageInv'
<1> DEFINE a == Page!Answer(in, view', version)
<1>1. version \in Nat /\ mine \in Nat /\ mine <= version /\ answers \in Seq(Replies)
  BY DEF PageInv, PageTyped
<1>2. a \in Replies /\ a.filter = view'.filter /\ a.n = view'.n /\ a.version = version
  BY <1>1, AnswerFacts
<1>3. answers' = answers \o <<a>> /\ error' = FALSE
  BY DEF Page!Ask, Page!Await
<1> HIDE DEF a
<1>4. answers' = Append(answers, a)
  BY <1>1, <1>2, <1>3
<1>5. FitsTo(a, view', mine')
  BY <1>1, <1>2 DEF Fits, FitsTo
<1>6. error' \in BOOLEAN /\ posted' \subseteq posted
  BY <1>3, Zenon
<1> QED BY <1>1, <1>2, <1>4, <1>5, <1>6, PageAsks

(* Another page: the API cuts, or the browser has all of it.                 *)
LEMMA PageNumber ==
  ASSUME PageInv, NEW n \in Rows, Page!ChoosePage(n)
  PROVE  PageInv'
<1>1. /\ view' = [view EXCEPT !.n = n]
      /\ UNCHANGED <<page, version, mine, shown, overtaken, posted>>
  BY DEF Page!ChoosePage
<1>2. view' \in Views /\ view'.filter = view.filter /\ overtaken' \in BOOLEAN
  BY <1>1 DEF PageInv, PageTyped, Views
<1>3. CASE page.cut = "api"
  <2>1. ~page.silent
    BY <1>3, PageRead DEF PageInv, PageTyped
  <2>2. Page!Ask(<<Page!Answer(in, view', version)>>)
    BY <1>3 DEF Page!ChoosePage
  <2> QED BY <1>1, <1>2, <2>1, <2>2, PageAsksNow
<1>4. CASE page.cut # "api"
  <2>1. UNCHANGED <<answers, error>>
    BY <1>4 DEF Page!ChoosePage
  <2>2. PageTyped'
    BY <1>1, <1>2, <2>1 DEF PageInv, PageTyped, Views, Replies, Page!AllPages
  <2>3. LastFits'
    BY <1>1, <1>2, <1>4, <2>1 DEF PageInv, LastFits, Fits, FitsTo, Page!Blank
  <2>4. OneLoad'
    BY <1>1, <2>1 DEF PageInv, OneLoad, Page!Blank
  <2> QED BY <2>2, <2>3, <2>4 DEF PageInv
<1> QED BY <1>3, <1>4

(* A change is sent.                                                         *)
LEMMA PageSend ==
  ASSUME PageInv, NEW row, NEW to, Page!Send(row, to)
  PROVE  PageInv'
<1> DEFINE from == [id |-> clicks, row |-> row, to |-> to, view |-> view]
<1>1. /\ posted' = posted \cup {from} /\ shown # Page!Blank
      /\ UNCHANGED <<page, version, view, shown, error, overtaken, answers, mine>>
  BY DEF Page!Send, Page!Loaded
<1>2. from.view \in Views
  BY DEF PageInv, PageTyped
<1> HIDE DEF from
<1>3. PageTyped'
  BY <1>1, <1>2 DEF PageInv, PageTyped, Views, Replies, Page!AllPages
<1>4. LastFits' /\ OneLoad'
  BY <1>1 DEF PageInv, LastFits, OneLoad, Fits, FitsTo, Page!Blank
<1> QED BY <1>3, <1>4 DEF PageInv

(* The change is made, and the page asks for it or is told.                  *)
LEMMA PageServe ==
  ASSUME PageInv, NEW from \in posted, Page!Serve(from)
  PROVE  PageInv'
<1>1. /\ posted' \subseteq posted /\ version' = version + 1 /\ mine' = version + 1
      /\ UNCHANGED <<page, view, overtaken>>
  BY DEF Page!Serve
<1>2. /\ view \in Views /\ version \in Nat /\ error \in BOOLEAN /\ answers \in Seq(Replies)
      /\ version' \in Nat /\ mine' \in Nat /\ mine' <= version' /\ from.view \in Views
      /\ overtaken' \in BOOLEAN /\ view' \in Views
  BY <1>1 DEF PageInv, PageTyped
<1>3. /\ page.silent \in BOOLEAN /\ page.after \in {"reload", "answer", "patch"}
      /\ page.silent = (page.after = "patch")
  BY PageRead DEF PageInv, PageTyped
<1> DEFINE a == Page!Answer(in', from.view, version')
           reply == [a EXCEPT !.late = from.view # view]
<1>4. a \in Replies /\ a.filter = from.view.filter /\ a.n = from.view.n /\ a.version = version'
  BY <1>2, AnswerFacts
<1>5. CASE page.after # "patch"
  <2>1. answers' = answers \o <<reply>> /\ (error' = FALSE \/ error' = error)
    BY <1>3, <1>5, Zenon DEF Page!Serve, Page!Follow, Page!Ask, Page!Await
  <2> HIDE DEF a
  <2>2. /\ reply \in Replies /\ reply.filter = from.view.filter /\ reply.n = from.view.n
        /\ reply.version = version' /\ reply.late = (from.view # view)
    BY <1>4 DEF Replies
  <2> HIDE DEF reply
  <2>3. answers' = Append(answers, reply) /\ error' \in BOOLEAN
    <3>1. answers' = Append(answers, reply)
      BY <1>2, <2>1, <2>2
    <3>2. error' \in BOOLEAN
      BY <1>2, <2>1, Zenon
    <3> QED BY <3>1, <3>2
  <2>4. reply.late \/ FitsTo(reply, view', mine')
    BY <1>1, <1>2, <2>2 DEF Fits, FitsTo
  <2> QED BY <1>1, <1>2, <1>3, <1>5, <2>2, <2>3, <2>4, PageAsks
<1>6. CASE page.after = "patch"
  <2>1. /\ UNCHANGED <<answers, error>>
        /\ shown' = [Page!Patched(shown, from.row, from.to) EXCEPT !.version = version']
    BY <1>6 DEF Page!Serve, Page!Follow
  <2>2. /\ page.silent /\ ~error /\ "filter" \in DOMAIN shown /\ "version" \in DOMAIN shown
        /\ shown # Page!Blank /\ answers = <<>> /\ shown.filter # "none" /\ page.cut = "no"
    BY <1>3, <1>6, PageRead DEF PageInv, OneLoad, PageTyped
  <2>3. /\ DOMAIN shown' = DOMAIN shown /\ shown'.filter = shown.filter
        /\ shown'.version = version'
    BY <2>1, <2>2 DEF Page!Patched
  <2>4. shown' # Page!Blank
    BY <2>2, <2>3 DEF Page!Blank
  <2>5. PageTyped'
    BY <1>1, <1>2, <2>1 DEF PageInv, PageTyped, Views, Replies, Page!AllPages
  <2>6. LastFits'
    <3>1. overtaken \/ Fits(shown)
      BY <2>2 DEF PageInv, LastFits
    <3>2. overtaken' \/ Fits(shown)'
      BY <1>1, <1>2, <2>2, <2>3, <3>1 DEF Fits, FitsTo
    <3> QED BY <1>1, <2>1, <2>2, <3>2 DEF LastFits
  <2>7. OneLoad'
    BY <1>1, <2>1, <2>2, <2>3, <2>4 DEF OneLoad
  <2> QED BY <2>5, <2>6, <2>7 DEF PageInv
<1> QED BY <1>5, <1>6

(* What is asked for before the answer that comes is late from now on.       *)
Passed(i) == [j \in DOMAIN answers |-> [answers[j] EXCEPT !.late = @ \/ j < i]]

LEMMA PassedFacts ==
  ASSUME answers \in Seq(Replies), NEW i \in 1 .. Len(answers)
  PROVE  /\ Passed(i) \in Seq(Replies) /\ Len(Passed(i)) = Len(answers)
         /\ \A j \in 1 .. Len(answers) :
              IF j < i THEN Passed(i)[j].late ELSE Passed(i)[j] = answers[j]
<1>1. /\ Len(answers) \in Nat /\ DOMAIN answers = 1 .. Len(answers)
      /\ \A j \in 1 .. Len(answers) : answers[j] \in Replies
  BY LenProperties, ElementOfSeq
<1> DEFINE r(j) == [answers[j] EXCEPT !.late = @ \/ j < i]
<1>2. ASSUME NEW j \in 1 .. Len(answers)
      PROVE  r(j) \in Replies /\ IF j < i THEN r(j).late ELSE r(j) = answers[j]
  BY <1>1 DEF Replies
<1> DEFINE t == [j \in 1 .. Len(answers) |-> r(j)]
<1> HIDE DEF r
<1>3. Passed(i) = t
  BY <1>1 DEF Passed, r
<1>4. t \in Seq(Replies) /\ Len(t) = Len(answers)
  <2>1. t \in [1 .. Len(answers) -> Replies]
    BY <1>2
  <2> HIDE DEF t
  <2> QED BY <1>1, <2>1, IsASeq, LenProperties, SeqDef
<1> QED BY <1>2, <1>3, <1>4

(* An answer comes, in its turn or before those that were asked for earlier. *)
LEMMA PageArrive ==
  ASSUME PageInv, NEW i \in DOMAIN answers, Page!Arrive(i)
  PROVE  PageInv'
<1>1. /\ shown' = answers[i] /\ overtaken' = answers[i].late
      /\ answers' = Without(Passed(i), i)
      /\ UNCHANGED <<page, version, view, error, posted, mine>>
  BY SameRemoveAt DEF Page!Arrive, Passed
<1>2. /\ answers \in Seq(Replies) /\ i \in 1 .. Len(answers) /\ Len(answers) \in Nat
      /\ answers[i] \in Replies
  BY LenProperties, ElementOfSeq DEF PageInv, PageTyped
<1>3. /\ Passed(i) \in Seq(Replies) /\ Len(Passed(i)) = Len(answers)
      /\ \A j \in 1 .. Len(answers) :
           IF j < i THEN Passed(i)[j].late ELSE Passed(i)[j] = answers[j]
  BY <1>2, PassedFacts
<1>4. /\ answers' \in Seq(Replies) /\ Len(answers') = Len(answers) - 1
      /\ \A j \in 1 .. Len(answers) - 1 :
           answers'[j] = IF j < i THEN Passed(i)[j] ELSE Passed(i)[j + 1]
  BY <1>1, <1>2, <1>3, WithoutFacts
<1>5. answers # <<>> /\ (answers' = <<>> <=> Len(answers) = 1)
  BY <1>2, <1>4, EmptySeq
<1>6. PageTyped'
  <2>1. answers[i].late \in BOOLEAN
    BY <1>2 DEF Replies
  <2> QED BY <1>1, <1>4, <2>1 DEF PageInv, PageTyped, Views, Replies, Page!AllPages
<1>7. LastFits'
  <2>1. CASE Len(answers) = 1
    BY <1>1, <1>2, <1>5, <2>1 DEF PageInv, LastFits, Fits, FitsTo
  <2>2. CASE Len(answers) # 1 /\ i = Len(answers)
    <3>1. answers'[Len(answers')] = Passed(i)[Len(answers) - 1]
      BY <1>2, <1>4, <2>2
    <3>2. answers'[Len(answers')].late
      BY <1>2, <1>3, <2>2, <3>1
    <3> QED BY <1>5, <2>2, <3>2 DEF LastFits
  <2>3. CASE Len(answers) # 1 /\ i # Len(answers)
    <3>1. answers'[Len(answers')] = answers[Len(answers)]
      BY <1>2, <1>3, <1>4, <2>3
    <3> QED BY <1>1, <1>5, <2>3, <3>1 DEF PageInv, LastFits, Fits, FitsTo
  <2> QED BY <2>1, <2>2, <2>3
<1>8. OneLoad'
  <2> SUFFICES ASSUME page.silent
               PROVE  /\ ~error' /\ "filter" \in DOMAIN shown' /\ "version" \in DOMAIN shown'
                      /\ answers' = <<>> /\ shown' # Page!Blank /\ shown'.filter # "none"
    BY <1>1 DEF OneLoad
  <2>1. ~error /\ Len(answers) = 1
    BY <1>5 DEF PageInv, OneLoad
  <2>2. shown' \in Replies
    BY <1>1, <1>2
  <2>3. "filter" \in DOMAIN shown' /\ "version" \in DOMAIN shown' /\ shown'.filter # "none"
    BY <2>2 DEF Replies, Page!Filters
  <2>4. shown' # Page!Blank
    BY <2>3 DEF Page!Blank
  <2> QED BY <1>1, <1>5, <2>1, <2>3, <2>4
<1> QED BY <1>6, <1>7, <1>8 DEF PageInv

(* A load fails: an error is on the screen, or nothing at all.               *)
LEMMA PageFail ==
  ASSUME PageInv, NEW i \in DOMAIN answers, Page!Fail(i)
  PROVE  PageInv'
<1>1. /\ error' = ~page.silent /\ answers' = Without(answers, i)
      /\ UNCHANGED <<page, version, view, shown, overtaken, posted, mine>>
  BY SameRemoveAt DEF Page!Fail
<1>2. answers \in Seq(Replies) /\ i \in 1 .. Len(answers) /\ Len(answers) \in Nat
  BY LenProperties DEF PageInv, PageTyped
<1>3. answers' \in Seq(Replies) /\ Len(answers') = Len(answers) - 1
  BY <1>1, <1>2, WithoutFacts
<1>4. answers # <<>> /\ (answers' = <<>> <=> Len(answers) = 1)
  BY <1>2, <1>3, EmptySeq
<1>5. page.silent \in BOOLEAN
  BY PageRead DEF PageInv, PageTyped
<1>6. PageTyped'
  BY <1>1, <1>3, <1>5 DEF PageInv, PageTyped, Views, Replies, Page!AllPages
<1>7. page.silent => answers' = <<>> /\ shown' = Page!Blank /\ posted' = {}
  BY <1>1, <1>4 DEF PageInv, OneLoad
<1>8. LastFits'
  BY <1>1, <1>5, <1>7 DEF LastFits
<1>9. OneLoad'
  BY <1>1, <1>5, <1>7 DEF OneLoad, Page!Blank
<1> QED BY <1>6, <1>8, <1>9 DEF PageInv

(* The button below an error.                                                *)
LEMMA PageRetry ==
  ASSUME PageInv, Page!Retry
  PROVE  PageInv'
<1>1. /\ error /\ Page!Ask(<<Page!Answer(in, view, version)>>)
      /\ UNCHANGED <<page, version, view, overtaken, posted, mine>>
  BY DEF Page!Retry
<1>2. ~page.silent /\ view' \in Views /\ overtaken' \in BOOLEAN
  BY <1>1 DEF PageInv, PageTyped, OneLoad, Views
<1>3. Page!Ask(<<Page!Answer(in, view', version)>>)
  BY <1>1
<1> QED BY <1>1, <1>2, <1>3, PageAsksNow

(* A change that is refused or whose answer is lost, and those of others.    *)
LEMMA PageOthers ==
  ASSUME PageInv, posted' \subseteq posted, version' \in {version, version + 1},
         UNCHANGED <<page, view, shown, error, overtaken, answers, mine>>
  PROVE  PageInv'
<1>1. version' \in Nat /\ mine \in Nat /\ mine <= version'
  BY DEF PageInv, PageTyped
<1>2. PageTyped'
  BY <1>1 DEF PageInv, PageTyped, Views, Replies, Page!AllPages
<1>3. LastFits' /\ OneLoad'
  BY DEF PageInv, LastFits, OneLoad, Fits, FitsTo, Page!Blank
<1> QED BY <1>2, <1>3 DEF PageInv

LEMMA PageStarts == Page!Init => PageInv
<1> SUFFICES ASSUME Page!Init PROVE PageInv
  OBVIOUS
<1> DEFINE a == Page!Answer(in, view, 0)
<1>1. /\ page \in Page!AllPages /\ version = 0 /\ mine = 0 /\ error = FALSE /\ overtaken = FALSE
      /\ posted = {} /\ shown = Page!Blank /\ answers = <<a>>
      /\ view = [filter |-> IF page.filters THEN "one" ELSE "all", n |-> 1]
  BY DEF Page!Init
<1>2. view \in Views
  <2>1. (IF page.filters THEN "one" ELSE "all") \in Page!Filters \cup {"all"}
    BY DEF Page!Filters
  <2> QED BY <1>1, <2>1 DEF Views
<1>3. a \in Replies /\ a.filter = view.filter /\ a.n = view.n /\ a.version = 0
  BY <1>2, AnswerFacts
<1> HIDE DEF a
<1>4. answers \in Seq(Replies) /\ answers # <<>> /\ Len(answers) = 1 /\ answers[1] = a
  BY <1>1, <1>3
<1>5. PageTyped
  <2>1. error \in BOOLEAN /\ overtaken \in BOOLEAN
    BY <1>1, Zenon
  <2>2. version \in Nat /\ mine \in Nat /\ mine <= version
    BY <1>1
  <2> QED BY <1>1, <1>2, <1>4, <2>1, <2>2 DEF PageTyped
<1>6. LastFits
  BY <1>1, <1>3, <1>4 DEF LastFits, Fits, FitsTo
<1>7. OneLoad
  BY <1>1, <1>4 DEF OneLoad, Page!Blank
<1> QED BY <1>5, <1>6, <1>7 DEF PageInv

LEMMA PageKept ==
  ASSUME PageInv, [Next]_vars
  PROVE  PageInv'
<1>1. CASE UNCHANGED pageVars
  BY <1>1, PageOthers DEF pageVars
<1>2. CASE Page!Next
  <2>1. ASSUME NEW row, NEW to, Page!OtherUser(row, to)
        PROVE  PageInv'
    BY <2>1, PageOthers DEF Page!OtherUser
  <2>2. ASSUME NEW from \in posted, NEW served \in BOOLEAN, Page!Refuse(from, served)
        PROVE  PageInv'
    BY <2>2, PageOthers DEF Page!Refuse
  <2> QED BY <1>2, <2>1, <2>2, PageFilter, PageNumber, PageSend, PageServe, PageRetry,
             PageArrive, PageFail DEF Page!Next
<1> QED BY <1>1, <1>2 DEF Next, vars

(***************************************************************************)
(* Detail pages.                                                           *)
(***************************************************************************)

(* The two tables of every page: a button leads where the API lets it.       *)
LEMMA ButtonsLead ==
  \A s \in Detail!Screens : \A of \in DOMAIN s.offers : s.offers[of] \subseteq s.accepts[of]
<1>1. \A of \in DOMAIN Detail!KitchenOffers :
        Detail!KitchenOffers[of] \subseteq Detail!OrderTransitions[of]
  BY DEF Detail!KitchenOffers, Detail!OrderTransitions
<1>2. \A of \in DOMAIN Detail!DispatchOffers :
        Detail!DispatchOffers[of] \subseteq Detail!RideTransitions[of]
  BY DEF Detail!DispatchOffers, Detail!RideTransitions
<1>3. /\ Detail!CustomerCancels["PENDING"] = {"CANCELLED"}
      /\ Detail!CustomerCancels["ACCEPTED"] = {"CANCELLED"}
  BY DEF Detail!CustomerCancels, Detail!OrderTransitions
<1>4. /\ Detail!PassengerCancels["REQUESTED"] = {"CANCELLED"}
      /\ Detail!PassengerCancels["DRIVER_ASSIGNED"] = {"CANCELLED"}
  BY DEF Detail!PassengerCancels, Detail!RideTransitions
<1>5. /\ Detail!AdminOrder.offers = Detail!KitchenOffers
      /\ Detail!AdminOrder.accepts = Detail!OrderTransitions
      /\ Detail!AdminRide.offers = Detail!DispatchOffers
      /\ Detail!AdminRide.accepts = Detail!RideTransitions
  BY DEF Detail!AdminOrder, Detail!AdminRide
<1>6. /\ Detail!CustomerOrder.accepts = Detail!CustomerCancels
      /\ Detail!CustomerOrder.offers = [PENDING |-> {"CANCELLED"}, ACCEPTED |-> {"CANCELLED"}]
  BY DEF Detail!CustomerOrder, Detail!AdminOrder
<1>7. /\ Detail!PassengerRide.accepts = Detail!PassengerCancels
      /\ Detail!PassengerRide.offers =
           [REQUESTED |-> {"CANCELLED"}, DRIVER_ASSIGNED |-> {"CANCELLED"}]
  BY DEF Detail!PassengerRide, Detail!AdminRide
<1>8. Detail!Screens = {Detail!AdminOrder, Detail!CustomerOrder, Detail!AdminRide,
                        Detail!PassengerRide}
  BY DEF Detail!Screens, Detail!AdminGroceryOrder, Detail!PartnerOrder,
         Detail!CustomerGroceryOrder
<1>9. \A of \in DOMAIN Detail!CustomerOrder.offers :
        Detail!CustomerOrder.offers[of] \subseteq Detail!CustomerOrder.accepts[of]
  BY <1>3, <1>6
<1>10. \A of \in DOMAIN Detail!PassengerRide.offers :
        Detail!PassengerRide.offers[of] \subseteq Detail!PassengerRide.accepts[of]
  BY <1>4, <1>7
<1> QED BY <1>1, <1>2, <1>5, <1>8, <1>9, <1>10

LEMMA ScreensCancel == \A s \in Detail!Screens : "CANCELLED" \in DOMAIN s.moves
<1>1. "CANCELLED" \in DOMAIN Detail!Moves /\ "CANCELLED" \in DOMAIN Detail!RideMoves
  BY DEF Detail!Moves, Detail!OrderTransitions, Detail!RideMoves, Detail!RideTransitions
<1>2. Detail!AdminOrder.moves = Detail!Moves /\ Detail!AdminRide.moves = Detail!RideMoves
  BY DEF Detail!AdminOrder, Detail!AdminRide
<1>3. Detail!CustomerOrder.moves = Detail!Moves
  BY <1>2 DEF Detail!CustomerOrder, Detail!AdminOrder
<1>4. Detail!PassengerRide.moves = Detail!RideMoves
  BY <1>2 DEF Detail!PassengerRide, Detail!AdminRide
<1> QED BY <1>1, <1>2, <1>3, <1>4
     DEF Detail!Screens, Detail!AdminGroceryOrder, Detail!PartnerOrder,
         Detail!CustomerGroceryOrder

Request == [to : DOMAIN screen.moves, current : BOOLEAN]

(* What the page has sent, or asks about, while its status was the right one *)
(* can still be done.                                                        *)
DetailInv ==
  /\ screen \in Detail!Screens
  /\ pressed \in Seq(Request)
  /\ \A i \in 1 .. Len(pressed) : pressed[i].current => pressed[i].to \in screen.accepts[status]
  /\ dialog = "current" => "CANCELLED" \in screen.accepts[status]
  /\ ~refused

(* Once the status has moved, no request is up to date.                      *)
LEMMA OutdatedFacts ==
  ASSUME NEW s \in Seq(Request)
  PROVE  /\ Detail!Outdated(s) \in Seq(Request)
         /\ \A i \in 1 .. Len(Detail!Outdated(s)) : ~Detail!Outdated(s)[i].current
<1>1. Len(s) \in Nat /\ DOMAIN s = 1 .. Len(s) /\ \A i \in 1 .. Len(s) : s[i] \in Request
  BY LenProperties, ElementOfSeq
<1>2. \A i \in 1 .. Len(s) : /\ [s[i] EXCEPT !.current = FALSE] \in Request
                             /\ ~[s[i] EXCEPT !.current = FALSE].current
  BY <1>1 DEF Request
<1> DEFINE t == [i \in 1 .. Len(s) |-> [s[i] EXCEPT !.current = FALSE]]
<1>3. Detail!Outdated(s) = t
  BY <1>1 DEF Detail!Outdated
<1>4. t \in Seq(Request) /\ Len(t) = Len(s)
  <2>1. t \in [1 .. Len(s) -> Request]
    BY <1>2
  <2> HIDE DEF t
  <2> QED BY <1>1, <2>1, IsASeq, LenProperties, SeqDef
<1> QED BY <1>1, <1>2, <1>3, <1>4

(* A request that leads where the API lets it, if the status is what it was. *)
LEMMA DetailSubmit ==
  ASSUME DetailInv, NEW to \in DOMAIN screen.moves, NEW current \in BOOLEAN,
         current => to \in screen.accepts[status], Detail!Submit(to, current)
  PROVE  DetailInv'
<1> DEFINE r == [to |-> to, current |-> current]
<1>1. pressed' = Append(pressed, r) /\ UNCHANGED <<screen, status, dialog, refused>>
  BY DEF Detail!Submit
<1>2. r \in Request /\ r.to = to /\ r.current = current
  BY DEF Request
<1> HIDE DEF r
<1>3. /\ pressed' \in Seq(Request) /\ Len(pressed') = Len(pressed) + 1
      /\ \A i \in 1 .. Len(pressed) : pressed'[i] = pressed[i]
      /\ pressed'[Len(pressed) + 1] = r /\ Len(pressed) \in Nat
  BY <1>1, <1>2, AppendProperties, LenProperties DEF DetailInv
<1>4. \A i \in 1 .. Len(pressed') :
        pressed'[i].current => pressed'[i].to \in screen.accepts[status]
  BY <1>2, <1>3 DEF DetailInv
<1> QED BY <1>1, <1>3, <1>4 DEF DetailInv, Request

(* A button.                                                                 *)
LEMMA DetailPress ==
  ASSUME DetailInv, NEW to \in DOMAIN screen.moves, Detail!Press(to)
  PROVE  DetailInv'
<1>1. seen \in DOMAIN screen.offers /\ to \in screen.offers[seen]
  BY DEF Detail!Press, Detail!Offers
<1>2. seen = status => to \in screen.accepts[status]
  BY <1>1, ButtonsLead DEF DetailInv
<1>3. (seen = status) \in BOOLEAN /\ Detail!Submit(to, seen = status)
  BY Zenon DEF Detail!Press
<1> QED BY <1>2, <1>3, DetailSubmit

(* A button that asks first, and the answer.                                 *)
LEMMA DetailAsks ==
  ASSUME DetailInv, Detail!AskFirst \/ Detail!CloseDialog
  PROVE  DetailInv'
<1>1. UNCHANGED <<screen, status, pressed, refused>>
  BY DEF Detail!AskFirst, Detail!CloseDialog
<1>2. dialog' = "current" => "CANCELLED" \in screen.accepts[status]
  <2>1. CASE Detail!AskFirst
    <3>1. /\ seen \in DOMAIN screen.offers /\ "CANCELLED" \in screen.offers[seen]
          /\ dialog' = IF seen = status THEN "current" ELSE "outdated"
      BY <2>1 DEF Detail!AskFirst, Detail!Offers
    <3> QED BY <3>1, ButtonsLead DEF DetailInv
  <2>2. CASE Detail!CloseDialog
    BY <2>2 DEF Detail!CloseDialog
  <2> QED BY <2>1, <2>2
<1> QED BY <1>1, <1>2 DEF DetailInv, Request

LEMMA DetailConfirm ==
  ASSUME DetailInv, Detail!Confirm
  PROVE  DetailInv'
<1>1. Detail!Submit("CANCELLED", dialog = "current")
  BY DEF Detail!Confirm
<1>2. "CANCELLED" \in DOMAIN screen.moves
  BY ScreensCancel DEF DetailInv
<1>3. (dialog = "current") \in BOOLEAN
  OBVIOUS
<1>4. dialog = "current" => "CANCELLED" \in screen.accepts[status]
  BY DEF DetailInv
<1> QED BY <1>1, <1>2, <1>3, <1>4, DetailSubmit

(* The API answers.                                                          *)
LEMMA DetailDecide ==
  ASSUME DetailInv, NEW i \in DOMAIN pressed, Detail!Decide(i)
  PROVE  DetailInv'
<1>1. i \in 1 .. Len(pressed) /\ screen' = screen
  BY LenProperties DEF DetailInv, Detail!Decide
<1>2. Without(pressed, i) \in Seq(Request)
  BY <1>1, WithoutFacts DEF DetailInv
<1>3. CASE pressed[i].to \in screen.accepts[status]
  <2>1. /\ pressed' = Detail!Outdated(Without(pressed, i)) /\ refused' = refused
        /\ dialog' = "closed"
    BY <1>3, SameRemoveAt DEF Detail!Decide
  <2> QED BY <1>1, <1>2, <2>1, OutdatedFacts DEF DetailInv, Request
<1>4. CASE pressed[i].to \notin screen.accepts[status]
  <2>1. /\ pressed' = Without(pressed, i) /\ UNCHANGED <<status, dialog>>
        /\ refused' = (refused \/ pressed[i].current)
    BY <1>4, SameRemoveAt DEF Detail!Decide
  <2>2. ~refused'
    BY <1>1, <1>4, <2>1 DEF DetailInv
  <2>3. ASSUME NEW j \in 1 .. Len(pressed')
        PROVE  pressed'[j].current => pressed'[j].to \in screen.accepts[status]
    <3>1. PICK k \in 1 .. Len(pressed) : pressed'[j] = pressed[k]
      BY <1>1, <2>1, WithoutElements DEF DetailInv
    <3> QED BY <3>1 DEF DetailInv
  <2> QED BY <1>1, <1>2, <2>1, <2>2, <2>3 DEF DetailInv, Request
<1> QED BY <1>3, <1>4

(* The row moves by itself, or the page loads.                               *)
LEMMA DetailMove ==
  ASSUME DetailInv, NEW to, Detail!Move(to)
  PROVE  DetailInv'
<1>1. /\ pressed' = Detail!Outdated(pressed) /\ UNCHANGED <<screen, refused>>
      /\ dialog' # "current"
  BY DEF Detail!Move, Detail!LeaveDialog
<1> QED BY <1>1, OutdatedFacts DEF DetailInv, Request

LEMMA DetailLoads ==
  ASSUME DetailInv, UNCHANGED <<screen, status, dialog, pressed, refused>>
  PROVE  DetailInv'
BY DEF DetailInv, Request

LEMMA DetailStarts == Detail!Init => DetailInv
<1> SUFFICES ASSUME Detail!Init PROVE DetailInv
  OBVIOUS
<1>1. /\ screen \in Detail!Screens /\ pressed = <<>> /\ refused = FALSE
      /\ dialog = "closed"
  BY DEF Detail!Init
<1>2. <<>> \in Seq(Request) /\ Len(<<>>) = 0
  BY EmptySeq
<1> QED BY <1>1, <1>2 DEF DetailInv

LEMMA DetailKept ==
  ASSUME DetailInv, [Next]_vars
  PROVE  DetailInv'
<1>1. CASE UNCHANGED detailVars
  BY <1>1, DetailLoads DEF detailVars
<1>2. CASE Detail!Next
  <2>1. ASSUME NEW i, Detail!Reply(i) \/ Detail!Lose(i) \/ Detail!Reload
        PROVE  DetailInv'
    BY <2>1, DetailLoads DEF Detail!Reply, Detail!Lose, Detail!Reload
  <2> QED BY <1>2, <2>1, DetailPress, DetailAsks, DetailConfirm, DetailDecide, DetailMove
         DEF Detail!Next
<1> QED BY <1>1, <1>2 DEF Next, vars

(* A page that is done loading shows the filter and the page its user has    *)
(* chosen, after the user's own last change, unless the answer on the screen *)
(* was overtaken by the answer to a later question or by the user; no button *)
(* of a detail page is refused unless the order has moved since the page     *)
(* showed its status.                                                        *)
THEOREM ScreensStaySound == Spec => []ScreensSound
<1>1. Init => PageInv /\ DetailInv
  BY PageStarts, DetailStarts DEF Init
<1>2. PageInv /\ DetailInv /\ [Next]_vars => (PageInv /\ DetailInv)'
  BY PageKept, DetailKept
<1>3. PageInv => Page!ShowsChoice
  BY DEF PageInv, LastFits, Fits, FitsTo, Page!ShowsChoice, Page!Quiet, Page!Loaded
<1>4. PageInv /\ DetailInv => ScreensSound
  BY <1>3 DEF ScreensSound, DetailInv, Detail!OffersAccepted
<1> QED BY <1>1, <1>2, <1>4, PTL DEF Spec

(***************************************************************************)
(* Checkouts.                                                              *)
(***************************************************************************)

Desks   == {"food", "grocery", "cab"}
Terms   == [price : Nat, fee : Nat, rate : Nat, place : Nat]
Baskets == [price : Nat, count : Nat, place : Nat]
Tickets == [code : Shop!Codes, amount : Nat]
Bases   == (Nat \X Nat) \cup (Nat \X Nat \X Nat)
Asks    == [what : Baskets, code : Shop!Codes, shown : Nat, late : BOOLEAN, basis : Bases,
            heard : BOOLEAN, done : BOOLEAN]
Bills   == [charged : Nat, shown : Nat, excused : BOOLEAN]

(* Sums of money are natural numbers.                                        *)
LEMMA DiscountNat ==
  ASSUME NEW ticket \in Shop!Codes, NEW amount \in Nat
  PROVE  Shop!Discount(ticket, amount) \in Nat
<1>1. amount \div 2 \in Nat
  OBVIOUS
<1> QED BY <1>1, Zenon DEF Shop!Discount, Shop!Codes

LEMMA AmountNat ==
  ASSUME NEW by \in Terms, NEW what \in Baskets
  PROVE  Shop!Amount(by, what) \in Nat
<1>1. by.price \in Nat /\ by.place \in Nat /\ what.price \in Nat /\ what.count \in Nat
  BY DEF Terms, Baskets
<1>2. by.price * by.place \in Nat /\ what.price * what.count \in Nat
  BY <1>1
<1> QED BY <1>2 DEF Shop!Amount, Shop!Fare

LEMMA Above0Nat ==
  ASSUME NEW a \in Nat, NEW b \in Nat
  PROVE  Shop!Above0(a, b) \in Nat
BY DEF Shop!Above0

LEMMA TotalNat ==
  ASSUME desk \in Desks, NEW by \in Terms, NEW what \in Baskets, NEW off \in Nat
  PROVE  Shop!Total(by, what, off) \in Nat
<1> DEFINE m == Shop!Amount(by, what)
<1>1. m \in Nat /\ by.fee \in Nat /\ by.rate \in Nat
  BY AmountNat DEF Terms
<1> HIDE DEF m
<1>2. by.rate * m \in Nat
  BY <1>1
<1>3. CASE desk = "food"
  <2>1. m + by.fee + by.rate * m \in Nat
    BY <1>1, <1>2
  <2> QED BY <1>3, <2>1, Above0Nat DEF Shop!Total, Shop!FoodTotal, m
<1>4. CASE desk = "grocery"
  <2>1. m + (IF m >= Shop!FreeFrom THEN 0 ELSE by.fee) + by.rate * m \in Nat
    BY <1>1, <1>2
  <2> QED BY <1>4, <2>1, Above0Nat DEF Shop!Total, Shop!GroceryTotal, m
<1>5. CASE desk = "cab"
  BY <1>1, <1>5, Above0Nat DEF Shop!Total, m
<1> QED BY <1>3, <1>4, <1>5 DEF Desks

LEMMA BasisTyped ==
  ASSUME NEW by \in Terms, NEW what \in Baskets
  PROVE  Shop!Basis(by, what) \in Bases
BY DEF Shop!Basis, Bases, Terms, Baskets

(* Two totals of the same basis are the same, and so is what a coupon takes  *)
(* off: nothing else goes into them.                                         *)
LEMMA SameBasis ==
  ASSUME desk \in Desks, NEW by, NEW to, NEW what, NEW other, what.count = other.count,
         Shop!Basis(by, what) = Shop!Basis(to, other), NEW off
  PROVE  /\ Shop!Amount(by, what) = Shop!Amount(to, other)
         /\ Shop!Total(by, what, off) = Shop!Total(to, other, off)
<1>1. CASE desk = "cab"
  <2>1. by.price = to.price /\ by.place = to.place
    BY <1>1 DEF Shop!Basis
  <2> QED BY <1>1, <2>1 DEF Shop!Amount, Shop!Fare, Shop!Total
<1>2. CASE desk # "cab"
  <2>1. by.fee = to.fee /\ by.rate = to.rate /\ what.price = other.price
    BY <1>2 DEF Shop!Basis
  <2>2. Shop!Amount(by, what) = Shop!Amount(to, other)
    BY <1>2, <2>1 DEF Shop!Amount
  <2> QED BY <1>2, <2>1, <2>2 DEF Shop!Total, Shop!FoodTotal, Shop!GroceryTotal, Desks
<1> QED BY <1>1, <1>2

(* What a request says was shown is the total of its basis with its coupon,  *)
(* unless the discount on the screen was already another's.                  *)
Honest(r) ==
  \/ r.late
  \/ \E by : /\ r.basis = Shop!Basis(by, r.what)
             /\ r.shown = Shop!Total(by, r.what,
                                     Shop!Discount(r.code, Shop!Amount(by, r.what)))

(* What the forms hold.                                                      *)
FormsTyped ==
  /\ desk \in Desks /\ stage \in {"cart", "checkout", "leaving", "done"}
  /\ late \in BOOLEAN /\ terms \in Terms /\ known \in Terms /\ asked \in Seq(Terms)
  /\ basket \in Baskets /\ saved \in Baskets
  /\ code \in Shop!Codes /\ discount \in Nat /\ applying \in Seq(Tickets)

(* The discount on the screen is that of the code and the amount beside it,  *)
(* or known to be late; where there is no form there is no discount.         *)
DiscountRight ==
  /\ ~Shop!OnForm => discount = Shop!NoDiscount /\ applying = <<>>
  /\ \/ late \/ discount = Shop!NoDiscount
     \/ discount = Shop!Discount(code, Shop!Amount(known, basket))

FormInv == FormsTyped /\ DiscountRight

(* The page waits for one answer at most, or for a mock payment, which is    *)
(* when the button is disabled; and every order beyond the first, there or   *)
(* on its way, has cost a lost answer or payment, or a press of the button   *)
(* after an order.                                                           *)
Served == \E i \in DOMAIN requests : requests[i].done
Bought == placing \/ paying # "no" \/ verifying > 0 \/ stage \in {"leaving", "done"}
OneHeard ==
  /\ \A i \in DOMAIN requests : requests[i].done => requests[i].heard
  /\ \A i, j \in DOMAIN requests : requests[i].heard /\ requests[j].heard => i = j
  /\ placing <=> (paying = "mock" \/ \E i \in DOMAIN requests : requests[i].heard)
  /\ paying # "no" => \A i \in DOMAIN requests : ~requests[i].heard
Counted == Len(orders) + Len(requests)
             <= flaws + again + (IF Bought THEN 1 ELSE 0) + (IF Served THEN 1 ELSE 0)

(* Where there is what to pay with.                                          *)
PaysRight ==
  /\ paying \in {"no", "sheet", "mock"} /\ verifying \in Nat
  /\ paying = "mock" => verifying = 0
  /\ stage = "leaving" => desk = "cab"
  /\ desk = "cab" => paying = "no" /\ verifying = 0

AllHonest == \A i \in DOMAIN requests : Honest(requests[i])

DealInv ==
  /\ requests \in Seq(Asks) /\ orders \in Seq(Bills) /\ flaws \in Nat /\ again \in Nat
  /\ placing \in BOOLEAN /\ PaysRight
  /\ AllHonest
  /\ \A i \in DOMAIN orders : orders[i].excused \/ orders[i].charged = orders[i].shown
  /\ OneHeard /\ Counted

ShopInv == FormInv /\ DealInv

(* What a request has shown does not change.                                 *)
LEMMA HonestStays ==
  ASSUME desk' = desk, \A i \in DOMAIN requests' : Honest(requests'[i])
  PROVE  AllHonest'
BY Zenon DEF AllHonest, Honest, Shop!Basis, Shop!Total, Shop!Amount

(* A step of the forms leaves the orders alone.                              *)
LEMMA DealStays ==
  ASSUME DealInv, UNCHANGED <<desk, placing, requests, paying, verifying, orders, again, flaws>>,
         \/ stage' = stage
         \/ stage \notin {"leaving", "done"} /\ stage' \notin {"leaving", "done"}
  PROVE  DealInv'
<1>1. AllHonest'
  BY HonestStays DEF DealInv, AllHonest
<1>2. Served' <=> Served
  BY DEF Served
<1>3. Bought' <=> Bought
  BY DEF Bought
<1>4. Counted'
  BY <1>2, <1>3 DEF DealInv, Counted
<1>5. OneHeard'
  BY DEF DealInv, OneHeard
<1>6. PaysRight'
  BY DEF DealInv, PaysRight
<1> QED BY <1>1, <1>4, <1>5, <1>6 DEF DealInv, Asks, Baskets, Bases, Bills

(* A step of the deal leaves the forms alone.                                *)
LEMMA FormsStay ==
  ASSUME FormInv,
         UNCHANGED <<desk, terms, known, asked, code, discount, applying, late, basket, saved>>,
         stage' = stage \/ stage' = "leaving"
  PROVE  FormInv'
<1>1. Shop!Amount(known, basket)' = Shop!Amount(known, basket)
  BY DEF Shop!Amount
<1> QED BY <1>1 DEF FormInv, FormsTyped, DiscountRight, Shop!OnForm, Terms, Baskets, Tickets

(* The discount is gone from the screen, or has become late.                 *)
LEMMA NoDiscountLeft ==
  ASSUME FormsTyped', late' \/ discount' = Shop!NoDiscount,
         stage' \in {"cart", "done"} => discount' = Shop!NoDiscount /\ applying' = <<>>
  PROVE  FormInv'
BY DEF FormInv, DiscountRight, FormsTyped, Shop!OnForm, Shop!NoDiscount

LEMMA ConstantsTyped ==
  /\ Shop!Nothing \in Baskets /\ Shop!Assumed \in Terms /\ "" \in Shop!Codes
  /\ Shop!NoDiscount \in Nat
  /\ <<>> \in Seq(Terms) /\ <<>> \in Seq(Tickets) /\ <<>> \in Seq(Asks) /\ <<>> \in Seq(Bills)
BY EmptySeq DEF Shop!Nothing, Baskets, Shop!Assumed, Terms, Shop!Codes, Shop!NoDiscount

(* The carts: there is no discount yet.                                      *)
LEMMA FormCart ==
  ASSUME FormInv, Shop!AddItem \/ Shop!RemoveItem
  PROVE  FormInv'
<1>1. /\ stage = "cart" /\ discount = Shop!NoDiscount /\ applying = <<>> /\ FormsTyped
      /\ UNCHANGED <<desk, terms, stage, known, asked, code, discount, applying, late>>
  BY DEF FormInv, DiscountRight, Shop!OnForm, Shop!AddItem, Shop!RemoveItem, Shop!shop, Shop!form
<1>2. /\ basket.price \in Nat /\ basket.count \in Nat /\ basket \in Baskets
      /\ terms.price \in Nat
  BY <1>1 DEF FormsTyped, Baskets, Terms
<1>3. basket' \in Baskets /\ saved' = basket'
  <2>1. CASE Shop!AddItem
    <3> DEFINE price == IF basket.count = 0 THEN terms.price ELSE basket.price
    <3>1. basket' = [basket EXCEPT !.count = basket.count + 1, !.price = price] /\ saved' = basket'
      BY <2>1 DEF Shop!AddItem, Shop!Keep
    <3>2. price \in Nat /\ basket.count + 1 \in Nat
      BY <1>2
    <3> HIDE DEF price
    <3> QED BY <1>2, <3>1, <3>2 DEF Baskets
  <2>2. CASE Shop!RemoveItem /\ basket.count = 1
    BY <2>2, ConstantsTyped, Zenon DEF Shop!RemoveItem, Shop!Keep
  <2>3. CASE Shop!RemoveItem /\ basket.count # 1
    <3>1. /\ basket' = [basket EXCEPT !.count = basket.count - 1] /\ saved' = basket'
          /\ basket.count > 0
      BY <2>3 DEF Shop!RemoveItem, Shop!Keep
    <3>2. basket.count - 1 \in Nat
      BY <1>2, <3>1
    <3> QED BY <1>2, <3>1, <3>2 DEF Baskets
  <2> QED BY <2>1, <2>2, <2>3
<1>4. FormsTyped'
  BY <1>1, <1>3 DEF FormsTyped, Terms, Baskets, Tickets
<1> QED BY <1>1, <1>4, NoDiscountLeft

(* A form that opens, or is gone, is empty.                                  *)
LEMMA FormFresh ==
  ASSUME FormInv, Shop!FreshForm, UNCHANGED <<desk, terms>>,
         stage' \in {"cart", "checkout", "leaving", "done"}, basket' \in Baskets, saved' \in Baskets
  PROVE  FormInv'
<1>1. /\ known' = Shop!Assumed /\ asked' = <<>> /\ late' = FALSE
      /\ code' = "" /\ discount' = Shop!NoDiscount /\ applying' = <<>>
  BY Zenon DEF Shop!FreshForm
<1>2. FormsTyped'
  BY <1>1, ConstantsTyped, Zenon DEF FormInv, FormsTyped, Terms
<1> QED BY <1>1, <1>2, NoDiscountLeft, Zenon

LEMMA FormClears ==
  ASSUME FormInv, Shop!ClearCart, UNCHANGED <<desk, terms>>
  PROVE  FormInv'
<1>1. basket' = Shop!Nothing /\ saved' = Shop!Nothing /\ stage' = "done" /\ Shop!FreshForm
  BY DEF Shop!ClearCart, Shop!Keep
<1>2. basket' \in Baskets /\ saved' \in Baskets
  BY <1>1, ConstantsTyped, Zenon
<1> QED BY <1>1, <1>2, FormFresh

(* The checkout opens, and pages are left.                                   *)
LEMMA FormOpens ==
  ASSUME FormInv, Shop!GoToCheckout \/ Shop!Navigate \/ Shop!VerifyFails \/ Shop!Reload
  PROVE  FormInv'
<1>1. /\ UNCHANGED <<desk, terms, saved>> /\ basket' \in {basket, saved} /\ Shop!FreshForm
      /\ stage' \in {"cart", "checkout", "leaving", "done"}
  BY Zenon DEF Shop!GoToCheckout, Shop!Navigate, Shop!VerifyFails, Shop!Reload, Shop!FirstStage,
               Shop!shop, Shop!trip
<1>2. basket' \in Baskets /\ saved' \in Baskets
  BY <1>1 DEF FormInv, FormsTyped
<1> QED BY <1>1, <1>2, FormFresh

(* The office changes a price, or a page of the shops learns of it: a coupon *)
(* is worked out on the cart's own prices.                                   *)
LEMMA FormTerms ==
  ASSUME FormInv, Shop!TermsChange \/ Shop!SettingsArrive
  PROVE  FormInv'
<1>1. /\ UNCHANGED <<desk, basket, saved, stage, asked, code, discount, applying, late>>
      /\ FormsTyped /\ (desk = "cab" => known' = known)
  BY DEF FormInv, Shop!TermsChange, Shop!SettingsArrive, Shop!trip, Shop!form, Shop!shop
<1>2. Shop!Amount(known, basket)' = Shop!Amount(known, basket)
  BY <1>1 DEF Shop!Amount
<1>3. terms' \in Terms /\ known' \in Terms
  BY <1>1 DEF FormsTyped, Terms, Shop!TermsChange, Shop!SettingsArrive, Shop!form, Shop!shop
<1>4. FormsTyped'
  BY <1>1, <1>3 DEF FormsTyped, Terms, Baskets, Tickets
<1> QED BY <1>1, <1>2, <1>4 DEF FormInv, DiscountRight, Shop!OnForm

(* Another place, or a fare: the discount, if there is one, becomes late.    *)
LEMMA FormPlace ==
  ASSUME FormInv, NEW place \in 1 .. 2, Shop!ChoosePlace(place)
  PROVE  FormInv'
<1>1. /\ UNCHANGED <<desk, terms, saved, stage, known, code, discount, applying>> /\ FormsTyped
      /\ basket' = [basket EXCEPT !.place = place] /\ stage \notin {"cart", "done"}
      /\ asked' = Append(asked, Shop!Current(basket')) /\ place \in Nat
      /\ late' = (late \/ discount # Shop!NoDiscount)
  BY DEF FormInv, Shop!ChoosePlace, Shop!OnForm, Shop!shop
<1>2. basket' \in Baskets /\ basket'.place = place
  BY <1>1 DEF FormsTyped, Baskets
<1>3. Shop!Current(basket') \in Terms
  BY <1>1, <1>2 DEF FormsTyped, Terms, Shop!Current
<1>4. asked' \in Seq(Terms)
  BY <1>1, <1>3, AppendProperties DEF FormsTyped
<1>5. late' \in BOOLEAN
  BY <1>1, Zenon
<1>6. FormsTyped'
  BY <1>1, <1>2, <1>4, <1>5 DEF FormsTyped, Terms, Baskets, Tickets
<1> QED BY <1>1, <1>6, NoDiscountLeft

LEMMA FormEstimate ==
  ASSUME FormInv, NEW i \in DOMAIN asked, Shop!EstimateArrives(i)
  PROVE  FormInv'
<1>1. /\ UNCHANGED <<desk, terms, basket, saved, stage, code, discount, applying>> /\ FormsTyped
      /\ asked' = Without(asked, i) /\ known' = asked[i]
      /\ late' = (late \/ discount # Shop!NoDiscount)
  BY SameRemoveAt DEF FormInv, Shop!EstimateArrives, Shop!shop, Shop!trip
<1>2. asked \in Seq(Terms) /\ i \in 1 .. Len(asked)
  BY <1>1, LenProperties DEF FormsTyped
<1>3. asked' \in Seq(Terms) /\ known' \in Terms
  BY <1>1, <1>2, WithoutFacts, ElementOfSeq
<1>4. late' \in BOOLEAN
  BY <1>1
<1>5. FormsTyped'
  BY <1>1, <1>3, <1>4 DEF FormsTyped, Terms, Baskets, Tickets
<1>6. stage \in {"cart", "done"} => discount = Shop!NoDiscount /\ applying = <<>>
  BY DEF FormInv, DiscountRight, Shop!OnForm
<1> QED BY <1>1, <1>5, <1>6, NoDiscountLeft

(* The coupon field.                                                         *)
LEMMA FormCode ==
  ASSUME FormInv, NEW ticket \in Shop!Codes, Shop!TypeCode(ticket)
  PROVE  FormInv'
<1>1. /\ stage \notin {"cart", "done"}
      /\ UNCHANGED <<desk, terms, basket, saved, stage, known, asked, applying>> /\ FormsTyped
      /\ code' = ticket /\ discount' = Shop!NoDiscount /\ late' = FALSE
  BY DEF FormInv, Shop!TypeCode, Shop!OnForm, Shop!shop, Shop!trip
<1>2. FormsTyped'
  BY <1>1, ConstantsTyped, Zenon DEF FormsTyped, Terms, Baskets, Tickets
<1> QED BY <1>1, <1>2, NoDiscountLeft

LEMMA FormApply ==
  ASSUME FormInv, Shop!ApplyCoupon
  PROVE  FormInv'
<1> DEFINE t == [code |-> code, amount |-> Shop!Amount(known, basket)]
<1>1. /\ UNCHANGED <<desk, terms, basket, saved, stage, known, asked, code, discount, late>>
      /\ FormsTyped /\ applying' = Append(applying, t) /\ Shop!OnForm
  BY Zenon DEF FormInv, Shop!ApplyCoupon, Shop!shop, Shop!trip
<1>2. t \in Tickets
  BY <1>1, AmountNat DEF FormsTyped, Tickets
<1> HIDE DEF t
<1>3. applying' \in Seq(Tickets)
  BY <1>1, <1>2, AppendProperties DEF FormsTyped
<1>4. FormsTyped'
  BY <1>1, <1>3 DEF FormsTyped, Terms, Baskets, Tickets
<1>5. Shop!Amount(known, basket)' = Shop!Amount(known, basket)
  BY <1>1 DEF Shop!Amount
<1> QED BY <1>1, <1>4, <1>5 DEF FormInv, DiscountRight, Shop!OnForm

(* An answer is for the code and the amount on the screen, or late.          *)
LEMMA FormAnswer ==
  ASSUME FormInv, NEW i \in DOMAIN applying, NEW valid \in BOOLEAN, Shop!CouponAnswer(i, valid)
  PROVE  FormInv'
<1>1. Shop!OnForm
  <2>1. applying \in Seq(Tickets) /\ i \in 1 .. Len(applying)
    BY LenProperties DEF FormInv, FormsTyped
  <2>2. applying # <<>>
    BY <2>1, EmptySeq
  <2> QED BY <2>2 DEF FormInv, DiscountRight
<1>2. /\ UNCHANGED <<desk, terms, basket, saved, stage, known, asked, code>> /\ FormsTyped
      /\ applying' = Without(applying, i)
      /\ discount' = IF valid THEN Shop!Discount(applying[i].code, applying[i].amount)
                              ELSE Shop!NoDiscount
      /\ late' = (valid /\ applying[i] # [code |-> code, amount |-> Shop!Amount(known, basket)])
  BY SameRemoveAt DEF FormInv, Shop!CouponAnswer, Shop!shop, Shop!trip
<1>3. applying \in Seq(Tickets) /\ i \in 1 .. Len(applying)
  BY <1>2, LenProperties DEF FormsTyped
<1>4. applying' \in Seq(Tickets) /\ applying[i] \in Tickets
  BY <1>2, <1>3, WithoutFacts, ElementOfSeq
<1>5. late' \in BOOLEAN /\ discount' \in Nat
  <2>1. applying[i].code \in Shop!Codes /\ applying[i].amount \in Nat
    BY <1>4 DEF Tickets
  <2>2. discount' \in Nat
    BY <1>2, <2>1, DiscountNat, ConstantsTyped, Zenon
  <2> QED BY <1>2, <2>2
<1>6. FormsTyped'
  BY <1>2, <1>4, <1>5 DEF FormsTyped, Terms, Baskets, Tickets
<1>7. CASE valid /\ ~late'
  <2>1. applying[i] = [code |-> code, amount |-> Shop!Amount(known, basket)]
    BY <1>2, <1>7
  <2>2. discount' = Shop!Discount(code, Shop!Amount(known, basket))
    BY <1>2, <1>7, <2>1
  <2>3. Shop!Amount(known, basket)' = Shop!Amount(known, basket)
    BY <1>2 DEF Shop!Amount
  <2> QED BY <1>1, <1>2, <1>6, <2>2, <2>3 DEF FormInv, DiscountRight, Shop!OnForm
<1>8. CASE ~(valid /\ ~late')
  BY <1>1, <1>2, <1>6, <1>8, NoDiscountLeft DEF Shop!OnForm
<1> QED BY <1>7, <1>8

(* A request says what the button says, and asks for the coupon whose        *)
(* discount the button has taken off.                                        *)
LEMMA RequestHonest ==
  ASSUME FormInv
  PROVE  /\ Shop!Request \in Asks /\ Shop!Request.heard /\ ~Shop!Request.done
         /\ Honest(Shop!Request)
<1> DEFINE r == Shop!Request
<1>1. FormsTyped /\ desk \in Desks /\ known \in Terms /\ basket \in Baskets
      /\ late \in BOOLEAN /\ discount \in Nat /\ code \in Shop!Codes
  BY DEF FormInv, FormsTyped
<1>2. Shop!SentCode \in Shop!Codes
  BY <1>1, ConstantsTyped, Zenon DEF Shop!SentCode
<1>3. Shop!Shown \in Nat
  <2>1. Shop!Off \in Nat
    BY <1>1 DEF Shop!Off
  <2> QED BY <1>1, <2>1, TotalNat DEF Shop!Shown
<1>4. Shop!Basis(known, basket) \in Bases
  BY <1>1, BasisTyped
<1>5. r = [what |-> basket, code |-> Shop!SentCode, shown |-> Shop!Shown, late |-> late,
           basis |-> Shop!Basis(known, basket), heard |-> TRUE, done |-> FALSE]
  BY DEF Shop!Request
<1> HIDE DEF r
<1>6. r \in Asks /\ r.heard /\ ~r.done
  BY <1>1, <1>2, <1>3, <1>4, <1>5 DEF Asks
<1>7. /\ r.what = basket /\ r.code = Shop!SentCode /\ r.shown = Shop!Shown
      /\ r.basis = Shop!Basis(known, basket)
  BY <1>5
<1>8. r.late \/ ~late
  BY <1>1, <1>5
<1>9. ASSUME ~late PROVE Honest(r)
  <2> DEFINE amount == Shop!Amount(known, basket)
  <2>1. discount = Shop!NoDiscount \/ discount = Shop!Discount(code, amount)
    BY <1>9 DEF FormInv, DiscountRight
  <2> HIDE DEF amount
  <2>2. Shop!Off = Shop!Discount(Shop!SentCode, amount)
    BY <1>1, <2>1, Zenon DEF Shop!Off, Shop!SentCode, Shop!Discount, Shop!NoDiscount, Shop!Codes
  <2>3. r.shown = Shop!Total(known, r.what,
                             Shop!Discount(r.code, Shop!Amount(known, r.what)))
    BY <1>7, <2>2 DEF Shop!Shown, amount
  <2> QED BY <1>7, <2>3 DEF Honest
<1>10. Honest(r)
  BY <1>8, <1>9 DEF Honest
<1> QED BY <1>6, <1>10 DEF r

(* The API charges what was shown, if it goes by the same prices.            *)
LEMMA BillRight ==
  ASSUME desk \in Desks, terms \in Terms, NEW r \in Asks, Honest(r),
         NEW by, by = Shop!Current(r.what), NEW what, what = Shop!Repriced(r.what),
         NEW off, off = Shop!Discount(r.code, Shop!Amount(by, what))
  PROVE  /\ Shop!Total(by, what, off) \in Nat
         /\ r.late \/ r.basis # Shop!Basis(by, what) \/ Shop!Total(by, what, off) = r.shown
<1>1. r.what \in Baskets /\ r.code \in Shop!Codes
  BY DEF Asks
<1>2. what \in Baskets /\ what.count = r.what.count /\ by \in Terms
  BY <1>1 DEF Shop!Repriced, Shop!Current, Baskets, Terms
<1>3. off \in Nat
  BY <1>1, <1>2, AmountNat, DiscountNat
<1>4. Shop!Total(by, what, off) \in Nat
  BY <1>2, <1>3, TotalNat
<1>5. CASE ~r.late /\ r.basis = Shop!Basis(by, what)
  <2>1. PICK b : /\ r.basis = Shop!Basis(b, r.what)
                 /\ r.shown = Shop!Total(b, r.what,
                                         Shop!Discount(r.code, Shop!Amount(b, r.what)))
    BY <1>5 DEF Honest
  <2>2. Shop!Basis(b, r.what) = Shop!Basis(by, what)
    BY <1>5, <2>1
  <2>3. Shop!Amount(b, r.what) = Shop!Amount(by, what)
    BY <1>2, <2>2, SameBasis
  <2>4. Shop!Total(b, r.what, off) = Shop!Total(by, what, off)
    BY <1>2, <2>2, SameBasis
  <2> QED BY <1>4, <2>1, <2>3, <2>4
<1> QED BY <1>4, <1>5

(* The button.                                                               *)
LEMMA DealPlace ==
  ASSUME FormInv, DealInv, Shop!Place
  PROVE  DealInv'
<1> DEFINE r == Shop!Request
<1>1. /\ Shop!OnForm /\ ~placing /\ paying # "sheet" /\ requests' = Append(requests, r)
      /\ placing' = TRUE /\ UNCHANGED <<desk, stage, paying, verifying, orders, flaws>>
      /\ again' = IF stage = "leaving" \/ verifying > 0 THEN again + 1 ELSE again
  BY Zenon DEF Shop!Place, Shop!shop
<1>2. r \in Asks /\ r.heard /\ ~r.done /\ Honest(r)
  BY RequestHonest
<1> HIDE DEF r
<1>3. /\ requests \in Seq(Asks) /\ orders \in Seq(Bills) /\ flaws \in Nat /\ again \in Nat
      /\ Len(requests) \in Nat /\ Len(orders) \in Nat /\ DOMAIN requests = 1 .. Len(requests)
  BY LenProperties DEF DealInv
<1>4. /\ requests' \in Seq(Asks) /\ Len(requests') = Len(requests) + 1
      /\ DOMAIN requests' = 1 .. Len(requests) + 1
      /\ requests'[Len(requests) + 1] = r
      /\ \A i \in 1 .. Len(requests) : requests'[i] = requests[i]
  BY <1>1, <1>2, <1>3, AppendProperties, LenProperties
<1>5. /\ \A i \in 1 .. Len(requests) : ~requests[i].heard /\ ~requests[i].done
      /\ paying = "no" /\ PaysRight
  BY <1>1, <1>3 DEF DealInv, OneHeard, PaysRight
<1>6. OneHeard'
  BY <1>1, <1>2, <1>3, <1>4, <1>5 DEF OneHeard
<1>7. /\ Bought' /\ ~Served /\ ~Served' /\ again' \in {again, again + 1}
      /\ ~Bought \/ again' = again + 1
  BY <1>1, <1>2, <1>3, <1>4, <1>5 DEF Bought, Served, Shop!OnForm, PaysRight
<1>8. Counted'
  BY <1>1, <1>3, <1>4, <1>7 DEF DealInv, Counted
<1>9. AllHonest'
  <2>1. \A i \in DOMAIN requests' : Honest(requests'[i])
    BY <1>2, <1>3, <1>4 DEF DealInv, AllHonest
  <2> QED BY <1>1, <2>1, HonestStays
<1>10. /\ orders' \in Seq(Bills) /\ flaws' \in Nat /\ again' \in Nat /\ placing' \in BOOLEAN
       /\ \A i \in DOMAIN orders' : orders'[i].excused \/ orders'[i].charged = orders'[i].shown
  BY <1>1, <1>3, <1>7 DEF DealInv
<1>11. PaysRight'
  BY <1>1, <1>5 DEF PaysRight
<1> QED BY <1>4, <1>6, <1>8, <1>9, <1>10, <1>11 DEF DealInv

(* What is left of the requests, of which each was there before.             *)
LEMMA LessRequests ==
  ASSUME DealInv, NEW i \in DOMAIN requests
  PROVE  /\ Without(requests, i) \in Seq(Asks) /\ Len(requests) \in Nat
         /\ Len(Without(requests, i)) = Len(requests) - 1
         /\ \A j \in DOMAIN Without(requests, i) :
              \E k \in DOMAIN requests : k # i /\ Without(requests, i)[j] = requests[k]
         /\ \A k \in DOMAIN requests : k # i =>
              \E j \in DOMAIN Without(requests, i) : Without(requests, i)[j] = requests[k]
<1> DEFINE s == Without(requests, i)
<1>1. /\ requests \in Seq(Asks) /\ i \in 1 .. Len(requests) /\ Len(requests) \in Nat
      /\ DOMAIN requests = 1 .. Len(requests)
  <2>1. requests \in Seq(Asks)
    BY DEF DealInv
  <2> QED BY <2>1, LenProperties
<1>2. /\ s \in Seq(Asks) /\ Len(s) = Len(requests) - 1
      /\ \A j \in 1 .. Len(requests) - 1 :
           s[j] = IF j < i THEN requests[j] ELSE requests[j + 1]
  BY <1>1, WithoutFacts, Zenon
<1>3. \A j \in 1 .. Len(s) : \E k \in 1 .. Len(requests) : k # i /\ s[j] = requests[k]
  BY <1>1, WithoutElements
<1> HIDE DEF s
<1>4. DOMAIN s = 1 .. Len(requests) - 1
  BY <1>2, LenProperties
<1>5. ASSUME NEW k \in 1 .. Len(requests), k # i
      PROVE  \E j \in 1 .. Len(requests) - 1 : s[j] = requests[k]
  <2>1. CASE k < i
    <3>1. k \in 1 .. Len(requests) - 1 /\ s[k] = requests[k]
      BY <1>1, <1>2, <2>1
    <3> QED BY <3>1
  <2>2. CASE ~(k < i)
    <3>1. k - 1 \in 1 .. Len(requests) - 1 /\ ~(k - 1 < i) /\ (k - 1) + 1 = k
      BY <1>1, <1>5, <2>2
    <3>2. s[k - 1] = requests[k]
      BY <1>2, <3>1
    <3> QED BY <3>1, <3>2
  <2> QED BY <2>1, <2>2
<1>6. s \in Seq(Asks) /\ Len(requests) \in Nat /\ Len(s) = Len(requests) - 1
  BY <1>1, <1>2
<1>7. \A j \in DOMAIN s : \E k \in DOMAIN requests : k # i /\ s[j] = requests[k]
  BY <1>1, <1>2, <1>3, <1>4
<1>8. \A k \in DOMAIN requests : k # i => \E j \in DOMAIN s : s[j] = requests[k]
  BY <1>1, <1>4, <1>5
<1> QED BY <1>6, <1>7, <1>8 DEF s

(* A request is marked.                                                      *)
LEMMA MarkedRequests ==
  ASSUME DealInv, NEW i \in DOMAIN requests, NEW r \in Asks
  PROVE  /\ [requests EXCEPT ![i] = r] \in Seq(Asks)
         /\ Len([requests EXCEPT ![i] = r]) = Len(requests)
         /\ DOMAIN [requests EXCEPT ![i] = r] = DOMAIN requests
         /\ \A j \in DOMAIN requests :
              [requests EXCEPT ![i] = r][j] = IF j = i THEN r ELSE requests[j]
<1>1. requests \in Seq(Asks) /\ i \in 1 .. Len(requests)
  BY LenProperties DEF DealInv
<1> QED BY <1>1, ExceptSeq, LenProperties

(* The answer nobody waits for any more: no request is heard, and one that   *)
(* has been served is forgotten.                                             *)
LEMMA UnheardFacts ==
  ASSUME DealInv, NEW i \in DOMAIN requests, requests[i].heard, NEW u, u = Shop!Unheard(i)
  PROVE  /\ u \in Seq(Asks)
         /\ \A j \in DOMAIN u : ~u[j].heard /\ ~u[j].done /\ Honest(u[j])
         /\ Len(u) + (IF Served THEN 1 ELSE 0) = Len(requests)
<1>1. \A j \in DOMAIN requests : j # i => ~requests[j].heard /\ ~requests[j].done
  BY DEF DealInv, OneHeard
<1>2. CASE requests[i].done
  <2>1. u = Without(requests, i) /\ Served
    BY <1>2, SameRemoveAt DEF Shop!Unheard, Served
  <2>2. ASSUME NEW j \in DOMAIN u
        PROVE  ~u[j].heard /\ ~u[j].done /\ Honest(u[j])
    <3>1. PICK k \in DOMAIN requests : k # i /\ u[j] = requests[k]
      BY <2>1, LessRequests
    <3> QED BY <1>1, <3>1 DEF DealInv, AllHonest
  <2> QED BY <2>1, <2>2, LessRequests
<1>3. CASE ~requests[i].done
  <2> DEFINE r == [requests[i] EXCEPT !.heard = FALSE]
  <2>1. u = [requests EXCEPT ![i] = r] /\ ~Served
    BY <1>1, <1>3 DEF Shop!Unheard, Served
  <2>2. requests[i] \in Asks /\ Honest(requests[i]) /\ Len(requests) \in Nat
    BY ElementOfSeq, LenProperties DEF DealInv, AllHonest
  <2>3. /\ r \in Asks /\ ~r.heard /\ r.done = requests[i].done /\ r.late = requests[i].late
        /\ r.basis = requests[i].basis /\ r.what = requests[i].what
        /\ r.shown = requests[i].shown /\ r.code = requests[i].code
    BY <2>2 DEF Asks
  <2>4. Honest(r)
    BY <2>2, <2>3 DEF Honest
  <2> HIDE DEF r
  <2>5. /\ u \in Seq(Asks) /\ Len(u) = Len(requests) /\ DOMAIN u = DOMAIN requests
        /\ \A j \in DOMAIN requests : u[j] = IF j = i THEN r ELSE requests[j]
    BY <2>1, <2>3, MarkedRequests
  <2>6. ASSUME NEW j \in DOMAIN u
        PROVE  ~u[j].heard /\ ~u[j].done /\ Honest(u[j])
    <3>1. CASE j = i
      BY <1>3, <2>3, <2>4, <2>5, <3>1
    <3>2. CASE j # i
      BY <1>1, <2>5, <3>2 DEF DealInv, AllHonest
    <3> QED BY <3>1, <3>2
  <2> QED BY <2>1, <2>2, <2>5, <2>6
<1> QED BY <1>2, <1>3

(* The page no longer waits: it has its order, or what that costs is         *)
(* counted.                                                                  *)
LEMMA GivesUp ==
  ASSUME DealInv, UNCHANGED <<desk, orders, again>>, placing' = FALSE, PaysRight',
         paying' # "mock",
         \/ requests' = requests /\ \A i \in DOMAIN requests : ~requests[i].heard
         \/ \E i \in DOMAIN requests : requests[i].heard /\ requests' = Shop!Unheard(i),
         \/ flaws' = flaws /\ (Bought' \/ ~Bought)
         \/ flaws' = flaws + 1,
         paying' # "no" => paying' = paying
  PROVE  DealInv'
<1>1. /\ requests' \in Seq(Asks) /\ Len(requests) \in Nat
      /\ \A j \in DOMAIN requests' :
           ~requests'[j].heard /\ ~requests'[j].done /\ Honest(requests'[j])
      /\ Len(requests') + (IF Served THEN 1 ELSE 0) = Len(requests)
  <2>1. Len(requests) \in Nat
    BY LenProperties DEF DealInv
  <2>2. CASE requests' = requests /\ \A i \in DOMAIN requests : ~requests[i].heard
    <3>1. \A j \in DOMAIN requests : ~requests[j].done
      BY <2>2 DEF DealInv, OneHeard
    <3>2. ~Served
      BY <3>1 DEF Served
    <3>3. requests' \in Seq(Asks) /\ \A j \in DOMAIN requests : Honest(requests[j])
      BY <2>2 DEF DealInv, AllHonest
    <3> QED BY <2>1, <2>2, <3>1, <3>2, <3>3
  <2>3. ASSUME NEW i \in DOMAIN requests, requests[i].heard, requests' = Shop!Unheard(i)
        PROVE  /\ requests' \in Seq(Asks)
               /\ \A j \in DOMAIN requests' :
                    ~requests'[j].heard /\ ~requests'[j].done /\ Honest(requests'[j])
               /\ Len(requests') + (IF Served THEN 1 ELSE 0) = Len(requests)
    BY <2>3, UnheardFacts
  <2> QED BY <2>1, <2>2, <2>3
<1>2. /\ flaws \in Nat /\ again \in Nat /\ Len(requests) \in Nat /\ Len(orders) \in Nat
      /\ Len(requests') \in Nat
  BY <1>1, LenProperties DEF DealInv
<1>3. AllHonest'
  BY <1>1, HonestStays
<1>4. OneHeard' /\ ~Served'
  BY <1>1 DEF OneHeard, Served
<1>5. Counted'
  <2>1. Len(orders) + Len(requests') <= flaws + again + (IF Bought THEN 1 ELSE 0)
    BY <1>1, <1>2 DEF DealInv, Counted
  <2> QED BY <1>2, <1>4, <2>1 DEF Counted
<1>6. flaws' \in Nat /\ orders' \in Seq(Bills) /\ again' \in Nat
      /\ \A i \in DOMAIN orders' : orders'[i].excused \/ orders'[i].charged = orders'[i].shown
  BY <1>2 DEF DealInv
<1>7. placing' \in BOOLEAN
  BY Zenon
<1> QED BY <1>1, <1>3, <1>4, <1>5, <1>6, <1>7 DEF DealInv

LEMMA DealLose ==
  ASSUME DealInv, NEW i \in DOMAIN requests, Shop!Lose(i)
  PROVE  DealInv'
<1>1. /\ requests[i].heard /\ requests' = Shop!Unheard(i) /\ placing' = FALSE
      /\ flaws' = flaws + 1 /\ UNCHANGED <<desk, stage, paying, verifying, orders, again>>
  BY DEF Shop!Lose, Shop!Heard, Shop!Flaw, Shop!shop
<1>2. PaysRight' /\ paying' = "no"
  BY <1>1 DEF DealInv, OneHeard, PaysRight
<1> QED BY <1>1, <1>2, GivesUp

(* The page is left, whatever is on its way.                                 *)
LEMMA LeavesPage ==
  ASSUME Shop!LeavePage
  PROVE  /\ placing' = FALSE
         /\ \/ requests' = requests /\ \A i \in DOMAIN requests : ~requests[i].heard
            \/ \E i \in DOMAIN requests : requests[i].heard /\ requests' = Shop!Unheard(i)
<1>1. CASE Shop!Heard = {}
  BY <1>1 DEF Shop!LeavePage, Shop!Heard
<1>2. CASE Shop!Heard # {}
  BY <1>2 DEF Shop!LeavePage, Shop!Heard
<1> QED BY <1>1, <1>2

(* The next page is there, paid and verified or not.                         *)
LEMMA DealLeaves ==
  ASSUME DealInv, Shop!Navigate \/ Shop!Verified \/ Shop!VerifyFails
  PROVE  DealInv'
<1>1. /\ Shop!LeavePage /\ UNCHANGED <<desk, paying, orders, again>>
      /\ stage' \in {"done", "cart"}
      /\ \/ stage = "leaving" /\ verifying' = verifying
         \/ verifying > 0 /\ verifying' = verifying - 1
      /\ \/ stage' = "done" /\ flaws' = flaws
         \/ flaws' = flaws + 1
  BY DEF Shop!Navigate, Shop!Verified, Shop!VerifyFails, Shop!ClearCart, Shop!Flaw, Shop!shop
<1>2. PaysRight' /\ paying' # "mock"
  BY <1>1 DEF DealInv, PaysRight
<1>3. stage' = "done" => Bought'
  BY DEF Bought
<1> QED BY <1>1, <1>2, <1>3, LeavesPage, GivesUp

(* The sheet, or the mock payment, comes to its end.                         *)
LEMMA DealPays ==
  ASSUME DealInv, Shop!MockPaid \/ Shop!MockFails \/ Shop!Pay \/ Shop!CloseSheet
  PROVE  DealInv'
<1>1. /\ paying # "no" /\ paying' = "no" /\ UNCHANGED <<desk, requests, orders, again>>
      /\ \/ paying = "mock" /\ placing' = FALSE
         \/ paying = "sheet" /\ placing' = placing
      /\ stage' = stage \/ stage' = "done"
      /\ verifying' \in {verifying, verifying + 1}
      /\ \/ flaws' = flaws /\ (stage' = "done" \/ verifying' = verifying + 1)
         \/ flaws' = flaws + 1
  BY DEF Shop!MockPaid, Shop!MockFails, Shop!Pay, Shop!CloseSheet, Shop!ClearCart, Shop!Flaw,
         Shop!shop
<1>2. PaysRight' /\ verifying \in Nat
  BY <1>1 DEF DealInv, PaysRight
<1>3. placing' = FALSE /\ \A i \in DOMAIN requests : ~requests[i].heard
  BY <1>1 DEF DealInv, OneHeard
<1>4. flaws' = flaws => Bought' \/ flaws' = flaws + 1
  BY <1>1, <1>2 DEF Bought
<1> QED BY <1>1, <1>2, <1>3, <1>4, GivesUp

(* The page is loaded again, with or without an answer on its way.           *)
LEMMA DealReload ==
  ASSUME DealInv, Shop!Reload
  PROVE  DealInv'
<1>1. /\ stage # "done" /\ stage' \in {"cart", "checkout"} /\ paying' = "no" /\ verifying' = 0
      /\ Shop!LeavePage /\ UNCHANGED <<desk, orders, again>>
      /\ flaws' = IF Shop!Pending THEN flaws + 1 ELSE flaws
  BY DEF Shop!Reload, Shop!Flaw, Shop!shop, Shop!FirstStage
<1>2. PaysRight'
  BY <1>1 DEF PaysRight
<1>3. Shop!Pending \/ ~Bought
  <2> SUFFICES ASSUME ~Shop!Pending PROVE ~Bought
    OBVIOUS
  <2>1. /\ requests = <<>> /\ paying = "no" /\ verifying \in Nat /\ ~(verifying > 0)
        /\ stage # "leaving"
    BY DEF Shop!Pending, DealInv, PaysRight
  <2>2. DOMAIN requests = {}
    BY <2>1, EmptySeq, LenProperties
  <2>3. ~placing
    BY <2>1, <2>2 DEF DealInv, OneHeard
  <2> QED BY <1>1, <2>1, <2>3 DEF Bought
<1> QED BY <1>1, <1>2, <1>3, LeavesPage, GivesUp

(* A request nobody waits for goes.                                          *)
LEMMA OneHeardLess ==
  ASSUME DealInv, NEW i \in DOMAIN requests, ~requests[i].heard,
         requests' = Without(requests, i), placing' = placing, paying' = paying
  PROVE  OneHeard'
<1>1. /\ requests \in Seq(Asks) /\ i \in 1 .. Len(requests) /\ Len(requests) \in Nat
      /\ DOMAIN requests = 1 .. Len(requests)
  <2>1. requests \in Seq(Asks)
    BY DEF DealInv
  <2> QED BY <2>1, LenProperties
<1>2. /\ DOMAIN requests' = 1 .. Len(requests) - 1
      /\ \A j \in 1 .. Len(requests) - 1 :
           requests'[j] = IF j < i THEN requests[j] ELSE requests[j + 1]
  <2>1. /\ Without(requests, i) \in Seq(Asks) /\ Len(Without(requests, i)) = Len(requests) - 1
        /\ \A j \in 1 .. Len(requests) - 1 :
             Without(requests, i)[j] = IF j < i THEN requests[j] ELSE requests[j + 1]
    BY <1>1, WithoutFacts, Zenon
  <2>2. DOMAIN Without(requests, i) = 1 .. Len(Without(requests, i))
    BY <2>1, LenProperties
  <2> QED BY <2>1, <2>2, Zenon
<1> DEFINE At(j) == IF j < i THEN j ELSE j + 1
<1>3. \A j \in DOMAIN requests' : At(j) \in DOMAIN requests /\ requests'[j] = requests[At(j)]
  BY <1>1, <1>2
<1>4. \A j, k \in DOMAIN requests' : At(j) = At(k) => j = k
  BY <1>1, <1>2
<1>5. \A k \in DOMAIN requests : k # i =>
        \E j \in DOMAIN requests' : requests'[j] = requests[k]
  BY LessRequests
<1> HIDE DEF At
<1>6. \A j \in DOMAIN requests' : requests'[j].done => requests'[j].heard
  BY <1>3 DEF DealInv, OneHeard
<1>7. \A j, k \in DOMAIN requests' : requests'[j].heard /\ requests'[k].heard => j = k
  BY <1>3, <1>4 DEF DealInv, OneHeard
<1>8. (\E j \in DOMAIN requests' : requests'[j].heard)
        <=> \E k \in DOMAIN requests : requests[k].heard
  BY <1>3, <1>5
<1>9. paying # "no" => \A j \in DOMAIN requests' : ~requests'[j].heard
  BY <1>3 DEF DealInv, OneHeard
<1> QED BY <1>6, <1>7, <1>8, <1>9 DEF DealInv, OneHeard

(* The order is made: a request that is waited for is served, another is     *)
(* done with.                                                                *)
LEMMA DealServe ==
  ASSUME FormInv, DealInv, NEW i \in DOMAIN requests, Shop!Serve(i)
  PROVE  DealInv'
<1> DEFINE r == requests[i]
           by == Shop!Current(r.what)
           what == Shop!Repriced(r.what)
           off == Shop!Discount(r.code, Shop!Amount(by, what))
           bill == [charged |-> Shop!Total(by, what, off), shown |-> r.shown,
                    excused |-> r.late \/ r.basis # Shop!Basis(by, what)]
<1>1. /\ ~r.done /\ orders' = Append(orders, bill)
      /\ requests' = IF r.heard THEN [requests EXCEPT ![i].done = TRUE] ELSE Without(requests, i)
      /\ UNCHANGED <<desk, stage, placing, paying, verifying, again, flaws>>
  BY SameRemoveAt DEF Shop!Serve, Shop!shop
<1>2. r \in Asks /\ Honest(r) /\ r.shown \in Nat /\ r.late \in BOOLEAN
  <2>1. r \in Asks /\ Honest(r)
    BY ElementOfSeq, LenProperties DEF DealInv, AllHonest
  <2> HIDE DEF r
  <2> QED BY <2>1 DEF Asks
<1>3. /\ Shop!Total(by, what, off) \in Nat
      /\ r.late \/ r.basis # Shop!Basis(by, what) \/ Shop!Total(by, what, off) = r.shown
  <2>1. desk \in Desks /\ terms \in Terms
    BY DEF FormInv, FormsTyped
  <2> HIDE DEF r
  <2> QED BY <1>2, <2>1, BillRight
<1> HIDE DEF r, by, what, off
<1>4. bill \in Bills /\ (bill.excused \/ bill.charged = bill.shown)
  <2>1. (r.late \/ r.basis # Shop!Basis(by, what)) \in BOOLEAN
    OBVIOUS
  <2> QED BY <1>2, <1>3, <2>1 DEF Bills
<1> HIDE DEF bill
<1>5. /\ orders \in Seq(Bills) /\ flaws \in Nat /\ again \in Nat /\ Len(requests) \in Nat /\ Len(orders) \in Nat
      /\ DOMAIN orders = 1 .. Len(orders)
  BY LenProperties DEF DealInv
<1>6. /\ orders' \in Seq(Bills) /\ Len(orders') = Len(orders) + 1
      /\ \A j \in DOMAIN orders' : orders'[j].excused \/ orders'[j].charged = orders'[j].shown
  <2>1. /\ orders' \in Seq(Bills) /\ Len(orders') = Len(orders) + 1
        /\ \A j \in 1 .. Len(orders) : orders'[j] = orders[j]
        /\ orders'[Len(orders) + 1] = bill /\ DOMAIN orders' = 1 .. Len(orders) + 1
    BY <1>1, <1>4, <1>5, AppendProperties, LenProperties
  <2> QED BY <1>4, <1>5, <2>1 DEF DealInv
<1>7. (Bought' <=> Bought) /\ flaws' = flaws /\ again' = again /\ PaysRight'
  BY <1>1 DEF Bought, DealInv, PaysRight
<1>8. CASE r.heard
  <2> DEFINE d == [r EXCEPT !.done = TRUE]
  <2>1. requests' = [requests EXCEPT ![i] = d]
    BY <1>1, <1>8 DEF r
  <2>2. /\ d \in Asks /\ d.heard /\ d.done /\ d.late = r.late /\ d.basis = r.basis
        /\ d.what = r.what /\ d.shown = r.shown /\ d.code = r.code
    BY <1>2, <1>8 DEF Asks
  <2>3. Honest(d)
    BY <1>2, <2>2 DEF Honest
  <2> HIDE DEF d
  <2>4. /\ requests' \in Seq(Asks) /\ Len(requests') = Len(requests)
        /\ DOMAIN requests' = DOMAIN requests
        /\ \A j \in DOMAIN requests : requests'[j] = IF j = i THEN d ELSE requests[j]
    BY <2>1, <2>2, MarkedRequests
  <2>5. AllHonest'
    <3>1. \A j \in DOMAIN requests' : Honest(requests'[j])
      BY <2>3, <2>4, Zenon DEF DealInv, AllHonest
    <3> QED BY <1>1, <3>1, HonestStays
  <2>6. \A j \in DOMAIN requests : j # i => ~requests[j].heard /\ ~requests[j].done
    BY <1>8 DEF DealInv, OneHeard, r
  <2>7. placing /\ paying = "no"
    BY <1>8 DEF DealInv, OneHeard, r
  <2>8. OneHeard'
    <3>1. placing' /\ paying' = "no"
      BY <1>1, <2>7
    <3>2. \A j \in DOMAIN requests' : requests'[j].heard <=> j = i
      BY <2>2, <2>4, <2>6
    <3>3. \A j \in DOMAIN requests' : requests'[j].done => j = i
      BY <2>4, <2>6
    <3> QED BY <2>4, <3>1, <3>2, <3>3 DEF OneHeard
  <2>9. ~Served /\ Served'
    BY <1>1, <2>2, <2>4, <2>6 DEF Served, r
  <2>10. Counted'
    BY <1>5, <1>6, <1>7, <2>4, <2>9 DEF DealInv, Counted
  <2> QED BY <1>1, <1>6, <1>7, <2>4, <2>5, <2>8, <2>10 DEF DealInv
<1>9. CASE ~r.heard
  <2>1. requests' = Without(requests, i)
    BY <1>1, <1>9
  <2>2. /\ requests' \in Seq(Asks) /\ Len(requests') = Len(requests) - 1
        /\ \A j \in DOMAIN requests' :
             \E k \in DOMAIN requests : k # i /\ requests'[j] = requests[k]
        /\ \A k \in DOMAIN requests : k # i =>
             \E j \in DOMAIN requests' : requests'[j] = requests[k]
    BY <2>1, LessRequests
  <2>3. AllHonest'
    <3>1. \A j \in DOMAIN requests' : Honest(requests'[j])
      BY <2>2 DEF DealInv, AllHonest
    <3> QED BY <1>1, <3>1, HonestStays
  <2>4. ~requests[i].heard /\ ~requests[i].done
    BY <1>1, <1>9 DEF r
  <2>5. Served' <=> Served
    BY <2>2, <2>4 DEF Served
  <2>6. Counted'
    BY <1>5, <1>6, <1>7, <2>2, <2>5 DEF DealInv, Counted
  <2>7. OneHeard'
    BY <1>1, <2>1, <2>4, OneHeardLess DEF DealInv
  <2> QED BY <1>1, <1>6, <1>7, <2>2, <2>3, <2>6, <2>7 DEF DealInv
<1> QED BY <1>8, <1>9

(* A request that is waited for is refused, or its answer opens the sheet,   *)
(* pays, or ends the checkout.                                               *)
LEMMA HeardLeaves ==
  ASSUME DealInv, NEW i \in DOMAIN requests, requests[i].heard, requests' = Without(requests, i),
         UNCHANGED <<desk, orders, again, flaws>>, PaysRight',
         placing' = (paying' = "mock"),
         requests[i].done => Bought'
  PROVE  DealInv'
<1>1. /\ requests' \in Seq(Asks) /\ Len(requests') = Len(requests) - 1
      /\ \A j \in DOMAIN requests' :
           \E k \in DOMAIN requests : k # i /\ requests'[j] = requests[k]
  BY LessRequests
<1>2. \A k \in DOMAIN requests : k # i => ~requests[k].heard /\ ~requests[k].done
  BY DEF DealInv, OneHeard
<1>3. \A j \in DOMAIN requests' :
        ~requests'[j].heard /\ ~requests'[j].done /\ Honest(requests'[j])
  BY <1>1, <1>2 DEF DealInv, AllHonest
<1>4. OneHeard' /\ ~Served'
  BY <1>3 DEF OneHeard, Served
<1>5. AllHonest'
  BY <1>3, HonestStays
<1>6. flaws \in Nat /\ again \in Nat /\ Len(requests) \in Nat /\ Len(orders) \in Nat
  BY LenProperties DEF DealInv
<1>7. Counted'
  <2>1. CASE requests[i].done
    <3>1. Bought' /\ Served
      BY <2>1 DEF Served
    <3>2. Len(orders) + Len(requests) <= flaws + again + 1 + 1
      BY <1>6, <3>1 DEF DealInv, Counted
    <3> QED BY <1>1, <1>4, <1>6, <3>1, <3>2 DEF Counted
  <2>2. CASE ~requests[i].done
    <3>1. ~Served
      BY <1>2, <2>2 DEF Served
    <3>2. Len(orders) + Len(requests) <= flaws + again + 1
      BY <1>6, <3>1 DEF DealInv, Counted
    <3> QED BY <1>1, <1>4, <1>6, <3>2 DEF Counted
  <2> QED BY <2>1, <2>2
<1>8. placing' \in BOOLEAN
  BY Zenon
<1> QED BY <1>1, <1>4, <1>5, <1>6, <1>7, <1>8 DEF DealInv

LEMMA DealAnswer ==
  ASSUME DealInv, NEW i \in DOMAIN requests,
         Shop!Refuse(i) \/ \E how \in {"no", "sheet", "mock"} : Shop!Answer(i, how)
  PROVE  DealInv'
<1>1. CASE Shop!Refuse(i)
  <2>1. /\ requests[i].heard /\ ~requests[i].done /\ requests' = Without(requests, i)
        /\ placing' = FALSE
        /\ UNCHANGED <<desk, stage, paying, verifying, orders, again, flaws>>
    BY <1>1, SameRemoveAt DEF Shop!Refuse, Shop!shop
  <2>2. PaysRight' /\ paying' = "no"
    BY <2>1 DEF DealInv, OneHeard, PaysRight
  <2> QED BY <2>1, <2>2, HeardLeaves
<1>2. ASSUME NEW how \in {"no", "sheet", "mock"}, Shop!Answer(i, how)
      PROVE  DealInv'
  <2>1. /\ requests[i].heard /\ requests[i].done /\ requests' = Without(requests, i)
        /\ placing' = (how = "mock") /\ paying' = how
        /\ UNCHANGED <<desk, verifying, orders, again, flaws>>
        /\ how # "no" => desk = "food" /\ stage' = stage
        /\ how = "mock" => verifying = 0
        /\ how = "no" => stage' = IF desk = "cab" THEN "leaving" ELSE "done"
    BY <1>2, SameRemoveAt, Zenon DEF Shop!Answer, Shop!ClearCart, Shop!shop, Shop!trip
  <2>2. PaysRight' /\ Bought'
    BY <2>1 DEF DealInv, PaysRight, Bought
  <2> QED BY <2>1, <2>2, HeardLeaves
<1> QED BY <1>1, <1>2

(* A new customer.                                                           *)
LEMMA ShopStarts == Shop!Init => ShopInv
<1> SUFFICES ASSUME Shop!Init PROVE ShopInv
  OBVIOUS
<1>1. /\ desk \in Desks /\ terms = [price |-> 2, fee |-> 1, rate |-> 2, place |-> 0]
      /\ basket = Shop!Nothing /\ saved = Shop!Nothing /\ stage = Shop!FirstStage
      /\ known = Shop!Assumed /\ asked = <<>>
      /\ code = "" /\ discount = Shop!NoDiscount /\ applying = <<>> /\ late = FALSE
  BY Zenon DEF Shop!Init, Desks
<1>2. /\ placing = FALSE /\ requests = <<>> /\ paying = "no" /\ verifying = 0 /\ orders = <<>>
      /\ again = 0 /\ flaws = 0
  BY Zenon DEF Shop!Init
<1>3. /\ terms \in Terms /\ stage \in {"cart", "checkout", "leaving", "done"}
      /\ stage \notin {"leaving", "done"}
  BY <1>1, Zenon DEF Terms, Shop!FirstStage
<1>4. FormsTyped
  BY <1>1, <1>3, ConstantsTyped, Zenon DEF FormsTyped
<1>5. FormInv
  BY <1>1, <1>4, Zenon DEF FormInv, DiscountRight
<1>6. DOMAIN requests = {} /\ DOMAIN orders = {} /\ Len(requests) = 0 /\ Len(orders) = 0
  BY <1>2, EmptySeq, LenProperties
<1>7. /\ ~Served /\ AllHonest /\ OneHeard /\ Counted /\ PaysRight
      /\ flaws \in Nat /\ again \in Nat
  BY <1>2, <1>3, <1>6 DEF Served, AllHonest, OneHeard, Counted, PaysRight
<1>8. DealInv
  BY <1>2, <1>6, <1>7, ConstantsTyped, Zenon DEF DealInv
<1> QED BY <1>5, <1>8 DEF ShopInv

(* The forms after a step of the deal.                                       *)
LEMMA DealForms ==
  ASSUME FormInv,
         \/ Shop!Place \/ Shop!MockPaid \/ Shop!MockFails \/ Shop!Pay \/ Shop!Verified
         \/ Shop!CloseSheet
         \/ \E i \in DOMAIN requests :
              \/ Shop!Serve(i) \/ Shop!Refuse(i) \/ Shop!Lose(i)
              \/ \E how \in {"no", "sheet", "mock"} : Shop!Answer(i, how)
  PROVE  FormInv'
<1>1. /\ UNCHANGED <<desk, terms>>
      /\ \/ Shop!ClearCart
         \/ /\ UNCHANGED <<known, asked, code, discount, applying, late, basket, saved>>
            /\ stage' = stage \/ stage' = "leaving"
  BY DEF Shop!Place, Shop!MockPaid, Shop!MockFails, Shop!Pay, Shop!Verified, Shop!CloseSheet,
         Shop!Serve, Shop!Refuse, Shop!Lose, Shop!Answer, Shop!shop, Shop!trip, Shop!form
<1> QED BY <1>1, FormsStay, FormClears

(* A step of the forms, and the orders after it.                             *)
LEMMA FormsStep ==
  ASSUME ShopInv,
         \/ Shop!TermsChange \/ Shop!AddItem \/ Shop!RemoveItem \/ Shop!GoToCheckout
         \/ Shop!SettingsArrive \/ \E place \in 1 .. 2 : Shop!ChoosePlace(place)
         \/ \E i \in DOMAIN asked : Shop!EstimateArrives(i)
         \/ \E ticket \in Shop!Codes \ {""} : Shop!TypeCode(ticket)
         \/ Shop!ApplyCoupon
         \/ \E i \in DOMAIN applying, valid \in BOOLEAN : Shop!CouponAnswer(i, valid)
  PROVE  ShopInv'
<1>1. FormInv'
  BY FormTerms, FormCart, FormOpens, FormPlace, FormEstimate, FormCode, FormApply, FormAnswer
     DEF ShopInv
<1>2. UNCHANGED <<desk, placing, requests, paying, verifying, orders, again, flaws>>
      /\ (stage' = stage \/ (stage = "cart" /\ stage' = "checkout"))
  BY Zenon DEF Shop!TermsChange, Shop!AddItem, Shop!RemoveItem, Shop!GoToCheckout, Shop!SettingsArrive,
         Shop!ChoosePlace, Shop!EstimateArrives, Shop!TypeCode, Shop!ApplyCoupon,
         Shop!CouponAnswer, Shop!shop, Shop!deal
<1>3. DealInv'
  BY <1>2, DealStays DEF ShopInv
<1> QED BY <1>1, <1>3 DEF ShopInv

LEMMA ShopKept ==
  ASSUME ShopInv, [Next]_vars
  PROVE  ShopInv'
<1>1. CASE UNCHANGED shopVars
  <2>1. FormInv'
    BY <1>1, FormsStay DEF ShopInv, shopVars
  <2>2. DealInv'
    BY <1>1, DealStays DEF ShopInv, shopVars
  <2> QED BY <2>1, <2>2 DEF ShopInv
<1>2. CASE Shop!Next
  <2>1. CASE Shop!Reload
    BY <2>1, FormOpens, DealReload DEF ShopInv
  <2>2. CASE Shop!Place
    BY <2>2, DealForms, DealPlace DEF ShopInv
  <2>3. CASE Shop!MockPaid \/ Shop!MockFails \/ Shop!Pay \/ Shop!CloseSheet
    BY <2>3, DealForms, DealPays DEF ShopInv
  <2>4. CASE Shop!Navigate \/ Shop!Verified \/ Shop!VerifyFails
    BY <2>4, DealForms, FormOpens, DealLeaves DEF ShopInv
  <2>5. ASSUME NEW i \in DOMAIN requests,
               \/ Shop!Serve(i) \/ Shop!Refuse(i) \/ Shop!Lose(i)
               \/ \E how \in {"no", "sheet", "mock"} : Shop!Answer(i, how)
        PROVE  ShopInv'
    <3>1. FormInv'
      BY <2>5, DealForms DEF ShopInv
    <3>2. DealInv'
      BY <2>5, DealServe, DealLose, DealAnswer DEF ShopInv
    <3> QED BY <3>1, <3>2 DEF ShopInv
  <2> QED BY <1>2, <2>1, <2>2, <2>3, <2>4, <2>5, FormsStep DEF Shop!Next
<1> QED BY <1>1, <1>2 DEF Next, vars

(* A customer pays what the button said, unless prices have changed, the     *)
(* estimate is of another trip or a coupon answer came late; and orders      *)
(* once, unless an answer or a payment got lost or the button was pressed    *)
(* again after the order and before the page was left, for any baskets,      *)
(* prices and number of presses.                                             *)
THEOREM CheckoutsStaySound == Spec => []CheckoutSound
<1>1. Init => ShopInv
  BY ShopStarts DEF Init
<1>2. ShopInv /\ [Next]_vars => ShopInv'
  BY ShopKept
<1>3. ShopInv => CheckoutSound
  <2> SUFFICES ASSUME ShopInv PROVE CheckoutSound
    OBVIOUS
  <2>1. Shop!ChargedAsShown
    BY DEF ShopInv, DealInv, Shop!ChargedAsShown
  <2>2. flaws \in Nat /\ again \in Nat /\ Len(requests) \in Nat /\ Len(orders) \in Nat
    BY LenProperties DEF ShopInv, DealInv
  <2>3. Served => Len(requests) >= 1
    <3>1. DOMAIN requests = 1 .. Len(requests)
      BY LenProperties DEF ShopInv, DealInv
    <3> QED BY <2>2, <3>1 DEF Served
  <2>4. Shop!PlacedOnce
    BY <2>2, <2>3 DEF ShopInv, DealInv, Counted, Shop!PlacedOnce
  <2> QED BY <2>1, <2>4 DEF CheckoutSound, Shop!CheckoutSound
<1> QED BY <1>1, <1>2, <1>3, PTL DEF Spec

(***************************************************************************)
(* The seed script.                                                        *)
(***************************************************************************)

(* The statement the script is at has created this row and not yet written   *)
(* what belongs to it.                                                       *)
HalfDone(n) == at # "find" /\ Script!Current.row = n

(* A row is created by the one statement that has just looked for it, and    *)
(* only people end what the script has placed.                               *)
SeedInv ==
  /\ rows \in [Script!Names -> {0, 1}] /\ reviewed \in BOOLEAN /\ rated \in BOOLEAN
  /\ busy \subseteq Script!UnderWay /\ over \subseteq Script!UnderWay
  /\ step \in 0 .. 16 /\ at \in {"find", "then", "average", "rate"}
  /\ at # "find" => /\ step # 0 /\ Script!Current.how = "ensure"
                    /\ rows[Script!Current.row] = 1 /\ Script!Current.row \notin over
  /\ at \in {"average", "rate"} => Script!Current.row = "food_delivered" /\ reviewed
  /\ \A n \in Script!UnderWay : rows[n] = 0 => n \notin over /\ n \notin busy
  /\ \A n \in Script!UnderWay \ torn :
       rows[n] = 1 /\ ~HalfDone(n) => (n \in busy <=> n \notin over)
  /\ rows["food_delivered"] = 1 /\ "food_delivered" \notin torn
       /\ ~HalfDone("food_delivered") => reviewed /\ rated

(* A group has the three fields it is made of.                               *)
LEMMA GroupFields ==
  ASSUME NEW row, NEW how, NEW then
  PROVE  /\ Script!Group(row, how, then).row = row
         /\ Script!Group(row, how, then).how = how
         /\ Script!Group(row, how, then).then = then
BY DEF Script!Group

(* The rows of the plan by name.                                             *)
LEMMA GroupsRead ==
  /\ Script!Cities.row = "cities" /\ Script!Cities.how = "upsert" /\ Script!Cities.then = "nothing"
  /\ Script!People.row = "people" /\ Script!People.how = "upsert" /\ Script!People.then = "nothing"
  /\ Script!Menus.row = "menus" /\ Script!Menus.how = "find" /\ Script!Menus.then = "nothing"
  /\ Script!ClosedKitchen.row = "closed_kitchen" /\ Script!ClosedKitchen.how = "upsert"
     /\ Script!ClosedKitchen.then = "nothing"
  /\ Script!Coupons.row = "coupons" /\ Script!Coupons.how = "upsert"
     /\ Script!Coupons.then = "nothing"
  /\ Script!Groceries.row = "groceries" /\ Script!Groceries.how = "find"
     /\ Script!Groceries.then = "nothing"
  /\ Script!Owner.row = "owner" /\ Script!Owner.how = "upsert" /\ Script!Owner.then = "nothing"
  /\ Script!RideTypes.row = "ride_types" /\ Script!RideTypes.how = "upsert"
     /\ Script!RideTypes.then = "nothing"
  /\ Script!Drivers.row = "drivers" /\ Script!Drivers.how = "upsert"
     /\ Script!Drivers.then = "nothing"
  /\ Script!Partners.row = "partners" /\ Script!Partners.how = "upsert"
     /\ Script!Partners.then = "nothing"
  /\ Script!RiderLogin.row = "rider_login" /\ Script!RiderLogin.how = "upsert"
     /\ Script!RiderLogin.then = "nothing"
  /\ Script!FoodDelivered.row = "food_delivered" /\ Script!FoodDelivered.how = "ensure"
     /\ Script!FoodDelivered.then = "review"
  /\ Script!FoodUnderWay.row = "food_under_way" /\ Script!FoodUnderWay.how = "ensure"
     /\ Script!FoodUnderWay.then = "busy"
  /\ Script!GroceryOrder.row = "grocery_under_way" /\ Script!GroceryOrder.how = "ensure"
     /\ Script!GroceryOrder.then = "busy"
  /\ Script!RideUnderWay.row = "ride_under_way" /\ Script!RideUnderWay.how = "ensure"
     /\ Script!RideUnderWay.then = "busy"
  /\ Script!Banners.row = "banners" /\ Script!Banners.how = "find"
     /\ Script!Banners.then = "nothing"
<1>1. Script!Cities.row = "cities" /\ Script!Cities.how = "upsert" /\ Script!Cities.then = "nothing"
  BY GroupFields DEF Script!Cities
<1>2. Script!People.row = "people" /\ Script!People.how = "upsert" /\ Script!People.then = "nothing"
  BY GroupFields DEF Script!People
<1>3. Script!Menus.row = "menus" /\ Script!Menus.how = "find" /\ Script!Menus.then = "nothing"
  BY GroupFields DEF Script!Menus
<1>4. /\ Script!ClosedKitchen.row = "closed_kitchen" /\ Script!ClosedKitchen.how = "upsert"
      /\ Script!ClosedKitchen.then = "nothing"
  BY GroupFields DEF Script!ClosedKitchen
<1>5. /\ Script!Coupons.row = "coupons" /\ Script!Coupons.how = "upsert"
      /\ Script!Coupons.then = "nothing"
  BY GroupFields DEF Script!Coupons
<1>6. /\ Script!Groceries.row = "groceries" /\ Script!Groceries.how = "find"
      /\ Script!Groceries.then = "nothing"
  BY GroupFields DEF Script!Groceries
<1>7. Script!Owner.row = "owner" /\ Script!Owner.how = "upsert" /\ Script!Owner.then = "nothing"
  BY GroupFields DEF Script!Owner
<1>8. /\ Script!RideTypes.row = "ride_types" /\ Script!RideTypes.how = "upsert"
      /\ Script!RideTypes.then = "nothing"
  BY GroupFields DEF Script!RideTypes
<1>9. /\ Script!Drivers.row = "drivers" /\ Script!Drivers.how = "upsert"
      /\ Script!Drivers.then = "nothing"
  BY GroupFields DEF Script!Drivers
<1>10. /\ Script!Partners.row = "partners" /\ Script!Partners.how = "upsert"
       /\ Script!Partners.then = "nothing"
  BY GroupFields DEF Script!Partners
<1>11. /\ Script!RiderLogin.row = "rider_login" /\ Script!RiderLogin.how = "upsert"
       /\ Script!RiderLogin.then = "nothing"
  BY GroupFields DEF Script!RiderLogin
<1>12. /\ Script!FoodDelivered.row = "food_delivered" /\ Script!FoodDelivered.how = "ensure"
       /\ Script!FoodDelivered.then = "review"
  BY GroupFields DEF Script!FoodDelivered
<1>13. /\ Script!FoodUnderWay.row = "food_under_way" /\ Script!FoodUnderWay.how = "ensure"
       /\ Script!FoodUnderWay.then = "busy"
  BY GroupFields DEF Script!FoodUnderWay
<1>14. /\ Script!GroceryOrder.row = "grocery_under_way" /\ Script!GroceryOrder.how = "ensure"
       /\ Script!GroceryOrder.then = "busy"
  BY GroupFields DEF Script!GroceryOrder
<1>15. /\ Script!RideUnderWay.row = "ride_under_way" /\ Script!RideUnderWay.how = "ensure"
       /\ Script!RideUnderWay.then = "busy"
  BY GroupFields DEF Script!RideUnderWay
<1>16. /\ Script!Banners.row = "banners" /\ Script!Banners.how = "find"
       /\ Script!Banners.then = "nothing"
  BY GroupFields DEF Script!Banners
<1> QED BY <1>1, <1>2, <1>3, <1>4, <1>5, <1>6, <1>7, <1>8, <1>9, <1>10, <1>11, <1>12, <1>13,
       <1>14, <1>15, <1>16

(* The plan, group by group.                                                 *)
LEMMA PlanIs ==
  /\ Len(Script!Plan) = 16 /\ DOMAIN Script!Plan = 1 .. 16
  /\ Script!Plan[1] = Script!Cities /\ Script!Plan[2] = Script!People
  /\ Script!Plan[3] = Script!Menus /\ Script!Plan[4] = Script!ClosedKitchen
  /\ Script!Plan[5] = Script!Coupons /\ Script!Plan[6] = Script!Groceries
  /\ Script!Plan[7] = Script!Owner /\ Script!Plan[8] = Script!RideTypes
  /\ Script!Plan[9] = Script!Drivers /\ Script!Plan[10] = Script!Partners
  /\ Script!Plan[11] = Script!RiderLogin /\ Script!Plan[12] = Script!FoodDelivered
  /\ Script!Plan[13] = Script!FoodUnderWay /\ Script!Plan[14] = Script!GroceryOrder
  /\ Script!Plan[15] = Script!RideUnderWay /\ Script!Plan[16] = Script!Banners
BY DEF Script!Plan

(* The groups a step of the script can be at: what is found again how, and   *)
(* what follows.                                                             *)
LEMMA PlanRead ==
  /\ Script!UnderWay = {"food_under_way", "grocery_under_way", "ride_under_way"}
  /\ Script!FoodDelivered.row = "food_delivered"
  /\ Script!Removable = {"menus", "groceries", "banners"}
  /\ \A i \in 1 .. 16 :
       \/ /\ Script!Plan[i].how \in {"upsert", "find"} /\ Script!Plan[i].row \notin Script!UnderWay
          /\ Script!Plan[i].row # "food_delivered"
       \/ /\ Script!Plan[i].how = "ensure" /\ Script!Plan[i].row = "food_delivered"
          /\ Script!Plan[i].then = "review"
       \/ /\ Script!Plan[i].how = "ensure" /\ Script!Plan[i].row \in Script!UnderWay
          /\ Script!Plan[i].then = "busy"
<1>1. /\ Script!UnderWay = {"food_under_way", "grocery_under_way", "ride_under_way"}
      /\ Script!FoodDelivered.row = "food_delivered"
      /\ Script!Removable = {"menus", "groceries", "banners"}
  BY GroupsRead DEF Script!UnderWay, Script!Removable
<1>2. ASSUME NEW i \in 1 .. 16
      PROVE  \/ /\ Script!Plan[i].how \in {"upsert", "find"}
                /\ Script!Plan[i].row \notin Script!UnderWay
                /\ Script!Plan[i].row # "food_delivered"
             \/ /\ Script!Plan[i].how = "ensure" /\ Script!Plan[i].row = "food_delivered"
                /\ Script!Plan[i].then = "review"
             \/ /\ Script!Plan[i].how = "ensure" /\ Script!Plan[i].row \in Script!UnderWay
                /\ Script!Plan[i].then = "busy"
  <2>1. CASE i \in 1 .. 8
    BY <1>1, <2>1, PlanIs, GroupsRead
  <2>2. CASE i \in 9 .. 16
    BY <1>1, <2>2, PlanIs, GroupsRead
  <2> QED BY <2>1, <2>2
<1> QED BY <1>1, <1>2

(* Every group a property is about is one of the plan.                       *)
LEMMA NamesRead ==
  /\ Script!UnderWay \subseteq Script!Names /\ "food_delivered" \in Script!Names
  /\ \A i \in 1 .. 16 : Script!Plan[i].row \in Script!Names
<1>1. \A i \in 1 .. 16 : Script!Plan[i].row \in Script!Names
  BY PlanIs DEF Script!Names
<1>2. /\ Script!Plan[12].row = "food_delivered" /\ Script!Plan[13].row = "food_under_way"
      /\ Script!Plan[14].row = "grocery_under_way" /\ Script!Plan[15].row = "ride_under_way"
  BY PlanIs, GroupsRead
<1>3. 12 \in 1 .. 16 /\ 13 \in 1 .. 16 /\ 14 \in 1 .. 16 /\ 15 \in 1 .. 16
  OBVIOUS
<1>4. /\ "food_delivered" \in Script!Names /\ "food_under_way" \in Script!Names
      /\ "grocery_under_way" \in Script!Names /\ "ride_under_way" \in Script!Names
  BY <1>1, <1>2, <1>3, Zenon
<1> QED BY <1>1, <1>4, PlanRead

(* What the script is at, when it is at something.                           *)
LEMMA CurrentRead ==
  ASSUME SeedInv, step # 0
  PROVE  /\ Script!Current.row \in Script!Names
         /\ \/ /\ Script!Current.how \in {"upsert", "find"}
               /\ Script!Current.row \notin Script!UnderWay
               /\ Script!Current.row # "food_delivered"
            \/ /\ Script!Current.how = "ensure" /\ Script!Current.row = "food_delivered"
               /\ Script!Current.then = "review"
            \/ /\ Script!Current.how = "ensure" /\ Script!Current.row \in Script!UnderWay
               /\ Script!Current.then = "busy"
<1>1. step \in 1 .. 16 /\ Script!Current = Script!Plan[step]
  BY DEF SeedInv, Script!Current
<1> QED BY <1>1, PlanRead, NamesRead

(* The next group, or the end.                                               *)
LEMMA NextGroupStays ==
  ASSUME SeedInv, Script!NextGroup, step # 0
  PROVE  step' \in 0 .. 16
BY PlanIs DEF SeedInv, Script!NextGroup

(* Rows that are held by a key, or looked for before they are created.       *)
LEMMA SeedSimple ==
  ASSUME SeedInv, Script!Upsert \/ Script!Find
  PROVE  SeedInv'
<1> DEFINE c == Script!Current.row
<1>1. /\ c \in Script!Names /\ c \notin Script!UnderWay /\ c # "food_delivered"
      /\ step # 0 /\ at = "find" /\ at' = "find" /\ step' \in 0 .. 16
  BY CurrentRead, NextGroupStays DEF SeedInv, Script!Upsert, Script!Find, Script!Idle
<1>2. /\ rows' = [rows EXCEPT ![c] = 1]
      /\ UNCHANGED <<busy, reviewed, rated, over, torn>>
  BY <1>1 DEF SeedInv, Script!Upsert, Script!Find
<1>3. rows' \in [Script!Names -> {0, 1}] /\ \A n \in Script!Names : n # c => rows'[n] = rows[n]
  BY <1>1, <1>2 DEF SeedInv
<1>4. \A n : ~HalfDone(n) /\ ~HalfDone(n)'
  BY <1>1 DEF HalfDone
<1> HIDE DEF c
<1> QED BY <1>1, <1>2, <1>3, <1>4, NamesRead DEF SeedInv

(* Steps that write no row, of a script that is at no half-done group.       *)
LEMMA SeedStart ==
  ASSUME SeedInv, Script!Start
  PROVE  SeedInv'
<1>1. /\ at = "find" /\ at' = "find" /\ step' \in 0 .. 16
      /\ UNCHANGED <<rows, busy, reviewed, rated, over, torn>>
  BY DEF SeedInv, Script!Start, Script!Idle
<1>2. \A n : ~HalfDone(n) /\ ~HalfDone(n)'
  BY <1>1 DEF HalfDone
<1> QED BY <1>1, <1>2 DEF SeedInv

(* An order is created if it is not there, and what belongs to it is owed.   *)
LEMMA SeedEnsure ==
  ASSUME SeedInv, Script!Ensure
  PROVE  SeedInv'
<1> DEFINE c == Script!Current.row
<1>1. /\ c \in Script!Names /\ step # 0 /\ at = "find" /\ Script!Current.how = "ensure"
      /\ UNCHANGED <<busy, reviewed, rated, over, torn>>
  BY CurrentRead DEF Script!Ensure, Script!Idle
<1>2. \A n : ~HalfDone(n)
  BY <1>1 DEF HalfDone
<1>3. CASE rows[c] > 0
  <2>1. UNCHANGED <<rows, at>> /\ step' \in 0 .. 16
    BY <1>1, <1>3, NextGroupStays DEF Script!Ensure
  <2>2. \A n : ~HalfDone(n)'
    BY <1>1, <2>1 DEF HalfDone
  <2> QED BY <1>1, <1>2, <2>1, <2>2 DEF SeedInv
<1>4. CASE ~(rows[c] > 0)
  <2>1. /\ rows' = [rows EXCEPT ![c] = 1] /\ at' = "then" /\ step' = step
        /\ Script!Current' = Script!Current
    BY <1>4 DEF Script!Ensure, Script!Current
  <2>2. /\ rows' \in [Script!Names -> {0, 1}] /\ rows'[c] = 1 /\ rows[c] = 0
        /\ \A n \in Script!Names : n # c => rows'[n] = rows[n]
    BY <1>1, <1>4, <2>1 DEF SeedInv
  <2>3. \A n : HalfDone(n)' <=> n = c
    BY <2>1 DEF HalfDone
  <2>4. c \notin over
    BY <1>1, <2>2 DEF SeedInv
  <2> HIDE DEF c
  <2>5. \A n \in Script!UnderWay : rows'[n] = 0 => n \notin over /\ n \notin busy
    BY <2>2, NamesRead DEF SeedInv
  <2>6. \A n \in Script!UnderWay \ torn :
          rows'[n] = 1 /\ n # c => (n \in busy <=> n \notin over)
    BY <1>2, <2>2, NamesRead DEF SeedInv
  <2>7. rows'["food_delivered"] = 1 /\ "food_delivered" \notin torn /\ "food_delivered" # c
          => reviewed /\ rated
    BY <1>2, <2>2, NamesRead DEF SeedInv
  <2>8. (at # "find" => /\ step # 0 /\ Script!Current.how = "ensure"
                       /\ rows[Script!Current.row] = 1 /\ Script!Current.row \notin over)'
    BY <1>1, <2>1, <2>2, <2>4 DEF c
  <2> QED BY <1>1, <2>1, <2>2, <2>3, <2>5, <2>6, <2>7, <2>8 DEF SeedInv
<1> QED BY <1>3, <1>4

(* The rider is marked busy, or the review written, and the rating is owed.  *)
LEMMA SeedAfter ==
  ASSUME SeedInv, Script!AfterCreate
  PROVE  SeedInv'
<1> DEFINE c == Script!Current.row
<1>1. /\ c \in Script!Names /\ step # 0 /\ Script!Current.how = "ensure"
      /\ rows[c] = 1 /\ c \notin over /\ UNCHANGED <<rows, rated, over, torn>>
      /\ \A n : HalfDone(n) <=> n = c
  BY CurrentRead DEF Script!AfterCreate, SeedInv, HalfDone
<1>2. CASE c = "food_delivered"
  <2>1. Script!Current.then = "review"
    BY <1>1, <1>2, CurrentRead, PlanRead
  <2>2. busy' = busy /\ reviewed' = TRUE /\ step' = step /\ at' = "average"
    BY <2>1 DEF Script!AfterCreate
  <2>3. Script!Current' = Script!Current
    BY <2>2 DEF Script!Current
  <2>4. \A n : HalfDone(n)' <=> n = c
    BY <2>2, <2>3 DEF HalfDone
  <2>5. c \notin Script!UnderWay
    BY <1>2, PlanRead
  <2>6. /\ Script!Current'.how = "ensure" /\ Script!Current'.row = c
        /\ rows'[Script!Current'.row] = 1 /\ Script!Current'.row \notin over'
    BY <1>1, <2>3
  <2> HIDE DEF c
  <2> QED BY <1>1, <1>2, <2>2, <2>4, <2>5, <2>6 DEF SeedInv
<1>3. CASE c # "food_delivered"
  <2>1. c \in Script!UnderWay /\ Script!Current.then = "busy"
    BY <1>1, <1>3, CurrentRead
  <2>2. /\ busy' = busy \cup {c} /\ reviewed' = reviewed /\ at' = "find" /\ step' \in 0 .. 16
    BY <1>1, <2>1, NextGroupStays DEF Script!AfterCreate
  <2>3. \A n : ~HalfDone(n)'
    BY <2>2 DEF HalfDone
  <2> HIDE DEF c
  <2> QED BY <1>1, <1>3, <2>1, <2>2, <2>3 DEF SeedInv
<1> QED BY <1>2, <1>3

(* The rating is read, and written.                                          *)
LEMMA SeedRates ==
  ASSUME SeedInv, Script!Average \/ Script!Rate
  PROVE  SeedInv'
<1>1. /\ at \in {"average", "rate"} /\ step # 0 /\ Script!Current.how = "ensure"
      /\ Script!Current.row = "food_delivered" /\ rows[Script!Current.row] = 1
      /\ Script!Current.row \notin over /\ reviewed
      /\ UNCHANGED <<rows, busy, reviewed, over, torn>>
  BY DEF SeedInv, Script!Average, Script!Rate
<1>2. "food_delivered" \notin Script!UnderWay /\ \A n : HalfDone(n) <=> n = "food_delivered"
  BY <1>1, PlanRead DEF HalfDone
<1>3. CASE Script!Average
  <2>1. at' = "rate" /\ step' = step /\ rated' = rated /\ Script!Current' = Script!Current
    BY <1>3 DEF Script!Average, Script!Current
  <2>2. \A n : HalfDone(n)' <=> n = "food_delivered"
    BY <1>1, <2>1 DEF HalfDone
  <2> QED BY <1>1, <1>2, <2>1, <2>2 DEF SeedInv
<1>4. CASE Script!Rate
  <2>1. at' = "find" /\ step' \in 0 .. 16 /\ rated' = TRUE
    BY <1>1, <1>4, NextGroupStays DEF Script!Rate
  <2>2. \A n : ~HalfDone(n)'
    BY <2>1 DEF HalfDone
  <2> QED BY <1>1, <1>2, <2>1, <2>2 DEF SeedInv
<1> QED BY <1>3, <1>4

(* The script dies; what it owed a row is not made up for.                   *)
LEMMA SeedDie ==
  ASSUME SeedInv, Script!Die
  PROVE  SeedInv'
<1>1. /\ step' = 0 /\ at' = "find" /\ UNCHANGED <<rows, busy, reviewed, rated, over>>
      /\ torn \subseteq torn' /\ \A n : HalfDone(n) => n \in torn'
  BY DEF Script!Die, HalfDone
<1>2. \A n : ~HalfDone(n)'
  BY <1>1 DEF HalfDone
<1> QED BY <1>1, <1>2 DEF SeedInv

(* The office deletes, and orders come to their end.                         *)
LEMMA SeedEdits ==
  ASSUME SeedInv, NEW n \in Script!Names, Script!Remove(n) \/ Script!Complete(n)
  PROVE  SeedInv'
<1>1. /\ step = 0 /\ at = "find" /\ UNCHANGED <<reviewed, rated, step, at, torn>>
  BY DEF SeedInv, Script!Remove, Script!Complete, Script!Edit, Script!Idle
<1>2. \A m : ~HalfDone(m) /\ ~HalfDone(m)'
  BY <1>1 DEF HalfDone
<1>3. CASE Script!Remove(n)
  <2>1. n \notin Script!UnderWay /\ n # "food_delivered" /\ UNCHANGED <<busy, over>>
    BY <1>3, PlanRead DEF Script!Remove
  <2>2. rows[n] \in {0, 1} /\ rows[n] > 0 /\ rows' = [rows EXCEPT ![n] = rows[n] - 1]
    BY <1>3 DEF Script!Remove, SeedInv
  <2>3. rows' \in [Script!Names -> {0, 1}] /\ \A m \in Script!Names : m # n => rows'[m] = rows[m]
    BY <2>2 DEF SeedInv
  <2> QED BY <1>1, <1>2, <2>1, <2>3, NamesRead DEF SeedInv
<1>4. CASE Script!Complete(n)
  <2>1. /\ n \in Script!UnderWay /\ rows[n] > 0 /\ rows' = rows
        /\ over' = over \cup {n} /\ busy' = busy \ {n}
    BY <1>4 DEF Script!Complete
  <2> QED BY <1>1, <1>2, <2>1, NamesRead DEF SeedInv
<1> QED BY <1>3, <1>4

(* Nothing of the script changes in a step of another part.                  *)
LEMMA SeedElsewhere ==
  ASSUME SeedInv, UNCHANGED scriptVars
  PROVE  SeedInv'
BY DEF SeedInv, HalfDone, scriptVars, Script!Current

(* An empty database.                                                        *)
LEMMA SeedInit == Script!Init => SeedInv
<1> SUFFICES ASSUME Script!Init PROVE SeedInv
  OBVIOUS
<1>1. /\ rows = [n \in Script!Names |-> 0] /\ busy = {} /\ reviewed = FALSE /\ rated = FALSE
      /\ over = {}
      /\ step = 0 /\ at = "find"
  BY DEF Script!Init
<1>2. rows \in [Script!Names -> {0, 1}] /\ \A n \in Script!Names : rows[n] = 0
  BY <1>1
<1>3. /\ \A n \in Script!UnderWay : rows[n] # 1 /\ n \notin over /\ n \notin busy
      /\ rows["food_delivered"] # 1
  BY <1>1, <1>2, NamesRead
<1>4. busy \subseteq Script!UnderWay /\ over \subseteq Script!UnderWay /\ reviewed \in BOOLEAN
      /\ rated \in BOOLEAN
  BY <1>1
<1>5. at = "find" /\ step \in 0 .. 16
  BY <1>1
<1> QED BY <1>2, <1>3, <1>4, <1>5 DEF SeedInv

(* The seed script keeps what it has to keep.                                *)
LEMMA SeedKept ==
  ASSUME SeedInv, [Next]_vars
  PROVE  SeedInv'
<1>1. CASE UNCHANGED scriptVars
  BY <1>1, SeedElsewhere
<1>2. CASE Script!Next
  BY <1>2, SeedStart, SeedSimple, SeedEnsure, SeedAfter, SeedRates, SeedDie,
     SeedEdits DEF Script!Next
<1> QED BY <1>1, <1>2 DEF Next, vars

(* However often the script is run, dies at any statement and is run again,  *)
(* with menus, groceries and banners deleted and orders completed in         *)
(* between, no row is there twice; an order it has placed under way has its  *)
(* rider unavailable until it is completed, and the demo review and its      *)
(* rating are written, unless a run died before they were.                   *)
THEOREM SeedRunsAgain == Spec => []SeededOnce
<1>1. Init => SeedInv
  BY SeedInit, Zenon DEF Init
<1>2. SeedInv /\ [Next]_vars => SeedInv'
  BY SeedKept
<1>3. SeedInv => SeededOnce
  <2> SUFFICES ASSUME SeedInv PROVE SeededOnce
    OBVIOUS
  <2>1. \A n \in Script!Names : rows[n] <= 1
    BY DEF SeedInv
  <2>2. step = 0 => \A n : ~HalfDone(n)
    BY DEF SeedInv, HalfDone
  <2> QED BY <2>1, <2>2, PlanRead DEF SeedInv, SeededOnce, Script!SeededOnce, Script!Idle
<1> QED BY <1>1, <1>2, <1>3, PTL DEF Spec
==============================================================================
