---------------------------- MODULE Paging_proofs ----------------------------
(***************************************************************************)
(* Proofs about the pages that Browse shows: that the page of an           *)
(* administrator fits its total, and that favorites loaded page after page *)
(* are a prefix of all favorites.                                          *)
(***************************************************************************)
EXTENDS Browse_proofs

-----------------------------------------------------------------------------
(* Pages of the administration.                                            *)

PagedOps == {"users", "search", "reports"}

\* What the call lists a page of.
Listed(c) ==
  CASE call[c].op = "users" -> DOMAIN users
    [] call[c].op = "search" -> Found(users, call[c].query)
    [] OTHER -> PendingReports(reports)

\* The page of c is not longer than n, and than the configuration allows.
PageFits(c, n) ==
  /\ call[c].off + Len(call[c].items) <= n + call[c].left
  /\ Len(call[c].items) <= cfg.MaxPageSize

\* Between the page and the count, the page fits what is in the table.
PageCall(c) ==
  call[c].op \in PagedOps /\ call[c].off < Half /\ call[c].items # <<>> =>
    /\ call[c].step = "count" => PageFits(c, Cardinality(Listed(c)))
    /\ call[c].step = "reply" => PageFits(c, call[c].total)

PageInv == \A c \in Calls : PageCall(c)

\* A page that is not empty ends within the set, and within its limit.
LEMMA PageEnds ==
  ASSUME NEW S, NEW key, NEW off \in Int, NEW lim \in Int, IsFiniteSet(S),
         NEW page \in Pages(S, key, off, lim), page # <<>>
  PROVE  off + Len(page) <= Cardinality(S) /\ Len(page) <= lim
<1>1. /\ page \in Seq(S) /\ Len(page) = PageLength(S, off, lim)
      /\ off >= 0 /\ lim >= 0
  BY PageType
<1>2. Len(page) > 0
  BY <1>1
<1>3. Cardinality(S) \in Nat
  BY FS_CardinalityType
<1> QED BY <1>1, <1>2, <1>3 DEF PageLength

LEMMA ListedFinite ==
  ASSUME TypeInv, NEW c \in Calls
  PROVE  IsFiniteSet(Listed(c)) /\ Cardinality(Listed(c)) \in Nat
<1>1. users \in Seq(Emails) /\ reports \in Seq([wallpaper : Nat, status : {"pending", "dismissed"}])
  BY DEF TypeInv
<1>2. \A query : Found(users, query) \subseteq DOMAIN users
  BY DEF Found
<1>3. PendingReports(reports) \subseteq DOMAIN reports
  BY DEF PendingReports
<1>4. IsFiniteSet(DOMAIN users) /\ Cardinality(DOMAIN users) \in Nat
  BY <1>1, Finite
<1>5. \A query : IsFiniteSet(Found(users, query)) /\ Cardinality(Found(users, query)) \in Nat
  BY <1>1, <1>2, Finite
<1>6. IsFiniteSet(PendingReports(reports)) /\ Cardinality(PendingReports(reports)) \in Nat
  BY <1>1, <1>3, Finite
<1> QED BY <1>4, <1>5, <1>6 DEF Listed

LEMMA PageKept ==
  ASSUME PageInv, UNCHANGED <<users, reports, cfg>>,
         \A d \in Calls : call'[d] = call[d] \/ PageCall(d)'
  PROVE  PageInv'
<1>1. ASSUME NEW d \in Calls, call'[d] = call[d]
      PROVE  PageCall(d)'
  BY <1>1 DEF PageInv, PageCall, PageFits, Listed
<1> QED BY <1>1 DEF PageInv

\* A call of something else, or one that has nothing to answer yet.
LEMMA PageQuiet ==
  ASSUME PageInv, UNCHANGED <<users, reports, cfg>>, NEW c \in Calls, OthersKept(c),
         \/ call'[c].op \notin PagedOps
         \/ call'[c].items = <<>>
         \/ call'[c].step \notin {"count", "reply"}
  PROVE  PageInv'
<1>1. PageCall(c)'
  BY DEF PageCall
<1> QED BY <1>1, PageKept DEF OthersKept

\* The page has been read, and then the total.
LEMMA PageRead ==
  ASSUME TypeInv, PageInv, NEW c \in Calls, call[c].op \in PagedOps, NEW key,
         PageFirst(c, call[c].op, Pages(Listed(c), key, Off(c), Lim(c)))
  PROVE  PageInv'
<1>1. PICK page \in Pages(Listed(c), key, Off(c), Lim(c)) :
        /\ Moved(c, "count") /\ call'[c].items = page
        /\ UNCHANGED <<tables, cfg, view, screen>>
  BY ServeMoves
<1>2. Listed(c)' = Listed(c)
  BY <1>1 DEF Moved, Listed, tables
<1>3. ASSUME call[c].off < Half, page # <<>>
      PROVE  PageFits(c, Cardinality(Listed(c)))'
  <2>1. /\ Off(c) \in Int /\ Lim(c) \in Int /\ Lim(c) <= cfg.MaxPageSize
        /\ Off(c) = call[c].off
    BY <1>3, LimType
  <2>2. call[c].left \in Nat /\ cfg.MaxPageSize \in Int
    BY DEF TypeInv, CallType
  <2>3. IsFiniteSet(Listed(c)) /\ Cardinality(Listed(c)) \in Nat
    BY ListedFinite
  <2>4. Off(c) + Len(page) <= Cardinality(Listed(c)) /\ Len(page) <= Lim(c)
    BY <1>3, <2>1, <2>3, PageEnds
  <2>5. Len(page) \in Nat
    BY <2>1, <2>3, PageType
  <2>6. /\ call'[c].off = call[c].off /\ call'[c].left = call[c].left
        /\ call'[c].items = page /\ cfg' = cfg
    BY <1>1 DEF Moved
  <2>7. call[c].off + Len(page) <= Cardinality(Listed(c)) + call[c].left
    BY <2>1, <2>2, <2>3, <2>4, <2>5
  <2>8. Len(page) <= cfg.MaxPageSize
    BY <2>1, <2>2, <2>4, <2>5
  <2> QED BY <1>2, <2>6, <2>7, <2>8 DEF PageFits
<1>4. PageCall(c)'
  BY <1>1, <1>3 DEF PageCall, Moved
<1> QED BY <1>1, <1>4, PageKept DEF Moved, OthersKept, tables

LEMMA PageCounted ==
  ASSUME TypeInv, PageInv, NEW c \in Calls, call[c].op \in PagedOps,
         CountLast(c, call[c].op, Cardinality(Listed(c)))
  PROVE  PageInv'
<1>1. /\ At(c, call[c].op, "count") /\ Moved(c, "reply") /\ call'[c].total = Cardinality(Listed(c))
      /\ call'[c].items = call[c].items
      /\ UNCHANGED <<tables, cfg, view, screen>>
  BY ServeMoves
<1>2. PageCall(c)'
  BY <1>1 DEF PageInv, PageCall, PageFits, Moved, At
<1> QED BY <1>1, <1>2, PageKept DEF Moved, OthersKept, tables

LEMMA Slack ==
  ASSUME NEW k \in Nat, NEW a \in Nat, NEW b \in Nat, NEW l \in Nat, NEW m \in Nat,
         NEW n \in Nat, k + n <= a + l, a + l <= b + m
  PROVE  k + n <= b + m
OBVIOUS

\* Lists may become longer, and shorter by what is counted as left behind.
LEMMA PageStays ==
  ASSUME TypeInv, TypeInv', PageInv, cfg' = cfg, NEW d \in Calls,
         call'[d].op = call[d].op, call'[d].off = call[d].off,
         call'[d].items = call[d].items, call'[d].total = call[d].total,
         call'[d].step = call[d].step, call[d].left <= call'[d].left,
         call[d].op \in PagedOps /\ call[d].step = "count" =>
           Cardinality(Listed(d)) + call[d].left <= Cardinality(Listed(d)') + call'[d].left
  PROVE  PageCall(d)'
<1>1. /\ call[d].off \in Nat /\ call[d].left \in Nat /\ call'[d].left \in Nat
      /\ call[d].total \in Nat /\ call[d].items \in Seq(Nat)
  BY DEF TypeInv, CallType
<1>2. Len(call[d].items) \in Nat
  BY <1>1
<1>3. Cardinality(Listed(d)) \in Nat
  BY ListedFinite
<1>4. Cardinality(Listed(d)') \in Nat
  <2>1. users' \in Seq(Emails) /\ reports' \in Seq([wallpaper : Nat, status : {"pending", "dismissed"}])
    BY DEF TypeInv
  <2>2. \A query : Found(users', query) \subseteq DOMAIN users'
    BY DEF Found
  <2>3. PendingReports(reports') \subseteq DOMAIN reports'
    BY DEF PendingReports
  <2>4. /\ Cardinality(DOMAIN users') \in Nat
        /\ \A query : Cardinality(Found(users', query)) \in Nat
    BY <2>1, <2>2, Finite
  <2>5. Cardinality(PendingReports(reports')) \in Nat
    BY <2>1, <2>3, Finite
  <2> QED BY <2>4, <2>5 DEF Listed
<1> DEFINE off == call[d].off
           n == Len(call[d].items)
<1>5. ASSUME PageFits(d, call[d].total)
      PROVE  PageFits(d, call[d].total)'
  <2>1. off + n <= call[d].total + call[d].left => off + n <= call[d].total + call'[d].left
    BY <1>1, <1>2
  <2> QED BY <1>5, <2>1 DEF PageFits
<1>6. ASSUME PageFits(d, Cardinality(Listed(d))), call[d].op \in PagedOps, call[d].step = "count"
      PROVE  PageFits(d, Cardinality(Listed(d)))'
  <2>1. \A a, b \in Nat :
          off + n <= a + call[d].left /\ a + call[d].left <= b + call'[d].left
            => off + n <= b + call'[d].left
    <3>1. off \in Nat /\ n \in Nat
      BY <1>1, <1>2
    <3> HIDE DEF off, n
    <3> QED BY <1>1, <3>1, Slack
  <2>2. off + n <= Cardinality(Listed(d)) + call[d].left
    BY <1>6 DEF PageFits
  <2>3. Cardinality(Listed(d)) + call[d].left <= Cardinality(Listed(d)') + call'[d].left
    BY <1>6
  <2>4. off + n <= Cardinality(Listed(d)') + call'[d].left
    BY <1>3, <1>4, <2>1, <2>2, <2>3
  <2> QED BY <1>6, <2>4 DEF PageFits
<1> QED BY <1>5, <1>6 DEF PageInv, PageCall

\* A row more in the table.
LEMMA OneMore ==
  ASSUME NEW T, NEW table \in Seq(T), NEW row \in T
  PROVE  /\ DOMAIN table \subseteq DOMAIN Append(table, row)
         /\ \A i \in DOMAIN table : Append(table, row)[i] = table[i]
         /\ Append(table, row) \in Seq(T)
OBVIOUS

LEMMA PageRegister ==
  ASSUME TypeInv, TypeInv', PageInv, NEW email \in Emails, Register(email)
  PROVE  PageInv'
<1>1. users' = Append(users, email) /\ UNCHANGED <<reports, cfg, call>>
  BY DEF Register, CreateUser
<1>2. users \in Seq(Emails)
  BY DEF TypeInv
<1>3. /\ DOMAIN users \subseteq DOMAIN users' /\ users' \in Seq(Emails)
      /\ \A query : Found(users, query) \subseteq Found(users', query)
  <2>1. /\ DOMAIN users \subseteq DOMAIN users' /\ users' \in Seq(Emails)
        /\ \A i \in DOMAIN users : users'[i] = users[i]
    BY <1>1, <1>2, OneMore
  <2> QED BY <2>1 DEF Found
<1>4. ASSUME NEW d \in Calls
      PROVE  PageCall(d)'
  <2>1. Listed(d) \subseteq Listed(d)'
    BY <1>1, <1>3 DEF Listed
  <2>2. IsFiniteSet(Listed(d)')
    <3>1. Found(users', call[d].query) \subseteq DOMAIN users'
      BY DEF Found
    <3>2. IsFiniteSet(DOMAIN users') /\ IsFiniteSet(Found(users', call[d].query))
      BY <1>3, <3>1, Finite
    <3>3. PendingReports(reports) \subseteq DOMAIN reports
      BY DEF PendingReports
    <3>4. IsFiniteSet(PendingReports(reports))
      BY <3>3, Finite DEF TypeInv
    <3> QED BY <1>1, <3>2, <3>4 DEF Listed
  <2>3. Cardinality(Listed(d)) <= Cardinality(Listed(d)')
    BY <2>1, <2>2, FS_Subset
  <2>4. /\ Cardinality(Listed(d)) \in Nat /\ Cardinality(Listed(d)') \in Nat
        /\ call[d].left \in Nat
    BY <2>2, ListedFinite, FS_CardinalityType DEF TypeInv, CallType
  <2>5. /\ call[d].left <= call[d].left
        /\ Cardinality(Listed(d)) + call[d].left <= Cardinality(Listed(d)') + call[d].left
    BY <2>3, <2>4
  <2> QED BY <1>1, <2>5, PageStays
<1> QED BY <1>4 DEF PageInv

\* To dismiss a report takes one off the list at most, and counts it for those
\* who have read the page.
LEMMA PageDismiss ==
  ASSUME TypeInv, TypeInv', PageInv, NEW c \in Calls, Dismiss(c)
  PROVE  PageInv'
<1> DEFINE r == call[c].id
           L == LeftBehind(r)
<1>1. /\ At(c, "dismiss", "write") /\ reports' = DismissReport(reports, r)
      /\ call' = [L EXCEPT ![c].step = "reply"] /\ UNCHANGED <<users, cfg>>
  BY DEF Dismiss
<1>2. ASSUME NEW d \in Calls, d # c
      PROVE  call'[d] = L[d]
  <2>1. L = [e \in Calls |-> L[e]]
    BY DEF LeftBehind
  <2> HIDE DEF L
  <2> QED BY <1>1, <1>2, <2>1
<1>3. ASSUME NEW d \in Calls, d # c
      PROVE  /\ call'[d].left = call[d].left \/ call'[d].left = call[d].left + 1
             /\ At(d, "reports", "count") /\ reports[r].status = "pending" =>
                  call'[d].left = call[d].left + 1
  <2>1. call[d] \in CallType
    BY DEF TypeInv
  <2> QED BY <1>2, <1>3, <2>1 DEF LeftBehind, CallType
<1> HIDE DEF L
<1>4. reports \in Seq([wallpaper : Nat, status : {"pending", "dismissed"}])
  BY DEF TypeInv
<1> DEFINE P == PendingReports(reports)
           Q == PendingReports(reports')
<1>5. IsFiniteSet(P) /\ Cardinality(P) \in Nat
  <2>1. P \subseteq DOMAIN reports
    BY DEF PendingReports
  <2> QED BY <1>4, <2>1, Finite
<1>6. P \ {r} \subseteq Q /\ Q \subseteq P /\ (r \in P \/ Q = P)
  <2>1. /\ DOMAIN reports' = DOMAIN reports
        /\ \A i \in DOMAIN reports : reports'[i] = IF i = r THEN [reports[i] EXCEPT !.status = "dismissed"] ELSE reports[i]
    BY <1>1 DEF DismissReport
  <2>2. \A i \in DOMAIN reports : DOMAIN reports[i] = {"wallpaper", "status"}
    <3> DEFINE T == [wallpaper : Nat, status : {"pending", "dismissed"}]
    <3>1. reports \in Seq(T) /\ \A row \in T : DOMAIN row = {"wallpaper", "status"}
      BY <1>4
    <3> HIDE DEF T
    <3> QED BY <3>1
  <2>3. \A i \in DOMAIN reports : i # r => reports'[i] = reports[i]
    BY <2>1
  <2>4. r \in DOMAIN reports => reports'[r].status = "dismissed"
    BY <2>1, <2>2
  <2>5. Q \subseteq P
    BY <2>1, <2>3, <2>4 DEF PendingReports
  <2> QED BY <2>1, <2>3, <2>5 DEF PendingReports
<1>7. IsFiniteSet(Q) /\ Cardinality(Q) \in Nat
  BY <1>5, <1>6, FS_Subset, FS_CardinalityType
<1>8. Cardinality(P) <= IF r \in P THEN Cardinality(Q) + 1 ELSE Cardinality(Q)
  <2>1. CASE r \in P
    <3>1. IsFiniteSet(P \ {r}) /\ Cardinality(P \ {r}) = Cardinality(P) - 1
      BY <1>5, <2>1, FS_RemoveElement
    <3>2. Cardinality(P \ {r}) <= Cardinality(Q)
      BY <1>6, <1>7, FS_Subset
    <3> QED BY <1>5, <1>7, <2>1, <3>1, <3>2
  <2>2. CASE r \notin P
    BY <1>5, <1>6, <2>2
  <2> QED BY <2>1, <2>2
<1>9. ASSUME NEW d \in Calls, d # c
      PROVE  PageCall(d)'
  <2>1. /\ call'[d].op = call[d].op /\ call'[d].off = call[d].off
        /\ call'[d].items = call[d].items /\ call'[d].total = call[d].total
        /\ call'[d].step = call[d].step /\ call'[d].query = call[d].query
    BY <1>9, DismissMoves
  <2>2. call[d].left \in Nat /\ call'[d].left \in Nat
    BY DEF TypeInv, CallType
  <2>3. call[d].left <= call'[d].left
    BY <1>3, <1>9, <2>2
  <2>4. ASSUME call[d].op \in PagedOps, call[d].step = "count"
        PROVE  Cardinality(Listed(d)) + call[d].left <= Cardinality(Listed(d)') + call'[d].left
    <3>1. CASE call[d].op = "reports"
      <4>1. Listed(d) = P /\ Listed(d)' = Q
        BY <2>1, <3>1 DEF Listed
      <4>2. r \in P => call'[d].left = call[d].left + 1
        BY <1>3, <1>9, <2>4, <3>1 DEF At, PendingReports
      <4> HIDE DEF P, Q
      <4> QED BY <1>5, <1>7, <1>8, <2>2, <2>3, <4>1, <4>2
    <3>2. CASE call[d].op # "reports"
      <4>1. Listed(d)' = Listed(d)
        BY <1>1, <2>1, <2>4, <3>2 DEF Listed, PagedOps
      <4>2. Cardinality(Listed(d)) \in Nat
        BY ListedFinite
      <4> QED BY <2>2, <2>3, <4>1, <4>2
    <3> QED BY <3>1, <3>2
  <2> QED BY <1>1, <2>1, <2>3, <2>4, PageStays
<1>10. PageCall(c)'
  BY <1>1, DismissMoves DEF PageCall, PagedOps, At
<1> QED BY <1>9, <1>10 DEF PageInv

LEMMA PageReport ==
  ASSUME TypeInv, TypeInv', PageInv, NEW c \in Calls, ReportCreate(c)
  PROVE  PageInv'
<1>1. /\ At(c, "report", "write") /\ Moved(c, "reply")
      /\ reports' = CreateReport(reports, call[c].id) /\ UNCHANGED <<users, cfg>>
  BY ServeMoves DEF ReportCreate
<1> DEFINE T == [wallpaper : Nat, status : {"pending", "dismissed"}]
           row == [wallpaper |-> call[c].id, status |-> "pending"]
<1>2. reports \in Seq(T) /\ row \in T /\ reports' = Append(reports, row)
  BY <1>1 DEF TypeInv, CallType, CreateReport
<1> HIDE DEF T, row
<1>3. /\ DOMAIN reports \subseteq DOMAIN reports' /\ reports' \in Seq(T)
      /\ \A i \in DOMAIN reports : reports'[i] = reports[i]
  BY <1>2, OneMore
<1>4. PendingReports(reports) \subseteq PendingReports(reports')
  BY <1>3 DEF PendingReports
<1>5. IsFiniteSet(PendingReports(reports'))
  <2>1. PendingReports(reports') \subseteq DOMAIN reports'
    BY DEF PendingReports
  <2> QED BY <1>3, <2>1, Finite
<1>6. ASSUME NEW d \in Calls, d # c
      PROVE  PageCall(d)'
  <2>1. call'[d] = call[d]
    BY <1>1, <1>6 DEF Moved, OthersKept
  <2>2. CASE call[d].op \in {"users", "search"}
    <3>1. Listed(d)' = Listed(d)
      BY <1>1, <2>1, <2>2 DEF Listed
    <3>2. /\ call[d].left <= call[d].left
          /\ Cardinality(Listed(d)) + call[d].left <= Cardinality(Listed(d)) + call[d].left
      <4>1. Cardinality(Listed(d)) \in Nat /\ call[d].left \in Nat
        BY ListedFinite DEF TypeInv, CallType
      <4> QED BY <4>1
    <3> QED BY <1>1, <2>1, <3>1, <3>2, PageStays
  <2>3. CASE call[d].op \notin {"users", "search"}
    <3>1. Listed(d) = PendingReports(reports) /\ Listed(d)' = PendingReports(reports')
      BY <2>1, <2>3 DEF Listed
    <3>2. Cardinality(Listed(d)) <= Cardinality(Listed(d)') /\ Cardinality(Listed(d)') \in Nat
      BY <1>4, <1>5, <3>1, FS_Subset, FS_CardinalityType
    <3>3. Cardinality(Listed(d)) \in Nat /\ call[d].left \in Nat
      BY ListedFinite DEF TypeInv, CallType
    <3>4. /\ call[d].left <= call[d].left
          /\ Cardinality(Listed(d)) + call[d].left <= Cardinality(Listed(d)') + call[d].left
      BY <3>2, <3>3
    <3> QED BY <1>1, <2>1, <3>4, PageStays
  <2> QED BY <2>2, <2>3
<1>7. PageCall(c)'
  BY <1>1 DEF PageCall, PagedOps, Moved, At
<1> QED BY <1>6, <1>7 DEF PageInv

LEMMA PageServe ==
  ASSUME TypeInv, TypeInv', PageInv, NEW c \in Calls, Serve(c)
  PROVE  PageInv'
<1>1. (UNCHANGED <<tables, cfg, view, screen>>) => UNCHANGED <<users, reports, cfg>>
  BY DEF tables
<1>2. ASSUME NEW s, Moved(c, s), call[c].op \notin PagedOps, UNCHANGED <<users, reports, cfg>>
      PROVE  PageInv'
  BY <1>2, PageQuiet DEF Moved
<1>3. ASSUME NEW op, NEW total, NEW pages, op \notin PagedOps,
             \/ Count(c, op, total) \/ CountLast(c, op, total)
             \/ Page(c, op, pages) \/ PageFirst(c, op, pages)
      PROVE  PageInv'
  <2>1. PICK s : Moved(c, s) /\ call[c].op = op /\ UNCHANGED <<tables, cfg, view, screen>>
    BY <1>3, ServeMoves DEF At
  <2> QED BY <1>1, <1>2, <1>3, <2>1
<1>4. CASE Popular(c) \/ Recent(c) \/ List(c) \/ ListByUser(c, "load") \/ ListByUser(c, "more")
  <2>1. "popular" \notin PagedOps /\ "recent" \notin PagedOps /\ "list" \notin PagedOps
        /\ "load" \notin PagedOps /\ "more" \notin PagedOps
    BY DEF PagedOps
  <2>2. CASE Popular(c)
    BY <1>3, <2>1, <2>2 DEF Popular
  <2>3. CASE Recent(c)
    BY <1>3, <2>1, <2>3 DEF Recent
  <2>4. CASE List(c)
    BY <1>3, <2>1, <2>4 DEF List
  <2>5. CASE ListByUser(c, "load") \/ ListByUser(c, "more")
    BY <1>3, <2>1, <2>5 DEF ListByUser
  <2> QED BY <1>4, <2>2, <2>3, <2>4, <2>5
<1>5. CASE ListAllUsers(c)
  <2>1. call[c].op = "users"
    BY <1>5 DEF ListAllUsers, PageFirst, CountLast, At
  <2>2. Listed(c) = DOMAIN users
    BY <2>1 DEF Listed
  <2> QED BY <1>5, <2>1, <2>2, PageRead, PageCounted DEF ListAllUsers, ListUsers, CountUsers, PagedOps
<1>6. CASE SearchUsers(c)
  <2>1. call[c].op = "search"
    BY <1>6 DEF SearchUsers, PageFirst, CountLast, At
  <2>2. Listed(c) = Found(users, call[c].query)
    BY <2>1 DEF Listed
  <2> QED BY <1>6, <2>1, <2>2, PageRead, PageCounted
          DEF SearchUsers, ListUsersWithSearch, CountUsersWithSearch, PagedOps
<1>7. CASE ListReports(c)
  <2>1. call[c].op = "reports"
    BY <1>7 DEF ListReports, PageFirst, CountLast, At
  <2>2. Listed(c) = PendingReports(reports)
    BY <2>1 DEF Listed
  <2> QED BY <1>7, <2>1, <2>2, PageRead, PageCounted
          DEF ListReports, ListPendingReports, CountPendingReports, PagedOps
<1>8. ASSUME NEW op, NEW status, op \notin PagedOps, ListOfStatus(c, op, status)
      PROVE  PageInv'
  <2>1. PICK s : Moved(c, s) /\ call[c].op = op /\ UNCHANGED <<tables, cfg, view, screen>>
    BY <1>8, ServeMoves
  <2> QED BY <1>1, <1>2, <1>8, <2>1
<1>9. CASE Queue(c) \/ ListWallpapers(c)
  BY <1>8, <1>9 DEF Queue, ListWallpapers, PagedOps
<1>10. CASE Get(c) \/ ToggleCheck(c)
  <2>1. PICK s : Moved(c, s) /\ call[c].op \in {"get", "toggle"} /\ UNCHANGED <<tables, cfg, view, screen>>
    BY <1>10, ServeMoves DEF At
  <2> QED BY <1>1, <1>2, <2>1 DEF PagedOps
<1>11. CASE ToggleInsert(c) \/ ToggleDelete(c)
  <2>1. call[c].op = "toggle" /\ UNCHANGED <<users, reports, cfg>>
    BY <1>11 DEF ToggleInsert, ToggleDelete, At
  <2>2. \/ call' = [call EXCEPT ![c].step = "failed"]
        \/ call' = [call EXCEPT ![c].step = "reply", ![c].result = TRUE, ![c].nr = version']
        \/ call' = [call EXCEPT ![c].step = "reply", ![c].result = FALSE, ![c].nr = version']
    BY <1>11 DEF ToggleInsert, ToggleDelete
  <2>3. Moved(c, "failed") \/ Moved(c, "reply")
    BY <2>2, Moves, MovesWithResult
  <2> QED BY <1>2, <2>1, <2>3 DEF PagedOps
<1>12. CASE Fails(c)
  <2>1. Moved(c, "failed") /\ UNCHANGED <<tables, cfg, view, screen>>
    BY <1>12, ServeMoves
  <2> QED BY <1>1, <2>1, PageQuiet DEF Moved
<1> QED
  BY <1>4, <1>5, <1>6, <1>7, <1>9, <1>10, <1>11, <1>12, PageReport, PageDismiss DEF Serve

LEMMA PageStep == TypeInv /\ PageInv /\ [Next]_vars => PageInv'
<1> SUFFICES ASSUME TypeInv, PageInv, [Next]_vars PROVE PageInv'
  OBVIOUS
<1>t. TypeInv'
  BY TypeStep
<1>1. ASSUME NEW c \in Calls, NEW op, NEW step, Sent(c, op, step), UNCHANGED <<tables, cfg>>
      PROVE  PageInv'
  BY <1>1, PageQuiet DEF Sent, tables
<1>2. ASSUME NEW c \in Calls, Click(c)
      PROVE  PageInv'
  <2>1. UNCHANGED <<tables, cfg>>
    BY <1>2 DEF Click, LoadHome, SelectCategory, Search, FetchDetail, LoadFavorites, LoadMore,
                Toggle, SubmitReport, LoadAdmin, DismissShown
  <2>2. ASSUME NEW op \in {"queue", "users", "reports"}, LoadAdmin(c, op)
        PROVE  Sent(c, op, "page")
    BY <2>2, ClickSends
  <2>3. \E op, step : Sent(c, op, step)
    BY <1>2, <2>2, ClickSends DEF Click
  <2> QED BY <1>1, <2>1, <2>3
<1>3. ASSUME NEW c \in Calls, Answered(c)
      PROVE  PageInv'
  <2>1. UNCHANGED <<users, reports, cfg>>
    BY <1>3 DEF Answered, PopularArrives, RecentArrives, ResultsArrive, FavoritesArrive, MoreArrives,
                ToggleArrives, AdminArrives, DismissArrives, Over, tables
  <2>2. PopularArrives(c) \/ Ends(c)
    BY <1>3 DEF Answered, RecentArrives, ResultsArrive, FavoritesArrive, MoreArrives,
                ToggleArrives, AdminArrives, DismissArrives, Over
  <2>3. OthersKept(c) /\ call'[c].items = <<>>
    <3>1. CASE PopularArrives(c)
      BY <3>1, EndsCall
    <3>2. CASE Ends(c)
      BY <3>2, EndsCall DEF Idle
    <3> QED BY <2>2, <3>1, <3>2
  <2> QED BY <2>1, <2>3, PageQuiet
<1>4. ASSUME UNCHANGED <<users, reports, cfg, call>>
      PROVE  PageInv'
  BY <1>4, PageKept
<1>5. CASE Others
  <2>1. ASSUME NEW c \in Calls, NEW w, ToggleElsewhere(c, w)
        PROVE  PageInv'
    <3>1. Sent(c, "toggle", "check") /\ UNCHANGED <<tables, cfg>>
      BY <2>1, ClickSends DEF ToggleElsewhere
    <3> QED BY <1>1, <3>1
  <2>2. ASSUME NEW c \in Calls, NEW op \in {"users", "search", "reports", "content"},
               NEW query, NEW off, AskElsewhere(c, op, query, off)
        PROVE  PageInv'
    <3>1. Sent(c, op, "page")
      BY <2>2, ClickSends
    <3>2. UNCHANGED <<tables, cfg>>
      BY <2>2 DEF AskElsewhere
    <3> QED BY <1>1, <3>1, <3>2
  <2>3. ASSUME NEW w, NEW title, NEW category, NEW status,
               \/ Create(title, category) \/ Finalize(w) \/ Approve(w) \/ Reject(w)
               \/ Download(w) \/ Withdraw(w, status) \/ EditWallpaper(w, title, category)
        PROVE  PageInv'
    BY <1>4, <2>3
       DEF Create, Finalize, Approve, Reject, Download, Withdraw, EditWallpaper, Changes
  <2> QED BY <1>5, <1>t, <2>1, <2>2, <2>3, PageRegister DEF Others
<1>6. CASE ClearCategory \/ (\E text \in Titles : Type(text)) \/ UNCHANGED vars
  BY <1>4, <1>6 DEF ClearCategory, Type, vars, tables
<1> QED BY <1>t, <1>2, <1>3, <1>5, <1>6, PageServe DEF Next

\* The page of users or reports fits the total beside it, up to reports
\* dismissed between the two queries, and the configuration
\* (handler/admin.go:159-203, 267-292, respond.go:61-90, config.go:118-152).
THEOREM PageAlwaysWithinTotal == Spec => []PageWithinTotal
<1>1. Init => PageInv
  <2>1. ASSUME Init, NEW c \in Calls
        PROVE  call[c].items = <<>>
    BY <2>1 DEF Init, Idle
  <2> QED BY <2>1 DEF PageInv, PageCall
<1>2. PageInv => PageWithinTotal
  BY DEF PageInv, PageCall, PageFits, PageWithinTotal, PagedOps
<1> QED BY <1>1, <1>2, TypeInit, TypeStep, PageStep, PTL DEF Spec

-----------------------------------------------------------------------------
(* Favorites, page after page.                                             *)

FavoriteOps == {"load", "more"}

\* The first n favorites.
IsPrefix(list, n) == Len(list) = n /\ list \in ListFavoritesByUser(favorites, 0, n)

\* A page of favorites that is asked for begins where the list on the screen
\* ends, and has been counted.
FavoriteCall(c) ==
  call[c].op \in FavoriteOps =>
    /\ \A d \in Calls : call[d].op \in FavoriteOps => d = c
    /\ call[c].from = "view" /\ call[c].off = currentOffset /\ call[c].lim = PageSize
    /\ call[c].op = "load" => call[c].off = 0
    /\ call[c].op = "more" =>
         /\ call[c].off < CountFavoritesByUser(favorites)
         /\ IsPrefix(shown.favorites, call[c].off)
    /\ call[c].step \in {"count", "page", "reply", "failed"}
    /\ call[c].step \in {"page", "reply"} => call[c].total = CountFavoritesByUser(favorites)
    /\ call[c].step = "reply" =>
         call[c].items \in ListFavoritesByUser(favorites, call[c].off, PageSize)

\* No page is asked for: the list on the screen is a prefix, and full pages if
\* there are more.
PrefixShown ==
  /\ IsPrefix(shown.favorites, Len(shown.favorites))
  /\ hasMore = (Len(shown.favorites) < CountFavoritesByUser(favorites))
  /\ hasMore => Len(shown.favorites) = currentOffset + PageSize

PrefixInv ==
  steady /\ cfg.MaxPageSize >= PageSize =>
    /\ \A c \in Calls : FavoriteCall(c)
    /\ NoPageUnderWay => PrefixShown

LEMMA FavoritesFinite ==
  ASSUME TypeInv
  PROVE  /\ IsFiniteSet(Favored(favorites)) /\ CountFavoritesByUser(favorites) \in Nat
         /\ CountFavoritesByUser(favorites) <= MaxWallpapers
<1>1. Favored(favorites) \in SUBSET (1..MaxWallpapers)
  BY DEF Favored, TypeInv, Wallpapers
<1>2. IsFiniteSet(1..MaxWallpapers) /\ Cardinality(1..MaxWallpapers) = MaxWallpapers
  BY Scalars, FS_Interval
<1>3. /\ IsFiniteSet(Favored(favorites))
      /\ Cardinality(Favored(favorites)) <= Cardinality(1..MaxWallpapers)
  BY <1>1, <1>2, FS_Subset
<1> QED BY <1>2, <1>3, FS_CardinalityType DEF CountFavoritesByUser

\* The first page of n, and a page after the first n.
LEMMA PrefixPages ==
  ASSUME NEW S, NEW key, IsFiniteSet(S), NEW off \in Nat, NEW lim \in Nat,
         NEW page \in Pages(S, key, off, lim),
         NEW list \in Pages(S, key, 0, off), Len(list) = off, off <= Cardinality(S)
  PROVE  LET all == list \o page IN
         /\ all \in Seq(S) /\ Len(all) = off + Len(page)
         /\ all \in Pages(S, key, 0, off + Len(page))
         /\ Len(page) = PageLength(S, off, lim)
<1>1. /\ page \in Seq(S) /\ Len(page) = PageLength(S, off, lim)
      /\ \A i \in 1..Len(page) : page[i] \in S /\ Cardinality(Ahead(S, key, page[i])) = off + i - 1
  <2>1. off \in Int /\ lim \in Int
    OBVIOUS
  <2>2. /\ page \in Seq(S) /\ Len(page) = PageLength(S, off, lim) /\ DOMAIN page = 1..Len(page)
        /\ \A i \in DOMAIN page : page[i] \in S /\ Cardinality(Ahead(S, key, page[i])) = off + i - 1
    BY <2>1, PageType
  <2> QED BY <2>2
<1>2. /\ list \in Seq(S)
      /\ \A i \in 1..off : list[i] \in S /\ Cardinality(Ahead(S, key, list[i])) = i - 1
  <2>1. /\ list \in Seq(S) /\ DOMAIN list = 1..off
        /\ \A i \in DOMAIN list : list[i] \in S /\ Cardinality(Ahead(S, key, list[i])) = 0 + i - 1
    BY PageType
  <2> QED BY <2>1
<1> DEFINE all == list \o page
           n == Len(page)
<1>3. /\ all \in Seq(S) /\ Len(all) = off + n /\ n \in Nat
      /\ \A i \in 1..off : all[i] = list[i]
      /\ \A i \in off + 1..off + n : all[i] = page[i - off]
  <2>1. page \in Seq(S) /\ list \in Seq(S) /\ Len(list) = off
    BY <1>1, <1>2
  <2>2. n \in Nat
    BY <2>1
  <2>3. all \in Seq(S) /\ Len(all) = off + n
    BY <2>1
  <2>4. \A i \in 1..off + n : all[i] = IF i <= off THEN list[i] ELSE page[i - off]
    BY <2>1
  <2> QED BY <2>2, <2>3, <2>4
<1>4. Cardinality(S) \in Nat
  BY FS_CardinalityType
<1>5. off + n <= Cardinality(S)
  BY <1>1, <1>3, <1>4 DEF PageLength
<1>6. PageLength(S, 0, off + n) = off + n
  BY <1>3, <1>4, <1>5 DEF PageLength
<1> HIDE DEF all, n
<1>7. ASSUME NEW i \in 1..off + n
      PROVE  all[i] \in S /\ Cardinality(Ahead(S, key, all[i])) = 0 + i - 1
  <2>1. CASE i <= off
    <3>1. i \in 1..off
      BY <1>3, <2>1
    <3> QED BY <1>2, <1>3, <3>1
  <2>2. CASE i > off
    <3>1. i - off \in 1..n /\ i \in off + 1..off + n
      BY <1>3, <2>2
    <3>2. page[i - off] \in S /\ Cardinality(Ahead(S, key, page[i - off])) = off + (i - off) - 1
      BY <1>1, <3>1 DEF n
    <3>3. off + (i - off) - 1 = 0 + i - 1
      BY <1>3, <2>2
    <3> QED BY <1>3, <3>1, <3>2, <3>3
  <2> QED BY <1>3, <2>1, <2>2
<1>8. all \in [1..off + n -> S] /\ DOMAIN all = 1..off + n
  BY <1>3, <1>7
<1>9. all \in Pages(S, key, 0, off + n)
  BY <1>3, <1>6, <1>7, <1>8 DEF Pages
<1> QED BY <1>1, <1>3, <1>9 DEF all, n

\* The first page is a prefix.
LEMMA FirstPage ==
  ASSUME NEW S, NEW key, IsFiniteSet(S), NEW lim \in Nat, NEW page \in Pages(S, key, 0, lim)
  PROVE  /\ page \in Pages(S, key, 0, Len(page))
         /\ Len(page) = PageLength(S, 0, lim)
<1>1. Cardinality(S) \in Nat
  BY FS_CardinalityType
<1>2. Len(page) = PageLength(S, 0, lim)
  BY PageType
<1>3. PageLength(S, 0, Len(page)) = PageLength(S, 0, lim)
  BY <1>1, <1>2 DEF PageLength
<1>4. Len(page) \in Nat
  BY PageType
<1> QED BY <1>2, <1>3, <1>4 DEF Pages

\* Offsets up to the number of wallpapers are not taken for another.
OffsetsFit == MaxWallpapers <= 2 * Half

\* The page that is asked for in steady state is the one that is read.
LEMMA SteadyPage ==
  ASSUME TypeInv, NEW c \in Calls, cfg.MaxPageSize >= PageSize,
         call[c].lim = PageSize, call[c].off < 2 * Half,
         NEW page \in ListFavoritesByUser(favorites, Off(c), Lim(c))
  PROVE  page \in ListFavoritesByUser(favorites, call[c].off, PageSize)
<1>1. Lim(c) = PageSize
  <2>1. cfg.MaxPageSize \in Int
    BY DEF TypeInv
  <2> QED BY <2>1, Scalars DEF Lim, Limit
<1>2. Off(c) >= 0
  <2>1. Off(c) \in Int /\ Lim(c) \in Int
    BY LimType
  <2>2. IsFiniteSet(Favored(favorites))
    BY FavoritesFinite
  <2> QED BY <2>1, <2>2, PageType DEF ListFavoritesByUser
<1>3. call[c].off \in Nat
  BY DEF TypeInv, CallType
<1>4. Off(c) = call[c].off
  <2> DEFINE off == call[c].off
  <2>1. Off(c) = IF off < Half THEN off ELSE off - 2 * Half
    BY DEF Off, Int32
  <2>2. off \in Nat /\ off < 2 * Half
    BY <1>3
  <2> HIDE DEF off
  <2>3. off = Off(c)
    BY <1>2, <2>1, <2>2, Scalars
  <2> QED BY <2>3 DEF off
<1> QED BY <1>1, <1>4

\* Steps of other calls, or of none.
LEMMA PrefixKept ==
  ASSUME PrefixInv, UNCHANGED <<favorites, cfg, currentOffset, hasMore>>, steady' => steady,
         shown'["favorites"] = shown["favorites"],
         \A d \in Calls :
           \/ call'[d] = call[d]
           \/ steady /\ cfg.MaxPageSize >= PageSize =>
                call[d].op \notin FavoriteOps /\ call'[d].op \notin FavoriteOps
  PROVE  PrefixInv'
<1> SUFFICES ASSUME steady', cfg'.MaxPageSize >= PageSize
             PROVE  /\ \A c \in Calls : FavoriteCall(c)'
                    /\ NoPageUnderWay' => PrefixShown'
  BY DEF PrefixInv
<1>1. /\ \A c \in Calls : FavoriteCall(c)
      /\ NoPageUnderWay => PrefixShown
  BY DEF PrefixInv
<1>2. \A d \in Calls : \/ call'[d] = call[d]
                       \/ call[d].op \notin FavoriteOps /\ call'[d].op \notin FavoriteOps
  OBVIOUS
<1>3. ASSUME NEW c \in Calls
      PROVE  FavoriteCall(c)'
  BY <1>1, <1>2 DEF FavoriteCall, IsPrefix
<1>4. NoPageUnderWay' => PrefixShown'
  <2>1. NoPageUnderWay' => NoPageUnderWay
    BY <1>2 DEF NoPageUnderWay, FavoriteOps
  <2> QED BY <1>1, <2>1 DEF PrefixShown, IsPrefix
<1> QED BY <1>3, <1>4

LEMMA PrefixSent ==
  ASSUME PrefixInv, UNCHANGED <<tables, cfg, paging>>, NEW c \in Calls, NEW op, NEW step,
         Sent(c, op, step), op \notin FavoriteOps, shown'["favorites"] = shown["favorites"]
  PROVE  PrefixInv'
<1>1. steady /\ cfg.MaxPageSize >= PageSize => call[c].op \notin FavoriteOps
  BY DEF Sent, PrefixInv, FavoriteCall
<1> QED BY <1>1, PrefixKept DEF Sent, OthersKept, tables, paging

\* The handlers of the favorites.
LEMMA PrefixMoved ==
  ASSUME PrefixInv, UNCHANGED <<tables, cfg, screen>>, NEW c \in Calls, NEW s,
         call[c].op \in FavoriteOps, Moved(c, s),
         s \in {"page", "reply", "failed"},
         steady /\ cfg.MaxPageSize >= PageSize =>
           /\ s \in {"page", "reply"} => call'[c].total = CountFavoritesByUser(favorites)
           /\ s = "reply" =>
                call'[c].items \in ListFavoritesByUser(favorites, call[c].off, PageSize)
  PROVE  PrefixInv'
<1> SUFFICES ASSUME steady, cfg.MaxPageSize >= PageSize
             PROVE  /\ \A d \in Calls : FavoriteCall(d)'
                    /\ NoPageUnderWay' => PrefixShown'
  BY DEF PrefixInv, screen, paging
<1>1. \A d \in Calls : FavoriteCall(d)
  BY DEF PrefixInv
<1>2. /\ UNCHANGED <<favorites, currentOffset, shown>>
      /\ \A d \in Calls : call'[d].op = call[d].op /\ (d # c => call'[d] = call[d])
  BY DEF Moved, OthersKept, tables, screen, paging
<1>3. FavoriteCall(c)'
  BY <1>1, <1>2 DEF FavoriteCall, IsPrefix, Moved
<1>4. ASSUME NEW d \in Calls, d # c
      PROVE  FavoriteCall(d)'
  BY <1>1, <1>2, <1>4 DEF FavoriteCall
<1>5. ~NoPageUnderWay'
  BY <1>2 DEF NoPageUnderWay, FavoriteOps
<1> QED BY <1>3, <1>4, <1>5

LEMMA PrefixServe ==
  ASSUME TypeInv, OffsetsFit, PrefixInv, NEW c \in Calls, Serve(c)
  PROVE  PrefixInv'
<1>1. (UNCHANGED <<tables, cfg, view, screen>>) => UNCHANGED <<favorites, cfg, currentOffset, hasMore, steady, shown>>
  BY DEF tables, screen, paging
<1>2. ASSUME NEW s, Moved(c, s), call[c].op \notin FavoriteOps,
             UNCHANGED <<favorites, cfg, currentOffset, hasMore, steady, shown>>
      PROVE  PrefixInv'
  BY <1>2, PrefixKept DEF Moved, OthersKept
<1>3. ASSUME NEW op, NEW total, NEW pages, op \notin FavoriteOps,
             \/ Count(c, op, total) \/ CountLast(c, op, total)
             \/ Page(c, op, pages) \/ PageFirst(c, op, pages)
      PROVE  PrefixInv'
  <2>1. PICK s : Moved(c, s) /\ call[c].op = op /\ UNCHANGED <<tables, cfg, view, screen>>
    BY <1>3, ServeMoves DEF At
  <2> QED BY <1>1, <1>2, <1>3, <2>1
<1>4. \A op \in Ops \ FavoriteOps : op \notin FavoriteOps
  OBVIOUS
<1>5. {"popular", "recent", "list", "users", "search", "reports", "queue", "content"} \subseteq Ops \ FavoriteOps
  BY DEF Ops, FavoriteOps
<1>6. CASE Popular(c) \/ Recent(c) \/ List(c)
  BY <1>3, <1>5, <1>6 DEF Popular, Recent, List
<1>7. CASE ListAllUsers(c) \/ SearchUsers(c) \/ ListReports(c)
  BY <1>3, <1>5, <1>7 DEF ListAllUsers, SearchUsers, ListReports
<1>8. ASSUME NEW op \in {"load", "more"}, ListByUser(c, op)
      PROVE  PrefixInv'
  <2>1. CASE Count(c, op, CountFavoritesByUser(favorites))
    <3>1. /\ At(c, op, "count") /\ Moved(c, "page")
          /\ call'[c].total = CountFavoritesByUser(favorites)
          /\ UNCHANGED <<tables, cfg, view, screen>>
      BY <2>1, ServeMoves
    <3> QED BY <3>1, PrefixMoved DEF At, FavoriteOps
  <2>2. CASE Page(c, op, ListFavoritesByUser(favorites, Off(c), Lim(c)))
    <3>1. PICK page \in ListFavoritesByUser(favorites, Off(c), Lim(c)) :
            /\ At(c, op, "page") /\ Moved(c, Replies(op, page))
            /\ call'[c].items = page /\ call'[c].total = call[c].total
            /\ UNCHANGED <<tables, cfg, view, screen>>
      BY <2>2, ServeMoves
    <3>2. Replies(op, page) \in {"reply", "failed"}
      BY DEF Replies
    <3>3. call[c].op = op /\ call[c].op \in FavoriteOps
      BY <3>1 DEF At, FavoriteOps
    <3>4. ASSUME steady, cfg.MaxPageSize >= PageSize
          PROVE  /\ call'[c].total = CountFavoritesByUser(favorites)
                 /\ page \in ListFavoritesByUser(favorites, call[c].off, PageSize)
      <4>1. FavoriteCall(c)
        BY <3>4 DEF PrefixInv
      <4>2. /\ call[c].lim = PageSize /\ call[c].total = CountFavoritesByUser(favorites)
            /\ call[c].off = 0 \/ call[c].off < CountFavoritesByUser(favorites)
        BY <3>1, <3>3, <4>1 DEF FavoriteCall, FavoriteOps, At
      <4>3. call[c].off < 2 * Half
        <5>1. call[c].off \in Nat
          BY DEF TypeInv, CallType
        <5>2. Half \in Nat \ {0}
          BY BrowseAssumption
        <5> QED BY <4>2, <5>1, <5>2, FavoritesFinite, Scalars DEF OffsetsFit
      <4>4. page \in ListFavoritesByUser(favorites, call[c].off, PageSize)
        BY <3>4, <4>2, <4>3, SteadyPage
      <4> QED BY <3>1, <4>2, <4>4
    <3> QED BY <3>1, <3>2, <3>3, <3>4, PrefixMoved
  <2> QED BY <1>8, <2>1, <2>2 DEF ListByUser
<1>9. ASSUME NEW op, NEW status, op \notin FavoriteOps, ListOfStatus(c, op, status)
      PROVE  PrefixInv'
  <2>1. PICK s : Moved(c, s) /\ call[c].op = op /\ UNCHANGED <<tables, cfg, view, screen>>
    BY <1>9, ServeMoves
  <2> QED BY <1>1, <1>2, <1>9, <2>1
<1>10. CASE Queue(c) \/ ListWallpapers(c)
  BY <1>5, <1>9, <1>10 DEF Queue, ListWallpapers
<1>11. CASE Get(c) \/ ToggleCheck(c)
  <2>1. PICK s : Moved(c, s) /\ call[c].op \in {"get", "toggle"} /\ UNCHANGED <<tables, cfg, view, screen>>
    BY <1>11, ServeMoves DEF At
  <2> QED BY <1>1, <1>2, <2>1 DEF FavoriteOps
<1>12. CASE ToggleInsert(c) \/ ToggleDelete(c)
  <2>1. steady' = FALSE \/ (call' = [call EXCEPT ![c].step = "failed"] /\ UNCHANGED <<favorites, steady>>)
    BY <1>12 DEF ToggleInsert, ToggleDelete, FavoritesChange
  <2>2. call[c].op = "toggle" /\ UNCHANGED <<cfg, currentOffset, hasMore, shown>>
    BY <1>12 DEF ToggleInsert, ToggleDelete, At
  <2>3. CASE steady' = FALSE
    BY <2>3 DEF PrefixInv
  <2>4. CASE call' = [call EXCEPT ![c].step = "failed"] /\ UNCHANGED <<favorites, steady>>
    <3>1. Moved(c, "failed")
      BY <2>4, Moves
    <3> QED BY <1>2, <2>2, <2>4, <3>1 DEF FavoriteOps
  <2> QED BY <2>1, <2>3, <2>4
<1>13. CASE ReportCreate(c)
  <2>1. /\ Moved(c, "reply") /\ call[c].op = "report"
        /\ UNCHANGED <<favorites, cfg, currentOffset, hasMore, steady, shown>>
    BY <1>13, ServeMoves DEF At, ReportCreate, screen, paging
  <2> QED BY <1>2, <2>1 DEF FavoriteOps
<1>14. CASE Dismiss(c)
  <2>1. UNCHANGED <<favorites, cfg, currentOffset, hasMore, steady, shown>> /\ call[c].op = "dismiss"
    BY <1>14 DEF Dismiss, screen, paging, At
  <2>2. \A d \in Calls :
          /\ call'[d].op = call[d].op /\ call'[d].from = call[d].from
          /\ d # c => call'[d].step = call[d].step
          /\ call'[d].off = call[d].off /\ call'[d].lim = call[d].lim
          /\ call'[d].items = call[d].items /\ call'[d].total = call[d].total
    BY <1>14, DismissMoves
  <2> SUFFICES ASSUME steady, cfg.MaxPageSize >= PageSize
               PROVE  /\ \A d \in Calls : FavoriteCall(d)'
                      /\ NoPageUnderWay' => PrefixShown'
    BY <2>1 DEF PrefixInv
  <2>3. ASSUME NEW d \in Calls
        PROVE  FavoriteCall(d)'
    <3>1. FavoriteCall(d) /\ (call[d].op \in FavoriteOps => d # c)
      BY <2>1 DEF PrefixInv, FavoriteOps
    <3> QED BY <2>1, <2>2, <3>1 DEF FavoriteCall, IsPrefix
  <2>4. NoPageUnderWay' => PrefixShown'
    <3>1. NoPageUnderWay' => NoPageUnderWay
      BY <2>2 DEF NoPageUnderWay
    <3> QED BY <2>1, <3>1 DEF PrefixInv, PrefixShown, IsPrefix
  <2> QED BY <2>3, <2>4
<1>15. CASE Fails(c)
  <2>1. Moved(c, "failed") /\ UNCHANGED <<tables, cfg, view, screen>>
    BY <1>15, ServeMoves
  <2>2. CASE call[c].op \in FavoriteOps
    BY <2>1, <2>2, PrefixMoved
  <2> QED BY <1>1, <1>2, <2>1, <2>2
<1> QED
  BY <1>6, <1>7, <1>8, <1>10, <1>11, <1>12, <1>13, <1>14, <1>15 DEF Serve

\* What the favorites view sends, from the view.
LEMMA FavoritesAsked ==
  ASSUME TypeInv, NEW c \in Calls
  PROVE  /\ LoadFavorites(c) => call'[c].from = "view"
         /\ LoadMore(c) => call'[c].from = "view"
<1>1. {"load", "more"} \subseteq Ops /\ "count" \in Steps
  BY DEF Ops, Steps
<1>2. ASSUME LoadFavorites(c)
      PROVE  call'[c].from = "view"
  <2> DEFINE r == Request("load", "count")
  <2>1. IsRequest(r, "load", "count") /\ call'[c] = r
    BY <1>1, <1>2, Requests, Sends DEF LoadFavorites
  <2> QED BY <2>1 DEF IsRequest
<1>3. ASSUME LoadMore(c)
      PROVE  call'[c].from = "view"
  <2> DEFINE r == Request("more", "count")
  <2>1. IsRequest(r, "more", "count")
    BY <1>1, Requests
  <2>2. call'[c] = [r EXCEPT !.off = currentOffset + PageSize]
    BY <1>3, Sends DEF LoadMore
  <2> HIDE DEF r
  <2> QED BY <2>1, <2>2 DEF IsRequest, CallType
<1> QED BY <1>2, <1>3

LEMMA PrefixClick ==
  ASSUME TypeInv, PrefixInv, NEW c \in Calls, Click(c)
  PROVE  PrefixInv'
<1>1. CASE LoadFavorites(c)
  <2>1. /\ Sent(c, "load", "count") /\ call'[c].off = 0 /\ call'[c].lim = PageSize
        /\ call'[c].from = "view" /\ currentOffset' = 0 /\ steady' = NoPageUnderWay
    BY <1>1, ClickSends, FavoritesAsked DEF LoadFavorites
  <2> SUFFICES ASSUME NoPageUnderWay
               PROVE  /\ \A d \in Calls : FavoriteCall(d)'
                      /\ ~NoPageUnderWay'
    BY <2>1 DEF PrefixInv
  <2>2. \A d \in Calls : call'[d].op \in FavoriteOps => d = c
    BY <2>1 DEF NoPageUnderWay, FavoriteOps, Sent, OthersKept
  <2>3. FavoriteCall(c)'
    BY <2>1, <2>2 DEF FavoriteCall, Sent, FavoriteOps
  <2>4. ASSUME NEW d \in Calls, d # c
        PROVE  FavoriteCall(d)'
    BY <2>2, <2>4 DEF FavoriteCall
  <2>5. ~NoPageUnderWay'
    BY <2>1 DEF NoPageUnderWay, Sent
  <2> QED BY <2>3, <2>4, <2>5
<1>2. CASE LoadMore(c)
  <2>1. /\ Sent(c, "more", "count")
        /\ call'[c].off = currentOffset + PageSize /\ call'[c].lim = PageSize
        /\ call'[c].from = "view" /\ currentOffset' = currentOffset + PageSize
        /\ steady' = (steady /\ NoPageUnderWay) /\ hasMore
        /\ UNCHANGED <<favorites, cfg, shown>>
    BY <1>2, ClickSends, FavoritesAsked DEF LoadMore, tables
  <2> SUFFICES ASSUME NoPageUnderWay, steady, cfg.MaxPageSize >= PageSize
               PROVE  /\ \A d \in Calls : FavoriteCall(d)'
                      /\ ~NoPageUnderWay'
    BY <2>1 DEF PrefixInv
  <2>2. \A d \in Calls : call'[d].op \in FavoriteOps => d = c
    BY <2>1 DEF NoPageUnderWay, FavoriteOps, Sent, OthersKept
  <2>3. /\ IsPrefix(shown.favorites, Len(shown.favorites))
        /\ Len(shown.favorites) < CountFavoritesByUser(favorites)
        /\ Len(shown.favorites) = currentOffset + PageSize
    BY <2>1 DEF PrefixInv, PrefixShown
  <2>4. /\ call'[c].off < CountFavoritesByUser(favorites)
        /\ IsPrefix(shown.favorites, call'[c].off)
    BY <2>1, <2>3
  <2>5. FavoriteCall(c)'
    BY <2>1, <2>2, <2>4 DEF FavoriteCall, Sent, FavoriteOps, IsPrefix
  <2>6. ASSUME NEW d \in Calls, d # c
        PROVE  FavoriteCall(d)'
    BY <2>2, <2>6 DEF FavoriteCall
  <2>7. ~NoPageUnderWay'
    BY <2>1 DEF NoPageUnderWay, Sent
  <2> QED BY <2>5, <2>6, <2>7
<1>3. CASE ~LoadFavorites(c) /\ ~LoadMore(c)
  <2>1. UNCHANGED <<tables, cfg, paging>> /\ shown' = shown
    BY <1>3 DEF Click, LoadHome, SelectCategory, Search, FetchDetail, Toggle, SubmitReport, LoadAdmin,
                DismissShown, screen
  <2>2. ASSUME NEW op \in {"queue", "users", "reports"}, LoadAdmin(c, op)
        PROVE  Sent(c, op, "page")
    BY <2>2, ClickSends
  <2>3. \/ Sent(c, "popular", "count") \/ Sent(c, "list", "count") \/ Sent(c, "get", "get")
        \/ Sent(c, "toggle", "check") \/ Sent(c, "report", "write") \/ Sent(c, "dismiss", "write")
        \/ \E op \in {"queue", "users", "reports"} : Sent(c, op, "page")
    BY <1>3, <2>2, ClickSends DEF Click
  <2> QED BY <2>1, <2>3, PrefixSent DEF FavoriteOps
<1> QED BY <1>1, <1>2, <1>3

\* A page of favorites has arrived, and nothing else is under way.
LEMMA PageArrived ==
  ASSUME TypeInv, PrefixInv, NEW c \in Calls, call[c].op \in FavoriteOps, Ends(c),
         UNCHANGED <<favorites, cfg>>, steady' => steady,
         steady /\ cfg.MaxPageSize >= PageSize => PrefixShown'
  PROVE  PrefixInv'
<1> SUFFICES ASSUME steady, cfg.MaxPageSize >= PageSize
             PROVE  \A d \in Calls : FavoriteCall(d)'
  BY DEF PrefixInv
<1>1. FavoriteCall(c)
  BY DEF PrefixInv
<1>2. OthersKept(c) /\ call'[c].op = "none"
  BY EndsCall, IdleType
<1>3. \A d \in Calls : call'[d].op \notin FavoriteOps
  BY <1>1, <1>2 DEF FavoriteCall, OthersKept, FavoriteOps
<1> QED BY <1>3 DEF FavoriteCall

LEMMA PrefixAnswered ==
  ASSUME TypeInv, PrefixInv, NEW c \in Calls, Answered(c)
  PROVE  PrefixInv'
<1> DEFINE F == Favored(favorites)
           N == CountFavoritesByUser(favorites)
<1>1. IsFiniteSet(F) /\ N = Cardinality(F) /\ N \in Nat /\ PageSize \in Nat /\ PageSize > 0
  BY FavoritesFinite, Scalars DEF CountFavoritesByUser
<1>2. CASE FavoritesArrive(c)
  <2>1. /\ call[c].op = "load" /\ call[c].step = "reply" /\ Ends(c)
        /\ shown' = [shown EXCEPT !["favorites"] = call[c].items]
        /\ hasMore' = (call[c].off + Len(call[c].items) < call[c].total)
        /\ UNCHANGED <<favorites, cfg, currentOffset, steady>>
    BY <1>2 DEF FavoritesArrive, Arrives, At, tables
  <2>2. shown'["favorites"] = call[c].items
    BY <2>1 DEF TypeInv, ShownInv, Lists
  <2>3. ASSUME steady, cfg.MaxPageSize >= PageSize
        PROVE  PrefixShown'
    <3> DEFINE items == call[c].items
    <3>1. FavoriteCall(c) /\ call[c].op \in FavoriteOps
      BY <2>1, <2>3 DEF PrefixInv, FavoriteOps
    <3>2. /\ call[c].off = 0 /\ currentOffset = 0 /\ call[c].total = N
          /\ items \in Pages(F, favorites, 0, PageSize)
      BY <2>1, <3>1 DEF FavoriteCall, ListFavoritesByUser
    <3> HIDE DEF items
    <3>3. items \in Pages(F, favorites, 0, Len(items)) /\ Len(items) = PageLength(F, 0, PageSize)
      BY <1>1, <3>2, FirstPage
    <3>4. Len(items) < N => Len(items) = PageSize
      BY <1>1, <3>3 DEF PageLength
    <3>5. Len(items) \in Nat
      BY <1>1, <3>3 DEF PageLength
    <3>6. hasMore' = (Len(items) < N)
      BY <2>1, <3>2, <3>5 DEF items
    <3>7. currentOffset' + PageSize = PageSize
      BY <1>1, <2>1, <3>2
    <3>8. shown'.favorites = items
      BY <2>2 DEF items
    <3> QED BY <2>1, <3>3, <3>4, <3>6, <3>7, <3>8 DEF PrefixShown, IsPrefix, ListFavoritesByUser
  <2> QED BY <2>1, <2>3, PageArrived DEF FavoriteOps
<1>3. CASE MoreArrives(c)
  <2>1. /\ call[c].op = "more" /\ call[c].step = "reply" /\ Ends(c)
        /\ shown' = [shown EXCEPT !["favorites"] = shown["favorites"] \o call[c].items]
        /\ hasMore' = (currentOffset + Len(call[c].items) < call[c].total)
        /\ UNCHANGED <<favorites, cfg, currentOffset, steady>>
    BY <1>3 DEF MoreArrives, Arrives, At, tables
  <2>2. shown'["favorites"] = shown["favorites"] \o call[c].items
    BY <2>1 DEF TypeInv, ShownInv, Lists
  <2>3. ASSUME steady, cfg.MaxPageSize >= PageSize
        PROVE  PrefixShown'
    <3> DEFINE items == call[c].items
               list == shown.favorites
               off == call[c].off
    <3>1. FavoriteCall(c) /\ call[c].op \in FavoriteOps
      BY <2>1, <2>3 DEF PrefixInv, FavoriteOps
    <3>2. /\ off = currentOffset /\ off < N /\ Len(list) = off /\ call[c].total = N
          /\ list \in Pages(F, favorites, 0, off)
          /\ items \in Pages(F, favorites, off, PageSize)
      BY <2>1, <3>1 DEF FavoriteCall, ListFavoritesByUser, IsPrefix
    <3>3. off \in Nat
      BY DEF TypeInv, CallType
    <3> DEFINE all == list \o items
               n == Len(items)
    <3>4. shown'.favorites = all /\ hasMore' = (off + n < N) /\ currentOffset' = off
      BY <2>1, <2>2, <3>2
    <3> HIDE DEF items, list, off
    <3>a. off <= Cardinality(F)
      BY <1>1, <3>2, <3>3
    <3>5. /\ all \in Pages(F, favorites, 0, off + n) /\ Len(all) = off + n
          /\ n = PageLength(F, off, PageSize)
      <4> HIDE DEF F, N
      <4>1. IsFiniteSet(F) /\ PageSize \in Nat
        BY <1>1
      <4>2. items \in Pages(F, favorites, off, PageSize)
        BY <3>2
      <4>3. list \in Pages(F, favorites, 0, off) /\ Len(list) = off
        BY <3>2
      <4> QED BY <4>1, <4>2, <4>3, <3>3, <3>a, PrefixPages
    <3>6. n \in Nat
      BY <1>1, <3>3, <3>5 DEF PageLength
    <3> HIDE DEF all, n
    <3>7. off + n < N => off + n = off + PageSize
      BY <1>1, <3>3, <3>5, <3>6 DEF PageLength
    <3> QED BY <2>1, <3>4, <3>5, <3>7 DEF PrefixShown, IsPrefix, ListFavoritesByUser
  <2> QED BY <2>1, <2>3, PageArrived DEF FavoriteOps
<1>4. ASSUME call[c].op \notin FavoriteOps, Ends(c), UNCHANGED <<favorites, cfg, currentOffset, hasMore>>,
             steady' => steady, shown'["favorites"] = shown["favorites"]
      PROVE  PrefixInv'
  <2>1. OthersKept(c) /\ call'[c].op = "none"
    BY <1>4, EndsCall, IdleType
  <2> QED BY <1>4, <2>1, PrefixKept DEF OthersKept, FavoriteOps
<1>5. CASE Over(c)
  <2>1. /\ Ends(c) /\ UNCHANGED <<favorites, cfg, currentOffset, hasMore, shown>>
        /\ steady' => steady /\ (call[c].op \in FavoriteOps => call[c].step # "failed")
    BY <1>5 DEF Over, tables, FavoriteOps
  <2>2. CASE call[c].op \in FavoriteOps
    <3> SUFFICES ASSUME steady', cfg'.MaxPageSize >= PageSize PROVE FALSE
      BY DEF PrefixInv
    <3>1. FavoriteCall(c)
      BY <2>1 DEF PrefixInv
    <3>2. call[c].step \in {"count", "page", "reply"} /\ call[c].from = "view"
      BY <2>1, <2>2, <3>1 DEF FavoriteCall
    <3> QED BY <1>5, <2>2, <3>2 DEF Over, FavoriteOps
  <2>3. CASE call[c].op \notin FavoriteOps
    BY <1>4, <2>1, <2>3
  <2> QED BY <2>2, <2>3
<1>6. CASE PopularArrives(c)
  <2>1. /\ call[c].op = "popular" /\ OthersKept(c) /\ call'[c].op = "recent"
        /\ UNCHANGED <<tables, cfg, view, screen>>
    BY <1>6, EndsCall DEF At
  <2> QED BY <2>1, PrefixKept DEF OthersKept, FavoriteOps, tables, screen, paging
<1>7. ASSUME NEW op, RecentArrives(c) \/ ResultsArrive(c) \/ ToggleArrives(c)
                       \/ AdminArrives(c, op) \/ DismissArrives(c)
      PROVE  PrefixInv'
  <2>1. call[c].op \notin FavoriteOps
    BY <1>7 DEF RecentArrives, ResultsArrive, ToggleArrives, AdminArrives, DismissArrives, Arrives, At,
                FavoriteOps
  <2>2. Ends(c) /\ UNCHANGED <<favorites, cfg, currentOffset, hasMore, steady>>
    BY <1>7 DEF RecentArrives, ResultsArrive, ToggleArrives, AdminArrives, DismissArrives, tables, paging
  <2>3. shown'["favorites"] = shown["favorites"]
    <3>1. DOMAIN shown = Lists /\ "favorites" \in Lists
      BY DEF TypeInv, ShownInv, Lists
    <3>2. CASE ToggleArrives(c)
      BY <3>2 DEF ToggleArrives
    <3>3. CASE RecentArrives(c)
      BY <3>1, <3>3 DEF RecentArrives
    <3>4. CASE ResultsArrive(c)
      BY <3>1, <3>4 DEF ResultsArrive
    <3>5. CASE AdminArrives(c, op)
      BY <3>1, <3>5 DEF AdminArrives
    <3>6. CASE DismissArrives(c)
      BY <3>1, <3>6 DEF DismissArrives
    <3> QED BY <1>7, <3>2, <3>3, <3>4, <3>5, <3>6
  <2> QED BY <1>4, <2>1, <2>2, <2>3
<1> QED BY <1>2, <1>3, <1>5, <1>6, <1>7 DEF Answered

LEMMA PrefixStep == OffsetsFit /\ TypeInv /\ PrefixInv /\ [Next]_vars => PrefixInv'
<1> SUFFICES ASSUME OffsetsFit, TypeInv, PrefixInv, [Next]_vars PROVE PrefixInv'
  OBVIOUS
<1>1. ASSUME UNCHANGED <<favorites, cfg, paging, call>>, shown'["favorites"] = shown["favorites"]
      PROVE  PrefixInv'
  BY <1>1, PrefixKept DEF paging
<1>2. ASSUME NEW c \in Calls, NEW w, ToggleElsewhere(c, w)
      PROVE  PrefixInv'
  <2>1. Sent(c, "toggle", "check")
    BY <1>2, ClickSends
  <2>2. UNCHANGED <<tables, cfg, paging, shown>>
    BY <1>2 DEF ToggleElsewhere, screen
  <2> QED BY <2>1, <2>2, PrefixSent DEF FavoriteOps
<1>3. ASSUME NEW c \in Calls, NEW op \in {"users", "search", "reports", "content"},
             NEW query, NEW off, AskElsewhere(c, op, query, off)
      PROVE  PrefixInv'
  <2>1. Sent(c, op, "page")
    BY <1>3, ClickSends
  <2>2. UNCHANGED <<tables, cfg, paging, shown>>
    BY <1>3 DEF AskElsewhere, screen
  <2> QED BY <2>1, <2>2, PrefixSent DEF FavoriteOps
<1>4. ASSUME NEW w, NEW title, NEW category, NEW status, NEW email,
             \/ Create(title, category) \/ Finalize(w) \/ Approve(w) \/ Reject(w)
             \/ Download(w) \/ Withdraw(w, status) \/ EditWallpaper(w, title, category)
             \/ Register(email)
      PROVE  PrefixInv'
  BY <1>1, <1>4
     DEF Create, Finalize, Approve, Reject, Download, Withdraw, EditWallpaper, Register, Changes, screen
<1>5. CASE Others
  BY <1>2, <1>3, <1>4, <1>5 DEF Others
<1>6. CASE ClearCategory
  <2>1. shown'["favorites"] = shown["favorites"]
    BY <1>6 DEF ClearCategory, TypeInv, ShownInv, Lists
  <2> QED BY <1>1, <1>6, <2>1 DEF ClearCategory, tables
<1>7. CASE UNCHANGED vars
  BY <1>1, <1>7 DEF vars, tables, screen
<1>8. ASSUME NEW text, Type(text)
      PROVE  PrefixInv'
  BY <1>1, <1>8 DEF Type, tables
<1> QED BY <1>5, <1>6, <1>7, <1>8, PrefixServe, PrefixClick, PrefixAnswered DEF Next

\* Favorites loaded page after page are a prefix of all, and the view knows
\* whether there are more, as long as an offset fits the integer of 32 bits that
\* the query takes (FavoritesViewModel.swift:23-48).
THEOREM ShownIsAlwaysPrefix ==
  ASSUME OffsetsFit
  PROVE  Spec => []ShownIsPrefix
<1>1. Init => PrefixInv
  BY DEF Init, PrefixInv
<1>2. PrefixInv => ShownIsPrefix
  BY DEF PrefixInv, PrefixShown, IsPrefix, ShownIsPrefix
<1>3. TypeInv /\ PrefixInv /\ [Next]_vars => PrefixInv'
  BY PrefixStep
<1> QED BY <1>1, <1>2, <1>3, TypeInit, TypeStep, PTL DEF Spec

=============================================================================
