--------------------------- MODULE Browse_proofs ---------------------------
(***************************************************************************)
(* Proofs about Browse, for any tables, page sizes, configurations and     *)
(* offsets, any number of calls under way, and behaviours of any length.   *)
(***************************************************************************)
EXTENDS Browse, FiniteSetTheorems, TLAPS

-----------------------------------------------------------------------------
(* Types.                                                                  *)

ShownInv ==
  /\ shown = [list \in Lists |-> shown[list]]
  /\ \A list \in Lists : shown[list] \in Seq(Nat)

\* TypeOK without the flags, and what Validate sees to.
TypeInv ==
  /\ wallpapers \in Seq(WallpaperRow(Categories \cup {NoCategory}, Titles))
  /\ users \in Seq(Emails)
  /\ reports \in Seq([wallpaper : Nat, status : {"pending", "dismissed"}])
  /\ favorites \in [Wallpapers -> Nat]
  /\ cfg \in [DefaultPageSize : Int, MaxPageSize : Int]
  /\ cfg.DefaultPageSize <= cfg.MaxPageSize
  /\ call \in [Calls -> CallType]
  /\ ShownInv
  /\ selectedCategory \in Categories \cup {NotGiven} /\ searchQuery \in Titles
  /\ currentOffset \in Nat
  /\ asked \in Question /\ answered \in Question /\ since \in Nat
  /\ edited \subseteq Nat /\ withdrawn \subseteq Nat
  /\ version \in Nat /\ heartAt \in Nat

LEMMA Scalars ==
  /\ MaxWallpapers \in Nat /\ MaxWallpapers > 0
  /\ PageSize \in Nat /\ PageSize > 0 /\ Half \in Nat
  /\ StdDefault \in Int /\ StdMax \in Int
<1>1. /\ MaxWallpapers \in Nat \ {0} /\ PageSize \in Nat \ {0} /\ Half \in Nat \ {0}
      /\ StdDefault \in Nat /\ StdMax \in Nat
  BY BrowseAssumption
<1> QED BY <1>1

LEMMA IdleType ==
  /\ Idle \in CallType
  /\ Idle.op = "none" /\ Idle.step = "idle"
<1>1. "none" \in Ops /\ "idle" \in Steps
  BY DEF Ops, Steps
<1>2. PageSize \in Nat
  BY BrowseAssumption
<1>3. <<>> \in Seq(Nat)
  OBVIOUS
<1> QED BY <1>1, <1>2, <1>3 DEF Idle, CallType, Texts

LEMMA RequestType ==
  ASSUME NEW op \in Ops, NEW step \in Steps
  PROVE  LET r == Request(op, step) IN
         /\ r \in CallType
         /\ r.op = op /\ r.step = step /\ r.from = "view" /\ r.id = 1
         /\ r.items = <<>> /\ r.popular = <<>> /\ r.left = 0
         /\ r.off = 0 /\ r.lim = PageSize /\ r.category = NotGiven /\ r.query = NotGiven
<1>1. "none" \in Ops /\ "idle" \in Steps
  BY DEF Ops, Steps
<1>2. PageSize \in Nat
  BY BrowseAssumption
<1>3. <<>> \in Seq(Nat)
  OBVIOUS
<1> QED BY <1>1, <1>2, <1>3 DEF Request, Idle, CallType, Texts

\* A page is a sequence of its length.
LEMMA PageType ==
  ASSUME NEW S, NEW key, NEW off \in Int, NEW lim \in Int, IsFiniteSet(S),
         NEW page \in Pages(S, key, off, lim)
  PROVE  /\ page \in Seq(S) /\ Len(page) = PageLength(S, off, lim)
         /\ DOMAIN page = 1..Len(page)
         /\ \A i \in DOMAIN page : page[i] \in S /\ Cardinality(Ahead(S, key, page[i])) = off + i - 1
         /\ off >= 0 /\ lim >= 0
<1>1. off >= 0 /\ lim >= 0
  BY DEF Pages
<1>2. Cardinality(S) \in Nat
  BY FS_CardinalityType
<1>3. PageLength(S, off, lim) \in Nat
  BY <1>1, <1>2 DEF PageLength
<1>4. page \in [1..PageLength(S, off, lim) -> S]
  BY <1>1 DEF Pages
<1>5. page \in Seq(S)
  BY <1>3, <1>4
<1> QED BY <1>1, <1>3, <1>4, <1>5 DEF Pages

LEMMA TypeInit == Init => TypeInv
<1> SUFFICES ASSUME Init PROVE TypeInv
  OBVIOUS
<1>1. PICK t \in Tables : /\ wallpapers = t.wallpapers /\ users = t.users
                          /\ reports = t.reports /\ favorites = t.favorites
  BY DEF Init
<1>2. PICK env \in Envs : cfg = Load(env) /\ Validate(Load(env))
  BY DEF Init
<1>3. /\ cfg \in [DefaultPageSize : Int, MaxPageSize : Int]
      /\ cfg.DefaultPageSize <= cfg.MaxPageSize
  <2> DEFINE d == EnvInt(env.default, StdDefault)
             x == EnvInt(env.max, StdMax)
  <2>1. d \in Int /\ x \in Int
    <3>1. StdDefault \in Int /\ StdMax \in Int
      BY Scalars
    <3>2. env.default \in Int \cup {Unset} /\ env.max \in Int \cup {Unset}
      BY EnvsAssumption
    <3> QED BY <3>1, <3>2 DEF EnvInt
  <2>2. cfg = [DefaultPageSize |-> d, MaxPageSize |-> x]
    BY <1>2 DEF Load
  <2> HIDE DEF d, x
  <2> QED BY <1>2, <2>1, <2>2 DEF Validate
<1>4. /\ wallpapers \in Seq(WallpaperRow(Categories \cup {NoCategory}, Titles))
      /\ users \in Seq(Emails)
      /\ reports \in Seq([wallpaper : Nat, status : {"pending", "dismissed"}])
      /\ favorites \in [Wallpapers -> Nat]
  <2>1. /\ t.wallpapers \in Seq(WallpaperRow(Categories \cup {NoCategory}, Titles))
        /\ t.users \in Seq(Emails)
        /\ t.reports \in Seq([wallpaper : Nat, status : {"pending", "dismissed"}])
        /\ t.favorites \in [Wallpapers -> 0..MaxWallpapers]
    BY TablesAssumption
  <2>2. 0..MaxWallpapers \subseteq Nat
    OBVIOUS
  <2> QED BY <1>1, <2>1, <2>2
<1>5. call \in [Calls -> CallType]
  BY IdleType DEF Init
<1>6. shown = [list \in Lists |-> <<>>]
  BY DEF Init
<1>7. ShownInv
  <2>1. <<>> \in Seq(Nat)
    OBVIOUS
  <2> QED BY <1>6, <2>1 DEF ShownInv
<1>8. /\ selectedCategory = NotGiven /\ searchQuery = "" /\ currentOffset = 0
      /\ asked = NothingAsked /\ answered = NothingAsked /\ since = 0
      /\ edited = {} /\ withdrawn = {}
      /\ version = MaxWallpapers /\ heartAt = 0
  BY DEF Init
<1>9. MaxWallpapers \in Nat /\ "" \in Titles
  BY BrowseAssumption
<1>10. NothingAsked \in Question
  BY DEF NothingAsked, Question, Texts
<1> QED BY <1>3, <1>4, <1>5, <1>7, <1>8, <1>9, <1>10 DEF TypeInv

\* A step that changes calls only.
LEMMA TypeKept ==
  ASSUME TypeInv, UNCHANGED <<tables, cfg, screen>>, call' \in [Calls -> CallType]
  PROVE  TypeInv'
BY DEF TypeInv, ShownInv, tables, screen, explore, paging, heart

\* Calls that are sent, answered in part, or ended have their type.
LEMMA CallTypeKept ==
  ASSUME TypeInv, NEW c \in Calls
  PROVE  /\ \A r \in CallType :
              call' = [call EXCEPT ![c] = r] => call' \in [Calls -> CallType]
         /\ \A s \in Steps :
              call' = [call EXCEPT ![c].step = s] => call' \in [Calls -> CallType]
         /\ \A s \in Steps, n \in Nat :
              /\ call' = [call EXCEPT ![c].step = s, ![c].total = n] => call' \in [Calls -> CallType]
              /\ call' = [call EXCEPT ![c].step = s, ![c].result = TRUE, ![c].nr = n]
                   => call' \in [Calls -> CallType]
              /\ call' = [call EXCEPT ![c].step = s, ![c].result = FALSE, ![c].nr = n]
                   => call' \in [Calls -> CallType]
         /\ \A s \in Steps, page \in Seq(Nat) :
              call' = [call EXCEPT ![c].step = s, ![c].items = page] => call' \in [Calls -> CallType]
<1>1. call \in [Calls -> CallType] /\ call[c] \in CallType
  BY DEF TypeInv
<1>2. ASSUME NEW r \in CallType
      PROVE  call' = [call EXCEPT ![c] = r] => call' \in [Calls -> CallType]
  BY <1>1, <1>2
<1>3. ASSUME NEW s \in Steps, call' = [call EXCEPT ![c].step = s]
      PROVE  call' \in [Calls -> CallType]
  BY <1>1, <1>3 DEF CallType
<1>4. ASSUME NEW s \in Steps, NEW n \in Nat, call' = [call EXCEPT ![c].step = s, ![c].total = n]
      PROVE  call' \in [Calls -> CallType]
  BY <1>1, <1>4 DEF CallType
<1>5. ASSUME NEW s \in Steps, NEW n \in Nat, NEW b \in BOOLEAN,
             call' = [call EXCEPT ![c].step = s, ![c].result = b, ![c].nr = n]
      PROVE  call' \in [Calls -> CallType]
  BY <1>1, <1>5 DEF CallType
<1>6. ASSUME NEW s \in Steps, NEW page \in Seq(Nat),
             call' = [call EXCEPT ![c].step = s, ![c].items = page]
      PROVE  call' \in [Calls -> CallType]
  BY <1>1, <1>6 DEF CallType
<1> QED BY <1>2, <1>3, <1>4, <1>5, <1>6

\* Changing an element.
LEMMA SeqExcept ==
  ASSUME NEW T, NEW s \in Seq(T), NEW i, NEW v, i \in DOMAIN s => v \in T
  PROVE  LET q == [s EXCEPT ![i] = v] IN
         q \in Seq(T) /\ Len(q) = Len(s) /\ DOMAIN q = DOMAIN s
<1> DEFINE q == [s EXCEPT ![i] = v]
<1>1. Len(s) \in Nat /\ DOMAIN s = 1..Len(s) /\ \A k \in 1..Len(s) : s[k] \in T
  OBVIOUS
<1>2. q \in [1..Len(s) -> T]
  BY <1>1
<1> QED BY <1>1, <1>2

\* The sets that queries order and count are finite, and their pages are
\* sequences of numbers.
LEMMA Finite ==
  ASSUME NEW table, NEW T, table \in Seq(T), NEW S, S \subseteq DOMAIN table
  PROVE  /\ IsFiniteSet(S) /\ Cardinality(S) \in Nat /\ S \subseteq Nat
         /\ IsFiniteSet(DOMAIN table)
<1>1. DOMAIN table = 1..Len(table) /\ Len(table) \in Nat
  OBVIOUS
<1>2. IsFiniteSet(DOMAIN table)
  BY <1>1, FS_Interval
<1>3. IsFiniteSet(S)
  BY <1>2, FS_Subset
<1> QED BY <1>1, <1>2, <1>3, FS_CardinalityType

LEMMA LimType ==
  ASSUME TypeInv, NEW c \in Calls
  PROVE  /\ Off(c) \in Int /\ Lim(c) \in Int /\ Lim(c) <= cfg.MaxPageSize
         /\ call[c].off < Half => Off(c) = call[c].off
<1>1. call[c].off \in Nat /\ call[c].lim \in Nat
  BY DEF TypeInv, CallType
<1>2. cfg.DefaultPageSize \in Int /\ cfg.MaxPageSize \in Int /\ cfg.DefaultPageSize <= cfg.MaxPageSize
  BY DEF TypeInv
<1>3. Off(c) \in Int /\ (call[c].off < Half => Off(c) = call[c].off)
  BY <1>1, Scalars DEF Off, Int32
<1>4. ASSUME NEW lim \in Nat
      PROVE  Limit(lim) \in Int /\ Limit(lim) <= cfg.MaxPageSize
  BY <1>2 DEF Limit
<1> QED BY <1>1, <1>3, <1>4 DEF Lim

\* Pages of wallpapers, reports and users, and of favorites.
LEMMA PageOfTable ==
  ASSUME NEW table, NEW T, table \in Seq(T), NEW S, S \subseteq DOMAIN table,
         NEW key, NEW off \in Int, NEW lim \in Int, NEW page \in Pages(S, key, off, lim)
  PROVE  page \in Seq(Nat) /\ page \in Seq(S)
<1>1. IsFiniteSet(S) /\ S \subseteq Nat
  BY Finite
<1>2. page \in Seq(S)
  BY <1>1, PageType
<1> QED BY <1>1, <1>2

LEMMA PageOfFavorites ==
  ASSUME TypeInv, NEW off \in Int, NEW lim \in Int,
         NEW page \in ListFavoritesByUser(favorites, off, lim)
  PROVE  page \in Seq(Nat)
<1>1. Favored(favorites) \subseteq 1..MaxWallpapers
  BY DEF Favored, TypeInv, Wallpapers
<1>2. IsFiniteSet(1..MaxWallpapers)
  BY Scalars, FS_Interval
<1>3. IsFiniteSet(Favored(favorites)) /\ Favored(favorites) \subseteq Nat
  <2>1. Favored(favorites) \subseteq Nat
    BY <1>1
  <2> QED BY <1>1, <1>2, <2>1, FS_Subset
<1>4. page \in Seq(Favored(favorites))
  BY <1>3, PageType DEF ListFavoritesByUser
<1> QED BY <1>3, <1>4

\* Answers of the queries of the lists.
LEMMA AnswerType ==
  ASSUME TypeInv, NEW c \in Calls
  PROVE  /\ \A status, category, query :
              /\ CountWallpapers(wallpapers, status, category, query) \in Nat
              /\ \A page \in ListWallpapersPopular(wallpapers, status, category, query, Off(c), Lim(c))
                       \cup ListWallpapersRecent(wallpapers, status, category, query, Off(c), Lim(c)) :
                   page \in Seq(Nat) /\ page \in Seq(Matching(wallpapers, status, category, query))
         /\ \A query : /\ CountUsersWithSearch(users, query) \in Nat
                       /\ \A page \in ListUsersWithSearch(users, query, Off(c), Lim(c)) : page \in Seq(Nat)
         /\ CountUsers(users) \in Nat
         /\ \A page \in ListUsers(users, Off(c), Lim(c)) : page \in Seq(Nat)
         /\ CountPendingReports(reports) \in Nat
         /\ \A page \in ListPendingReports(reports, Off(c), Lim(c)) : page \in Seq(Nat)
         /\ CountFavoritesByUser(favorites) \in Nat
         /\ \A page \in ListFavoritesByUser(favorites, Off(c), Lim(c)) : page \in Seq(Nat)
<1>1. Off(c) \in Int /\ Lim(c) \in Int
  BY LimType
<1>2. ASSUME NEW status, NEW category, NEW query
      PROVE  /\ CountWallpapers(wallpapers, status, category, query) \in Nat
             /\ \A page \in ListWallpapersPopular(wallpapers, status, category, query, Off(c), Lim(c))
                      \cup ListWallpapersRecent(wallpapers, status, category, query, Off(c), Lim(c)) :
                  page \in Seq(Nat) /\ page \in Seq(Matching(wallpapers, status, category, query))
  <2>1. wallpapers \in Seq(WallpaperRow(Categories \cup {NoCategory}, Titles))
    BY DEF TypeInv
  <2>2. Matching(wallpapers, status, category, query) \subseteq DOMAIN wallpapers
    BY DEF Matching
  <2>3. CountWallpapers(wallpapers, status, category, query) \in Nat
    BY <2>1, <2>2, Finite DEF CountWallpapers
  <2>4. ASSUME NEW page \in ListWallpapersPopular(wallpapers, status, category, query, Off(c), Lim(c))
        PROVE  page \in Seq(Nat) /\ page \in Seq(Matching(wallpapers, status, category, query))
    BY <1>1, <2>1, <2>2, <2>4, PageOfTable DEF ListWallpapersPopular
  <2>5. ASSUME NEW page \in ListWallpapersRecent(wallpapers, status, category, query, Off(c), Lim(c))
        PROVE  page \in Seq(Nat) /\ page \in Seq(Matching(wallpapers, status, category, query))
    BY <1>1, <2>1, <2>2, <2>5, PageOfTable DEF ListWallpapersRecent
  <2> QED BY <2>3, <2>4, <2>5
<1>3. ASSUME NEW query
      PROVE  /\ CountUsersWithSearch(users, query) \in Nat
             /\ \A page \in ListUsersWithSearch(users, query, Off(c), Lim(c)) : page \in Seq(Nat)
  <2>1. users \in Seq(Emails) /\ Found(users, query) \subseteq DOMAIN users
    BY DEF TypeInv, Found
  <2>2. CountUsersWithSearch(users, query) \in Nat
    BY <2>1, Finite DEF CountUsersWithSearch
  <2>3. ASSUME NEW page \in ListUsersWithSearch(users, query, Off(c), Lim(c))
        PROVE  page \in Seq(Nat)
    BY <1>1, <2>1, <2>3, PageOfTable DEF ListUsersWithSearch
  <2> QED BY <2>2, <2>3
<1>4. /\ CountUsers(users) \in Nat
      /\ \A page \in ListUsers(users, Off(c), Lim(c)) : page \in Seq(Nat)
  <2>1. users \in Seq(Emails)
    BY DEF TypeInv
  <2>2. CountUsers(users) \in Nat
    BY <2>1, Finite DEF CountUsers
  <2>3. ASSUME NEW page \in ListUsers(users, Off(c), Lim(c))
        PROVE  page \in Seq(Nat)
    BY <1>1, <2>1, <2>3, PageOfTable DEF ListUsers
  <2> QED BY <2>2, <2>3
<1>5. /\ CountPendingReports(reports) \in Nat
      /\ \A page \in ListPendingReports(reports, Off(c), Lim(c)) : page \in Seq(Nat)
  <2>1. /\ reports \in Seq([wallpaper : Nat, status : {"pending", "dismissed"}])
        /\ PendingReports(reports) \subseteq DOMAIN reports
    BY DEF TypeInv, PendingReports
  <2>2. CountPendingReports(reports) \in Nat
    BY <2>1, Finite DEF CountPendingReports
  <2>3. ASSUME NEW page \in ListPendingReports(reports, Off(c), Lim(c))
        PROVE  page \in Seq(Nat)
    BY <1>1, <2>1, <2>3, PageOfTable DEF ListPendingReports
  <2> QED BY <2>2, <2>3
<1>6. CountFavoritesByUser(favorites) \in Nat
  <2>1. Favored(favorites) \subseteq 1..MaxWallpapers
    BY DEF Favored, TypeInv, Wallpapers
  <2>2. IsFiniteSet(1..MaxWallpapers)
    BY Scalars, FS_Interval
  <2> QED BY <2>1, <2>2, FS_Subset, FS_CardinalityType DEF CountFavoritesByUser
<1>7. \A page \in ListFavoritesByUser(favorites, Off(c), Lim(c)) : page \in Seq(Nat)
  BY <1>1, PageOfFavorites
<1> QED BY <1>2, <1>3, <1>4, <1>5, <1>6, <1>7

LEMMA TypeServe ==
  ASSUME TypeInv, NEW c \in Calls, Serve(c)
  PROVE  TypeInv'
<1>1. ASSUME NEW op \in {"popular", "recent", "list", "load", "more"}, NEW total \in Nat, Count(c, op, total)
      PROVE  TypeInv'
  <2>1. "page" \in Steps
    BY DEF Steps
  <2> QED BY <1>1, <2>1, TypeKept, CallTypeKept DEF Count
<1>2. ASSUME NEW op, NEW pages, \A page \in pages : page \in Seq(Nat), Page(c, op, pages)
      PROVE  TypeInv'
  <2>1. \A page \in pages : Replies(op, page) \in Steps
    BY DEF Replies, Steps
  <2> QED BY <1>2, <2>1, TypeKept, CallTypeKept DEF Page
<1>3. ASSUME NEW op, NEW pages, \A page \in pages : page \in Seq(Nat), PageFirst(c, op, pages)
      PROVE  TypeInv'
  <2>1. "count" \in Steps
    BY DEF Steps
  <2> QED BY <1>3, <2>1, TypeKept, CallTypeKept DEF PageFirst
<1>4. ASSUME NEW op, NEW total \in Nat, CountLast(c, op, total)
      PROVE  TypeInv'
  <2>1. "reply" \in Steps
    BY DEF Steps
  <2> QED BY <1>4, <2>1, TypeKept, CallTypeKept DEF CountLast
<1>5. CASE Popular(c)
  BY <1>1, <1>2, <1>5, AnswerType DEF Popular
<1>6. CASE Recent(c)
  BY <1>1, <1>2, <1>6, AnswerType DEF Recent
<1>7. CASE List(c)
  BY <1>1, <1>2, <1>7, AnswerType DEF List
<1>8. ASSUME NEW op \in {"load", "more"}, ListByUser(c, op)
      PROVE  TypeInv'
  BY <1>1, <1>2, <1>8, AnswerType DEF ListByUser
<1>9. CASE ListAllUsers(c)
  BY <1>3, <1>4, <1>9, AnswerType DEF ListAllUsers
<1>10. CASE SearchUsers(c)
  BY <1>3, <1>4, <1>10, AnswerType DEF SearchUsers
<1>11. CASE ListReports(c)
  BY <1>3, <1>4, <1>11, AnswerType DEF ListReports
<1>12. ASSUME NEW op, NEW status, ListOfStatus(c, op, status)
       PROVE  TypeInv'
  <2>1. CASE /\ call' = [call EXCEPT ![c].step = "panicked"]
             /\ UNCHANGED <<tables, cfg, view, screen, acts>>
    <3>1. "panicked" \in Steps
      BY DEF Steps
    <3> QED BY <2>1, <3>1, TypeKept, CallTypeKept
  <2> QED BY <1>3, <1>4, <1>12, <2>1, AnswerType DEF ListOfStatus
<1>13. CASE Get(c)
  <2>1. PICK s \in {"reply", "failed", "not_found"} : call' = [call EXCEPT ![c].step = s]
    BY <1>13 DEF Get, Replies
  <2>2. s \in Steps
    BY DEF Steps
  <2> QED BY <1>13, <2>1, <2>2, TypeKept, CallTypeKept DEF Get
<1>14. CASE ToggleCheck(c)
  <2>1. PICK s \in {"delete", "insert"} : call' = [call EXCEPT ![c].step = s]
    BY <1>14 DEF ToggleCheck
  <2>2. s \in Steps
    BY DEF Steps
  <2> QED BY <1>14, <2>1, <2>2, TypeKept, CallTypeKept DEF ToggleCheck
<1>15. CASE ToggleInsert(c)
  <2> USE DEF Steps
  <2>1. version' \in Nat /\ call' \in [Calls -> CallType]
    <3>1. CASE CheckFavorite(favorites, call[c].id)
      BY <1>15, <3>1, CallTypeKept DEF ToggleInsert, TypeInv
    <3>2. CASE ~CheckFavorite(favorites, call[c].id)
      <4>1. version' \in Nat
        BY <1>15, <3>2 DEF ToggleInsert, FavoritesChange, TypeInv
      <4> QED BY <1>15, <3>2, <4>1, CallTypeKept DEF ToggleInsert
    <3> QED BY <3>1, <3>2
  <2>2. favorites' \in [Wallpapers -> Nat]
    BY <1>15 DEF ToggleInsert, InsertFavorite, TypeInv
  <2> QED BY <1>15, <2>1, <2>2 DEF ToggleInsert, TypeInv, ShownInv, explore, heart
<1>16. CASE ToggleDelete(c)
  <2> USE DEF Steps
  <2>1. version' \in Nat /\ call' \in [Calls -> CallType]
    <3>1. version' \in Nat
      BY <1>16 DEF ToggleDelete, FavoritesChange, TypeInv
    <3> QED BY <1>16, <3>1, CallTypeKept DEF ToggleDelete
  <2>2. favorites' \in [Wallpapers -> Nat]
    BY <1>16 DEF ToggleDelete, DeleteFavorite, TypeInv
  <2> QED BY <1>16, <2>1, <2>2 DEF ToggleDelete, TypeInv, ShownInv, explore, heart
<1>17. CASE ReportCreate(c)
  <2>1. "reply" \in Steps
    BY DEF Steps
  <2>2. call' \in [Calls -> CallType]
    BY <1>17, <2>1, CallTypeKept DEF ReportCreate
  <2>3. reports' \in Seq([wallpaper : Nat, status : {"pending", "dismissed"}])
    <3>1. call[c].id \in Nat
      BY DEF TypeInv, CallType
    <3> QED BY <1>17, <3>1 DEF ReportCreate, CreateReport, TypeInv
  <2> QED BY <1>17, <2>2, <2>3 DEF ReportCreate, TypeInv, ShownInv, screen, explore, paging, heart
<1>18. CASE Dismiss(c)
  <2>1. LeftBehind(call[c].id) \in [Calls -> CallType]
    <3>1. ASSUME NEW d \in Calls
          PROVE  call[d] \in CallType
      BY DEF TypeInv
    <3>2. ASSUME NEW x \in CallType
          PROVE  [x EXCEPT !.left = @ + 1] \in CallType
      <4>1. x.left + 1 \in Nat
        BY DEF CallType
      <4>2. ASSUME NEW n \in Nat
            PROVE  [x EXCEPT !.left = n] \in CallType
        BY DEF CallType
      <4> QED BY <4>1, <4>2
    <3> QED BY <3>1, <3>2 DEF LeftBehind
  <2>2. call' \in [Calls -> CallType]
    <3> DEFINE f == LeftBehind(call[c].id)
    <3>1. f \in [Calls -> CallType] /\ call' = [f EXCEPT ![c].step = "reply"]
      BY <1>18, <2>1 DEF Dismiss
    <3>2. [f[c] EXCEPT !.step = "reply"] \in CallType
      <4>1. f[c] \in CallType
        BY <3>1
      <4> HIDE DEF f
      <4> QED BY <4>1 DEF CallType, Steps
    <3> HIDE DEF f
    <3> QED BY <3>1, <3>2
  <2>3. reports' \in Seq([wallpaper : Nat, status : {"pending", "dismissed"}])
    <3> DEFINE T == [wallpaper : Nat, status : {"pending", "dismissed"}]
               r == call[c].id
    <3>1. reports \in Seq(T) /\ reports' = [reports EXCEPT ![r] = [reports[r] EXCEPT !.status = "dismissed"]]
      BY <1>18 DEF Dismiss, DismissReport, TypeInv
    <3>2. r \in DOMAIN reports => [reports[r] EXCEPT !.status = "dismissed"] \in T
      <4>1. r \in DOMAIN reports => reports[r] \in T
        <5> HIDE DEF T, r
        <5> QED BY <3>1
      <4> HIDE DEF r
      <4> QED BY <4>1
    <3> HIDE DEF T, r
    <3>3. reports' \in Seq(T)
      BY <3>1, <3>2, SeqExcept
    <3> QED BY <3>3 DEF T
  <2> QED BY <1>18, <2>2, <2>3 DEF Dismiss, TypeInv, ShownInv, screen, explore, paging, heart
<1>19. CASE Fails(c)
  <2>1. "failed" \in Steps
    BY DEF Steps
  <2> QED BY <1>19, <2>1, TypeKept, CallTypeKept DEF Fails
<1> QED
  BY <1>5, <1>6, <1>7, <1>8, <1>9, <1>10, <1>11, <1>12, <1>13, <1>14, <1>15, <1>16,
     <1>17, <1>18, <1>19 DEF Serve, Queue, ListWallpapers

\* What is sent has its type.
LEMMA SendType ==
  ASSUME TypeInv, NEW c \in Calls, NEW r \in CallType, Send(c, r)
  PROVE  call' \in [Calls -> CallType]
BY CallTypeKept DEF Send

LEMMA AsksType ==
  ASSUME TypeInv
  PROVE  /\ asked.nr + 1 \in Nat
         /\ \A category \in Categories \cup {NotGiven}, query \in Texts :
              Asks(category, query) => asked' \in Question /\ since' \in Nat
<1>1. asked.nr \in Nat /\ since \in Nat
  BY DEF TypeInv, Question
<1> QED BY <1>1 DEF Asks, Question

LEMMA TypeClick ==
  ASSUME TypeInv, NEW c \in Calls, Click(c)
  PROVE  TypeInv'
<1> USE DEF Ops, Steps
<1>1. CASE LoadHome(c)
  <2>1. Request("popular", "count") \in CallType
    BY RequestType
  <2> QED BY <1>1, <2>1, SendType, TypeKept DEF LoadHome
<1>2. ASSUME NEW category \in Categories, SelectCategory(c, category)
      PROVE  TypeInv'
  <2>1. Request("list", "count") \in CallType
    BY RequestType
  <2>2. [Request("list", "count") EXCEPT !.category = category, !.nr = asked.nr + 1] \in CallType
    BY <2>1, AsksType DEF CallType
  <2>3. call' \in [Calls -> CallType]
    BY <1>2, <2>2, SendType DEF SelectCategory
  <2>4. asked' \in Question /\ since' \in Nat
    <3>1. NotGiven \in Texts
      BY DEF Texts
    <3> QED BY <1>2, <3>1, AsksType DEF SelectCategory
  <2> QED BY <1>2, <2>3, <2>4, BrowseAssumption
          DEF SelectCategory, TypeInv, ShownInv, tables, paging, heart
<1>3. CASE Search(c)
  <2>1. Request("list", "count") \in CallType /\ searchQuery \in Texts
    BY RequestType DEF TypeInv, Texts
  <2>2. [Request("list", "count") EXCEPT !.query = searchQuery, !.nr = asked.nr + 1] \in CallType
    BY <2>1, AsksType DEF CallType
  <2>3. call' \in [Calls -> CallType]
    BY <1>3, <2>2, SendType DEF Search
  <2>4. asked' \in Question /\ since' \in Nat
    BY <1>3, <2>1, AsksType DEF Search
  <2> QED BY <1>3, <2>3, <2>4 DEF Search, TypeInv, ShownInv, tables, paging, heart
<1>4. ASSUME NEW w \in DOMAIN wallpapers, FetchDetail(c, w)
      PROVE  TypeInv'
  <2>1. Request("get", "get") \in CallType /\ w \in Nat
    BY RequestType DEF TypeInv
  <2>2. [Request("get", "get") EXCEPT !.id = w] \in CallType
    BY <2>1 DEF CallType
  <2> QED BY <1>4, <2>2, SendType, TypeKept DEF FetchDetail
<1>5. CASE LoadFavorites(c)
  <2>1. Request("load", "count") \in CallType
    BY RequestType
  <2>2. call' \in [Calls -> CallType]
    BY <1>5, <2>1, SendType DEF LoadFavorites
  <2> QED BY <1>5, <2>2 DEF LoadFavorites, TypeInv, ShownInv, tables, explore, heart
<1>6. CASE LoadMore(c)
  <2>1. Request("more", "count") \in CallType /\ currentOffset + PageSize \in Nat
    BY RequestType, Scalars DEF TypeInv
  <2>2. [Request("more", "count") EXCEPT !.off = currentOffset + PageSize] \in CallType
    BY <2>1 DEF CallType
  <2>3. call' \in [Calls -> CallType]
    BY <1>6, <2>2, SendType DEF LoadMore
  <2> QED BY <1>6, <2>1, <2>3 DEF LoadMore, TypeInv, ShownInv, tables, explore, heart
<1>7. CASE Toggle(c)
  <2>1. Request("toggle", "check") \in CallType
    BY RequestType
  <2>2. [Request("toggle", "check") EXCEPT !.id = Opened] \in CallType
    BY <2>1 DEF CallType, Opened
  <2> QED BY <1>7, <2>2, SendType, TypeKept DEF Toggle
<1>8. CASE SubmitReport(c)
  <2>1. Request("report", "write") \in CallType
    BY RequestType
  <2>2. [Request("report", "write") EXCEPT !.id = Opened] \in CallType
    BY <2>1 DEF CallType, Opened
  <2> QED BY <1>8, <2>2, SendType, TypeKept DEF SubmitReport
<1>9. ASSUME NEW op \in {"queue", "users", "reports"}, LoadAdmin(c, op)
      PROVE  TypeInv'
  <2>1. Request(op, "page") \in CallType
    BY RequestType
  <2> QED BY <1>9, <2>1, SendType, TypeKept DEF LoadAdmin
<1>10. ASSUME NEW r \in DOMAIN reports, DismissShown(c, r)
       PROVE  TypeInv'
  <2>1. Request("dismiss", "write") \in CallType /\ r \in Nat
    BY RequestType DEF TypeInv
  <2>2. [Request("dismiss", "write") EXCEPT !.id = r] \in CallType
    BY <2>1 DEF CallType
  <2> QED BY <1>10, <2>2, SendType, TypeKept DEF DismissShown
<1> QED
  BY <1>1, <1>2, <1>3, <1>4, <1>5, <1>6, <1>7, <1>8, <1>9, <1>10 DEF Click

\* A list of the screen is replaced by what came.
LEMMA ShownType ==
  ASSUME TypeInv, NEW list \in Lists, NEW q \in Seq(Nat), shown' = [shown EXCEPT ![list] = q]
  PROVE  ShownInv'
BY DEF TypeInv, ShownInv

\* What is left of a list.
LEMMA DroppingType ==
  ASSUME NEW T, NEW list \in Seq(T), NEW r
  PROVE  Dropping(list, r) \in Seq(T)
<1>1. CASE \A i \in DOMAIN list : list[i] # r
  BY <1>1 DEF Dropping
<1>2. CASE ~\A i \in DOMAIN list : list[i] # r
  <2> DEFINE i == CHOOSE i \in DOMAIN list : list[i] = r
  <2>1. i \in DOMAIN list
    BY <1>2
  <2>2. Dropping(list, r) = SubSeq(list, 1, i - 1) \o SubSeq(list, i + 1, Len(list))
    BY <1>2 DEF Dropping
  <2> HIDE DEF i
  <2>3. i \in 1..Len(list) /\ Len(list) \in Nat
    BY <2>1
  <2>4. SubSeq(list, 1, i - 1) \in Seq(T) /\ SubSeq(list, i + 1, Len(list)) \in Seq(T)
    BY <2>3
  <2> QED BY <2>2, <2>4
<1> QED BY <1>1, <1>2

LEMMA TypeAnswered ==
  ASSUME TypeInv, NEW c \in Calls, Answered(c)
  PROVE  TypeInv'
<1> USE DEF Ops, Steps
<1>1. call[c] \in CallType /\ call[c].items \in Seq(Nat) /\ call[c].popular \in Seq(Nat)
      /\ call[c].nr \in Nat /\ call[c].total \in Nat
  BY DEF TypeInv, CallType
<1>2. ASSUME Ends(c)
      PROVE  call' \in [Calls -> CallType]
  BY <1>2, IdleType, CallTypeKept DEF Ends
<1>3. CASE PopularArrives(c)
  <2>1. Request("recent", "count") \in CallType
    BY RequestType
  <2>2. [Request("recent", "count") EXCEPT !.popular = call[c].items] \in CallType
    BY <1>1, <2>1 DEF CallType
  <2> QED BY <1>3, <2>2, CallTypeKept, TypeKept DEF PopularArrives
<1>4. CASE RecentArrives(c)
  <2>1. ShownInv'
    <3>1. /\ shown' = [shown EXCEPT !["popular"] = call[c].popular, !["recent"] = call[c].items]
      BY <1>4 DEF RecentArrives
    <3> QED BY <1>1, <3>1 DEF TypeInv, ShownInv
  <2> QED BY <1>2, <1>4, <2>1 DEF RecentArrives, TypeInv, tables, explore, paging, heart
<1>5. CASE ResultsArrive(c)
  <2>1. ShownInv'
    <3> DEFINE q == IF call[c].step = "reply" THEN call[c].items ELSE <<>>
    <3>1. q \in Seq(Nat) /\ shown' = [shown EXCEPT !["results"] = q]
      BY <1>1, <1>5 DEF ResultsArrive
    <3> HIDE DEF q
    <3> QED BY <3>1 DEF TypeInv, ShownInv
  <2>2. answered' \in Question
    BY <1>1, <1>5 DEF ResultsArrive, CallType, Question
  <2> QED BY <1>2, <1>5, <2>1, <2>2 DEF ResultsArrive, TypeInv, tables, paging, heart
<1>6. CASE FavoritesArrive(c)
  <2>1. ShownInv'
    BY <1>1, <1>6 DEF FavoritesArrive, TypeInv, ShownInv
  <2> QED BY <1>2, <1>6, <2>1 DEF FavoritesArrive, TypeInv, tables, explore, heart
<1>7. CASE MoreArrives(c)
  <2>1. ShownInv'
    <3>1. "favorites" \in Lists
      BY DEF Lists
    <3>2. shown["favorites"] \in Seq(Nat)
      BY <3>1 DEF TypeInv, ShownInv
    <3> DEFINE q == shown["favorites"] \o call[c].items
    <3>3. q \in Seq(Nat)
      <4>1. \A x, y \in Seq(Nat) : x \o y \in Seq(Nat)
        OBVIOUS
      <4> QED BY <1>1, <3>2, <4>1
    <3>4. shown' = [shown EXCEPT !["favorites"] = q]
      BY <1>7 DEF MoreArrives
    <3> HIDE DEF q
    <3> QED BY <3>3, <3>4 DEF TypeInv, ShownInv
  <2> QED BY <1>2, <1>7, <2>1 DEF MoreArrives, TypeInv, tables, explore, heart
<1>8. CASE ToggleArrives(c)
  BY <1>1, <1>2, <1>8 DEF ToggleArrives, TypeInv, ShownInv, tables, explore, paging
<1>9. ASSUME NEW op \in {"queue", "users", "reports"}, AdminArrives(c, op)
      PROVE  TypeInv'
  <2>1. ShownInv'
    BY <1>1, <1>9 DEF AdminArrives, TypeInv, ShownInv
  <2> QED BY <1>2, <1>9, <2>1 DEF AdminArrives, TypeInv, tables, explore, paging, heart
<1>10. CASE DismissArrives(c)
  <2>1. shown["reports"] \in Seq(Nat) /\ "reports" \in Lists
    BY DEF TypeInv, ShownInv, Lists
  <2> DEFINE q == Dropping(shown["reports"], call[c].id)
  <2>2. q \in Seq(Nat) /\ shown' = [shown EXCEPT !["reports"] = q]
    BY <1>10, <2>1, DroppingType DEF DismissArrives
  <2> HIDE DEF q
  <2>3. ShownInv'
    BY <2>1, <2>2, ShownType
  <2> QED BY <1>2, <1>10, <2>3 DEF DismissArrives, TypeInv, tables, explore, paging, heart
<1>11. CASE Over(c)
  BY <1>2, <1>11 DEF Over, TypeInv, ShownInv, tables, explore, heart
<1> QED
  BY <1>3, <1>4, <1>5, <1>6, <1>7, <1>8, <1>9, <1>10, <1>11 DEF Answered

\* Rows that queries write.
LEMMA RowsType ==
  ASSUME TypeInv, NEW w \in DOMAIN wallpapers
  PROVE  LET Rows == Seq(WallpaperRow(Categories \cup {NoCategory}, Titles)) IN
         /\ UpdateWallpaperAfterFinalize(wallpapers, w) \in Rows
         /\ \A status \in Statuses :
              /\ UpdateWallpaperStatus(wallpapers, w, status) \in Rows
              /\ UpdateWallpaperStatusWithReason(wallpapers, w, status) \in Rows
         /\ \A title \in Titles, category \in Categories \cup {NoCategory} :
              UpdateWallpaperMetadata(wallpapers, w, title, category) \in Rows
         /\ IncrementDownloadCount(wallpapers, w) \in Rows
<1> DEFINE T == WallpaperRow(Categories \cup {NoCategory}, Titles)
<1>1. wallpapers \in Seq(T) /\ wallpapers[w] \in T
  <2>1. wallpapers \in Seq(T)
    BY DEF TypeInv
  <2> HIDE DEF T
  <2> QED BY <2>1
<1>2. ASSUME NEW status \in Statuses
      PROVE  [wallpapers[w] EXCEPT !.status = status] \in T
  BY <1>1 DEF WallpaperRow
<1>3. [wallpapers[w] EXCEPT !.status = "pending_review", !.thumbnail = TRUE] \in T
  BY <1>1 DEF WallpaperRow, Statuses
<1>4. ASSUME NEW title \in Titles, NEW category \in Categories \cup {NoCategory}
      PROVE  [wallpapers[w] EXCEPT !.title = title, !.category = category] \in T
  BY <1>1 DEF WallpaperRow
<1>5. [wallpapers[w] EXCEPT !.downloads = @ + 1] \in T
  <2>1. wallpapers[w].downloads + 1 \in Nat
    BY <1>1 DEF WallpaperRow
  <2>2. ASSUME NEW n \in Nat
        PROVE  [wallpapers[w] EXCEPT !.downloads = n] \in T
    BY <1>1 DEF WallpaperRow
  <2> QED BY <2>1, <2>2
<1> HIDE DEF T
<1>6. ASSUME NEW row \in T
      PROVE  [wallpapers EXCEPT ![w] = row] \in Seq(T)
  BY <1>1, SeqExcept
<1>7. UpdateWallpaperAfterFinalize(wallpapers, w) \in Seq(T)
  BY <1>1, <1>3, <1>6 DEF UpdateWallpaperAfterFinalize
<1>8. \A status \in Statuses : /\ UpdateWallpaperStatus(wallpapers, w, status) \in Seq(T)
                               /\ UpdateWallpaperStatusWithReason(wallpapers, w, status) \in Seq(T)
  BY <1>2, <1>6 DEF UpdateWallpaperStatus, UpdateWallpaperStatusWithReason
<1>9. \A title \in Titles, category \in Categories \cup {NoCategory} :
         UpdateWallpaperMetadata(wallpapers, w, title, category) \in Seq(T)
  BY <1>4, <1>6 DEF UpdateWallpaperMetadata
<1>10. IncrementDownloadCount(wallpapers, w) \in Seq(T)
  BY <1>5, <1>6 DEF IncrementDownloadCount
<1> QED BY <1>7, <1>8, <1>9, <1>10 DEF T

\* A step that changes the wallpapers, and what history says of them.
LEMMA WallpapersChange ==
  ASSUME TypeInv,
         wallpapers' \in Seq(WallpaperRow(Categories \cup {NoCategory}, Titles)),
         edited' \subseteq Nat, withdrawn' \subseteq Nat,
         UNCHANGED <<users, reports, favorites, version, cfg, call, screen>>
  PROVE  TypeInv'
BY DEF TypeInv, ShownInv, screen, explore, paging, heart

LEMMA TypeOthers ==
  ASSUME TypeInv, Others
  PROVE  TypeInv'
<1> USE DEF Ops, Steps
<1>1. ASSUME NEW c \in Calls, NEW w \in Wallpapers, ToggleElsewhere(c, w)
      PROVE  TypeInv'
  <2>1. Request("toggle", "check") \in CallType /\ w \in Nat
    BY RequestType DEF Wallpapers
  <2>2. [Request("toggle", "check") EXCEPT !.id = w, !.from = "other"] \in CallType
    BY <2>1 DEF CallType
  <2> QED BY <1>1, <2>2, SendType, TypeKept DEF ToggleElsewhere
<1>2. ASSUME NEW c \in Calls, NEW op \in {"users", "search", "reports", "content"},
             NEW query \in Emails \cup Statuses \cup {NotGiven}, NEW off \in Offsets,
             AskElsewhere(c, op, query, off)
      PROVE  TypeInv'
  <2>1. Request(op, "page") \in CallType /\ off \in Nat
    <3>1. Offsets \subseteq Nat
      BY BrowseAssumption
    <3> QED BY <3>1, RequestType
  <2>2. [Request(op, "page") EXCEPT !.query = query, !.off = off, !.lim = 0, !.from = "other"] \in CallType
    BY <2>1 DEF CallType, Texts
  <2> QED BY <1>2, <2>2, SendType, TypeKept DEF AskElsewhere
<1>3. ASSUME NEW email \in Emails, Register(email)
      PROVE  TypeInv'
  <2>1. users' \in Seq(Emails)
    BY <1>3 DEF Register, CreateUser, TypeInv
  <2> QED BY <1>3, <2>1 DEF Register, TypeInv, ShownInv, screen, explore, paging, heart
<1>4. edited \subseteq Nat /\ withdrawn \subseteq Nat /\ \A w \in DOMAIN wallpapers : w \in Nat
  BY DEF TypeInv
<1>5. ASSUME NEW title \in Titles, NEW category \in Categories \cup {NoCategory}, Create(title, category)
      PROVE  TypeInv'
  <2> DEFINE T == WallpaperRow(Categories \cup {NoCategory}, Titles)
             row == [status |-> "pending", category |-> category, title |-> title,
                     downloads |-> 0, thumbnail |-> FALSE]
  <2>1. row \in T
    BY DEF WallpaperRow, Statuses
  <2>2. wallpapers \in Seq(T) /\ wallpapers' = Append(wallpapers, row)
    BY <1>5 DEF TypeInv, Create, Changes, CreateWallpaper
  <2> HIDE DEF T, row
  <2>3. wallpapers' \in Seq(T)
    BY <2>1, <2>2
  <2> QED BY <1>4, <1>5, <2>3, WallpapersChange DEF Create, Changes, T
<1>6. ASSUME NEW w \in DOMAIN wallpapers, Finalize(w) \/ Approve(w) \/ Reject(w) \/ Download(w)
      PROVE  TypeInv'
  <2>1. "approved" \in Statuses /\ "rejected" \in Statuses
    BY DEF Statuses
  <2> QED BY <1>4, <1>6, <2>1, RowsType, WallpapersChange
          DEF Finalize, Approve, Reject, Download, Changes
<1>7. ASSUME NEW w \in DOMAIN wallpapers, NEW status \in {"pending_review", "rejected"}, Withdraw(w, status)
      PROVE  TypeInv'
  <2>1. status \in Statuses
    BY DEF Statuses
  <2> QED BY <1>4, <1>7, <2>1, RowsType, WallpapersChange DEF Withdraw
<1>8. ASSUME NEW w \in DOMAIN wallpapers, NEW title \in Titles, NEW category \in Categories \cup {NoCategory},
             EditWallpaper(w, title, category)
      PROVE  TypeInv'
  BY <1>4, <1>8, RowsType, WallpapersChange DEF EditWallpaper
<1> QED BY <1>1, <1>2, <1>3, <1>5, <1>6, <1>7, <1>8 DEF Others

LEMMA TypeStep == TypeInv /\ [Next]_vars => TypeInv'
<1> SUFFICES ASSUME TypeInv, [Next]_vars PROVE TypeInv'
  OBVIOUS
<1>1. CASE ClearCategory
  <2>1. ShownInv'
    <3>1. shown' = [shown EXCEPT !["results"] = <<>>] /\ <<>> \in Seq(Nat)
      BY <1>1 DEF ClearCategory
    <3> QED BY <3>1 DEF TypeInv, ShownInv
  <2>2. asked' \in Question /\ since' \in Nat /\ answered' \in Question
    <3>1. NotGiven \in Texts
      BY DEF Texts
    <3> QED BY <1>1, <3>1, AsksType DEF ClearCategory
  <2> QED BY <1>1, <2>1, <2>2 DEF ClearCategory, TypeInv, tables, paging, heart
<1>2. CASE UNCHANGED vars
  BY <1>2, TypeKept DEF vars, TypeInv
<1>3. ASSUME NEW text \in Titles, Type(text)
      PROVE  TypeInv'
  BY <1>3 DEF Type, TypeInv, ShownInv, tables, paging, heart
<1> QED BY <1>1, <1>2, <1>3, TypeServe, TypeClick, TypeAnswered, TypeOthers DEF Next

\* View, flags and the number of actions.
FlagsType ==
  /\ view \in AllViews /\ hasMore \in BOOLEAN /\ isFavorited \in BOOLEAN
  /\ acts \in Nat /\ steady \in BOOLEAN

LEMMA FlagsInit == Init => FlagsType
<1> SUFFICES ASSUME Init PROVE FlagsType
  OBVIOUS
<1>1. view \in Views /\ hasMore = FALSE /\ isFavorited = FALSE /\ acts = 0 /\ steady = FALSE
  BY DEF Init
<1>2. Views \subseteq AllViews
  BY BrowseAssumption
<1> QED BY <1>1, <1>2 DEF FlagsType

\* Flags are set by the views, but for the record of changes.
LEMMA FlagsServe ==
  ASSUME NEW c \in Calls, Serve(c)
  PROVE  UNCHANGED <<view, hasMore, isFavorited, acts>> /\ (steady' = steady \/ steady' = FALSE)
<1> DEFINE Kept == UNCHANGED <<view, hasMore, isFavorited, acts>> /\ (steady' = steady \/ steady' = FALSE)
<1> USE DEF screen, paging, heart
<1>1. ASSUME UNCHANGED <<view, screen, acts>> PROVE Kept
  BY <1>1
<1>2. ASSUME NEW op, NEW total, Count(c, op, total) \/ CountLast(c, op, total) PROVE Kept
  BY <1>1, <1>2 DEF Count, CountLast
<1>3. ASSUME NEW op, NEW pages, Page(c, op, pages) \/ PageFirst(c, op, pages) PROVE Kept
  BY <1>1, <1>3 DEF Page, PageFirst
<1>4. ASSUME NEW op, NEW status, ListOfStatus(c, op, status) PROVE Kept
  BY <1>1, <1>2, <1>3, <1>4 DEF ListOfStatus
<1>5. CASE Popular(c) \/ Recent(c) \/ List(c) \/ ListByUser(c, "load") \/ ListByUser(c, "more")
  BY <1>2, <1>3, <1>5 DEF Popular, Recent, List, ListByUser
<1>6. CASE ListAllUsers(c) \/ SearchUsers(c) \/ ListReports(c)
  BY <1>2, <1>3, <1>6 DEF ListAllUsers, SearchUsers, ListReports
<1>7. CASE Get(c) \/ ToggleCheck(c) \/ ReportCreate(c) \/ Dismiss(c) \/ Fails(c)
  BY <1>1, <1>7 DEF Get, ToggleCheck, ReportCreate, Dismiss, Fails
<1>8. CASE ToggleInsert(c) \/ ToggleDelete(c)
  BY <1>8 DEF ToggleInsert, ToggleDelete, FavoritesChange
<1> QED BY <1>4, <1>5, <1>6, <1>7, <1>8 DEF Serve, Queue, ListWallpapers

LEMMA FlagsOthers ==
  ASSUME Others
  PROVE  UNCHANGED <<view, screen>> /\ acts' = acts + 1
<1> USE DEF Send, Acts, Changes
<1>1. ASSUME NEW c \in Calls, NEW w, ToggleElsewhere(c, w)
      PROVE  UNCHANGED <<view, screen>> /\ acts' = acts + 1
  BY <1>1 DEF ToggleElsewhere
<1>2. ASSUME NEW c \in Calls, NEW op, NEW query, NEW off, AskElsewhere(c, op, query, off)
      PROVE  UNCHANGED <<view, screen>> /\ acts' = acts + 1
  BY <1>2 DEF AskElsewhere
<1>3. ASSUME NEW email, Register(email)
      PROVE  UNCHANGED <<view, screen>> /\ acts' = acts + 1
  BY <1>3 DEF Register
<1>4. ASSUME NEW title, NEW category, Create(title, category)
      PROVE  UNCHANGED <<view, screen>> /\ acts' = acts + 1
  BY <1>4 DEF Create
<1>5. ASSUME NEW w, Finalize(w) \/ Approve(w) \/ Reject(w) \/ Download(w)
      PROVE  UNCHANGED <<view, screen>> /\ acts' = acts + 1
  BY <1>5 DEF Finalize, Approve, Reject, Download
<1>6. ASSUME NEW w, NEW status, Withdraw(w, status)
      PROVE  UNCHANGED <<view, screen>> /\ acts' = acts + 1
  BY <1>6 DEF Withdraw
<1>7. ASSUME NEW w, NEW title, NEW category, EditWallpaper(w, title, category)
      PROVE  UNCHANGED <<view, screen>> /\ acts' = acts + 1
  BY <1>7 DEF EditWallpaper
<1> QED BY <1>1, <1>2, <1>3, <1>4, <1>5, <1>6, <1>7 DEF Others

LEMMA FlagsClick ==
  ASSUME FlagsType, NEW c \in Calls, Click(c)
  PROVE  FlagsType'
<1> USE DEF screen, paging, heart, FlagsType, Send
<1>1. CASE LoadHome(c) \/ Toggle(c) \/ SubmitReport(c)
  BY <1>1 DEF LoadHome, Toggle, SubmitReport
<1>2. ASSUME NEW category \in Categories, SelectCategory(c, category) PROVE FlagsType'
  <2>1. UNCHANGED <<view, hasMore, isFavorited, steady>>
    BY <1>2 DEF SelectCategory
  <2>2. acts' = acts + 1
    BY <1>2 DEF SelectCategory
  <2> QED BY <2>1, <2>2
<1>3. CASE Search(c)
  <2>1. UNCHANGED <<view, hasMore, isFavorited, steady>>
    BY <1>3 DEF Search
  <2>2. acts' = acts + 1
    BY <1>3 DEF Search
  <2> QED BY <2>1, <2>2
<1>4. ASSUME NEW w, FetchDetail(c, w) PROVE FlagsType'
  BY <1>4 DEF FetchDetail
<1>5. CASE LoadFavorites(c)
  BY <1>5 DEF LoadFavorites, NoPageUnderWay
<1>6. CASE LoadMore(c)
  BY <1>6 DEF LoadMore, NoPageUnderWay
<1>7. ASSUME NEW op, LoadAdmin(c, op) PROVE FlagsType'
  BY <1>7 DEF LoadAdmin
<1>8. ASSUME NEW r, DismissShown(c, r) PROVE FlagsType'
  BY <1>8 DEF DismissShown
<1> QED BY <1>1, <1>2, <1>3, <1>4, <1>5, <1>6, <1>7, <1>8 DEF Click

LEMMA FlagsAnswered ==
  ASSUME TypeInv, FlagsType, NEW c \in Calls, Answered(c)
  PROVE  FlagsType'
<1> USE DEF screen, paging, heart, FlagsType
<1>1. CASE PopularArrives(c) \/ RecentArrives(c) \/ ResultsArrive(c) \/ DismissArrives(c)
  BY <1>1 DEF PopularArrives, RecentArrives, ResultsArrive, DismissArrives
<1>2. CASE FavoritesArrive(c)
  BY <1>2 DEF FavoritesArrive
<1>3. CASE MoreArrives(c)
  BY <1>3 DEF MoreArrives
<1>4. CASE ToggleArrives(c)
  <2>1. call[c].result \in BOOLEAN
    BY DEF TypeInv, CallType
  <2> QED BY <1>4, <2>1 DEF ToggleArrives
<1>5. ASSUME NEW op, AdminArrives(c, op) PROVE FlagsType'
  BY <1>5 DEF AdminArrives
<1>6. CASE Over(c)
  BY <1>6 DEF Over
<1> QED BY <1>1, <1>2, <1>3, <1>4, <1>5, <1>6 DEF Answered

LEMMA FlagsStep == TypeInv /\ FlagsType /\ [Next]_vars => FlagsType'
<1> SUFFICES ASSUME TypeInv, FlagsType, [Next]_vars PROVE FlagsType'
  OBVIOUS
<1>1. ASSUME NEW c \in Calls, Serve(c) PROVE FlagsType'
  BY <1>1, FlagsServe DEF FlagsType
<1>2. CASE Others
  BY <1>2, FlagsOthers DEF FlagsType, screen, paging, heart
<1>3. CASE ClearCategory
  BY <1>3 DEF ClearCategory, Acts, FlagsType, paging, heart
<1>4. CASE UNCHANGED vars
  BY <1>4 DEF vars, FlagsType, screen, paging, heart
<1>5. ASSUME NEW text, Type(text) PROVE FlagsType'
  BY <1>5 DEF Type, FlagsType, paging, heart
<1> QED BY <1>1, <1>2, <1>3, <1>4, <1>5, FlagsClick, FlagsAnswered DEF Next

\* Tables, calls, lists and flags keep their types, however calls overlap, fail
\* and are answered (handler/wallpaper.go:68-157, handler/admin.go:34-292, and
\* the view models).
THEOREM TypeCorrect == Spec => []TypeOK
<1>1. TypeInv /\ FlagsType => TypeOK
  <2>1. ShownInv => shown \in [Lists -> Seq(Nat)]
    BY DEF ShownInv
  <2> QED BY <2>1 DEF TypeInv, FlagsType, TypeOK
<1> QED BY <1>1, TypeInit, TypeStep, FlagsInit, FlagsStep, PTL DEF Spec

-----------------------------------------------------------------------------
(* What the steps do to calls.                                             *)

OthersKept(c) == \A d \in Calls \ {c} : call'[d] = call[d]

\* A step of a handler moves a call on, and may store an answer in it.
Moved(c, s) ==
  /\ OthersKept(c)
  /\ call'[c].step = s
  /\ call'[c].op = call[c].op /\ call'[c].from = call[c].from /\ call'[c].id = call[c].id
  /\ call'[c].category = call[c].category /\ call'[c].query = call[c].query
  /\ call'[c].off = call[c].off /\ call'[c].lim = call[c].lim
  /\ call'[c].popular = call[c].popular /\ call'[c].left = call[c].left

LEMMA Moves ==
  ASSUME TypeInv, NEW c \in Calls, NEW s, call' = [call EXCEPT ![c].step = s]
  PROVE  /\ Moved(c, s)
         /\ call'[c].items = call[c].items /\ call'[c].total = call[c].total
         /\ call'[c].nr = call[c].nr /\ call'[c].result = call[c].result
BY DEF TypeInv, CallType, Moved, OthersKept

LEMMA MovesWithTotal ==
  ASSUME TypeInv, NEW c \in Calls, NEW s, NEW n,
         call' = [call EXCEPT ![c].step = s, ![c].total = n]
  PROVE  /\ Moved(c, s)
         /\ call'[c].items = call[c].items /\ call'[c].total = n /\ call'[c].nr = call[c].nr
BY DEF TypeInv, CallType, Moved, OthersKept

LEMMA MovesWithItems ==
  ASSUME TypeInv, NEW c \in Calls, NEW s, NEW page,
         call' = [call EXCEPT ![c].step = s, ![c].items = page]
  PROVE  /\ Moved(c, s)
         /\ call'[c].items = page /\ call'[c].total = call[c].total /\ call'[c].nr = call[c].nr
BY DEF TypeInv, CallType, Moved, OthersKept

LEMMA MovesWithResult ==
  ASSUME TypeInv, NEW c \in Calls
  PROVE  /\ call' = [call EXCEPT ![c].step = "reply", ![c].result = TRUE, ![c].nr = version'] =>
              Moved(c, "reply") /\ call'[c].result = TRUE /\ call'[c].nr = version'
         /\ call' = [call EXCEPT ![c].step = "reply", ![c].result = FALSE, ![c].nr = version'] =>
              Moved(c, "reply") /\ call'[c].result = FALSE /\ call'[c].nr = version'
<1>1. call \in [Calls -> CallType]
  BY DEF TypeInv
<1>2. ASSUME call' = [call EXCEPT ![c].step = "reply", ![c].result = TRUE, ![c].nr = version']
      PROVE  Moved(c, "reply") /\ call'[c].result = TRUE /\ call'[c].nr = version'
  BY <1>1, <1>2 DEF CallType, Moved, OthersKept
<1>3. ASSUME call' = [call EXCEPT ![c].step = "reply", ![c].result = FALSE, ![c].nr = version']
      PROVE  Moved(c, "reply") /\ call'[c].result = FALSE /\ call'[c].nr = version'
  BY <1>1, <1>3 DEF CallType, Moved, OthersKept
<1> QED BY <1>2, <1>3

LEMMA Becomes ==
  ASSUME TypeInv, NEW c \in Calls, NEW r, call' = [call EXCEPT ![c] = r]
  PROVE  OthersKept(c) /\ call'[c] = r
BY DEF TypeInv, OthersKept

\* What a click sends, or what others send.
Sent(c, op, step) ==
  /\ call[c].step = "idle"
  /\ OthersKept(c)
  /\ call'[c].op = op /\ call'[c].step = step
  /\ call'[c].items = <<>> /\ call'[c].popular = <<>> /\ call'[c].left = 0

LEMMA Sends ==
  ASSUME TypeInv, NEW c \in Calls, NEW q, Send(c, q)
  PROVE  call[c].step = "idle" /\ OthersKept(c) /\ call'[c] = q
BY Becomes DEF Send

IsRequest(r, op, step) ==
  /\ r \in CallType
  /\ r.op = op /\ r.step = step /\ r.from = "view" /\ r.id = 1
  /\ r.items = <<>> /\ r.popular = <<>> /\ r.left = 0
  /\ r.off = 0 /\ r.lim = PageSize /\ r.category = NotGiven /\ r.query = NotGiven

LEMMA Requests ==
  ASSUME NEW op \in Ops, NEW step \in Steps
  PROVE  IsRequest(Request(op, step), op, step)
BY RequestType DEF IsRequest

LEMMA ClickSends ==
  ASSUME TypeInv, NEW c \in Calls
  PROVE  /\ LoadHome(c) => Sent(c, "popular", "count")
         /\ \A category : SelectCategory(c, category) =>
              /\ Sent(c, "list", "count") /\ call'[c].from = "view" /\ call'[c].nr = asked.nr + 1
              /\ call'[c].category = category /\ call'[c].query = NotGiven
         /\ Search(c) =>
              /\ Sent(c, "list", "count") /\ call'[c].from = "view" /\ call'[c].nr = asked.nr + 1
              /\ call'[c].category = NotGiven /\ call'[c].query = searchQuery
         /\ \A w : FetchDetail(c, w) => Sent(c, "get", "get") /\ call'[c].id = w
         /\ LoadFavorites(c) =>
              /\ Sent(c, "load", "count")
              /\ call'[c].off = 0 /\ call'[c].lim = PageSize
         /\ LoadMore(c) =>
              /\ Sent(c, "more", "count")
              /\ call'[c].off = currentOffset + PageSize /\ call'[c].lim = PageSize
         /\ Toggle(c) => Sent(c, "toggle", "check") /\ call'[c].from = "view" /\ call'[c].id = Opened
         /\ SubmitReport(c) => Sent(c, "report", "write")
         /\ \A op : LoadAdmin(c, op) => op \in {"queue", "users", "reports"} /\ Sent(c, op, "page")
         /\ \A r : DismissShown(c, r) => Sent(c, "dismiss", "write")
         /\ \A w : ToggleElsewhere(c, w) => Sent(c, "toggle", "check") /\ call'[c].from = "other"
         /\ \A op \in {"users", "search", "reports", "content"} : \A query, off :
              AskElsewhere(c, op, query, off) => Sent(c, op, "page") /\ call'[c].from = "other"
<1>1. /\ {"popular", "list", "get", "load", "more", "toggle", "report", "dismiss",
          "queue", "users", "reports", "search", "content"} \subseteq Ops
      /\ {"count", "get", "check", "write", "page"} \subseteq Steps
  BY DEF Ops, Steps
<1>2. ASSUME LoadHome(c)
      PROVE  Sent(c, "popular", "count")
  <2>1. Send(c, Request("popular", "count"))
    BY <1>2 DEF LoadHome
  <2> DEFINE r == Request("popular", "count")
  <2>2. IsRequest(r, "popular", "count")
    BY <1>1, Requests
  <2>3. call[c].step = "idle" /\ OthersKept(c) /\ call'[c] = r
    BY <2>1, Sends
  <2> HIDE DEF r
  <2> QED BY <2>2, <2>3 DEF IsRequest, CallType, Sent
<1>3. ASSUME NEW category, SelectCategory(c, category)
      PROVE  /\ Sent(c, "list", "count") /\ call'[c].from = "view" /\ call'[c].nr = asked.nr + 1
             /\ call'[c].category = category /\ call'[c].query = NotGiven
  <2>1. Send(c, [Request("list", "count") EXCEPT !.category = category, !.nr = asked.nr + 1])
    BY <1>3 DEF SelectCategory
  <2> DEFINE r == Request("list", "count")
  <2>2. IsRequest(r, "list", "count")
    BY <1>1, Requests
  <2>3. call[c].step = "idle" /\ OthersKept(c) /\ call'[c] = [r EXCEPT !.category = category, !.nr = asked.nr + 1]
    BY <2>1, Sends
  <2> HIDE DEF r
  <2> QED BY <2>2, <2>3 DEF IsRequest, CallType, Sent
<1>4. ASSUME Search(c)
      PROVE  /\ Sent(c, "list", "count") /\ call'[c].from = "view" /\ call'[c].nr = asked.nr + 1
             /\ call'[c].category = NotGiven /\ call'[c].query = searchQuery
  <2>1. Send(c, [Request("list", "count") EXCEPT !.query = searchQuery, !.nr = asked.nr + 1])
    BY <1>4 DEF Search
  <2> DEFINE r == Request("list", "count")
  <2>2. IsRequest(r, "list", "count")
    BY <1>1, Requests
  <2>3. call[c].step = "idle" /\ OthersKept(c) /\ call'[c] = [r EXCEPT !.query = searchQuery, !.nr = asked.nr + 1]
    BY <2>1, Sends
  <2> HIDE DEF r
  <2> QED BY <2>2, <2>3 DEF IsRequest, CallType, Sent
<1>5. ASSUME NEW w, FetchDetail(c, w)
      PROVE  Sent(c, "get", "get") /\ call'[c].id = w
  <2>1. Send(c, [Request("get", "get") EXCEPT !.id = w])
    BY <1>5 DEF FetchDetail
  <2> DEFINE r == Request("get", "get")
  <2>2. IsRequest(r, "get", "get")
    BY <1>1, Requests
  <2>3. call[c].step = "idle" /\ OthersKept(c) /\ call'[c] = [r EXCEPT !.id = w]
    BY <2>1, Sends
  <2> HIDE DEF r
  <2> QED BY <2>2, <2>3 DEF IsRequest, CallType, Sent
<1>6. ASSUME LoadFavorites(c)
      PROVE  /\ Sent(c, "load", "count")
             /\ call'[c].off = 0 /\ call'[c].lim = PageSize
  <2>1. Send(c, Request("load", "count"))
    BY <1>6 DEF LoadFavorites
  <2> DEFINE r == Request("load", "count")
  <2>2. IsRequest(r, "load", "count")
    BY <1>1, Requests
  <2>3. call[c].step = "idle" /\ OthersKept(c) /\ call'[c] = r
    BY <2>1, Sends
  <2> HIDE DEF r
  <2> QED BY <2>2, <2>3 DEF IsRequest, CallType, Sent
<1>7. ASSUME LoadMore(c)
      PROVE  /\ Sent(c, "more", "count")
             /\ call'[c].off = currentOffset + PageSize /\ call'[c].lim = PageSize
  <2>1. Send(c, [Request("more", "count") EXCEPT !.off = currentOffset + PageSize])
    BY <1>7 DEF LoadMore
  <2> DEFINE r == Request("more", "count")
  <2>2. IsRequest(r, "more", "count")
    BY <1>1, Requests
  <2>3. call[c].step = "idle" /\ OthersKept(c) /\ call'[c] = [r EXCEPT !.off = currentOffset + PageSize]
    BY <2>1, Sends
  <2> HIDE DEF r
  <2> QED BY <2>2, <2>3 DEF IsRequest, CallType, Sent
<1>8. ASSUME Toggle(c)
      PROVE  Sent(c, "toggle", "check") /\ call'[c].from = "view" /\ call'[c].id = Opened
  <2>1. Send(c, [Request("toggle", "check") EXCEPT !.id = Opened])
    BY <1>8 DEF Toggle
  <2> DEFINE r == Request("toggle", "check")
  <2>2. IsRequest(r, "toggle", "check")
    BY <1>1, Requests
  <2>3. call[c].step = "idle" /\ OthersKept(c) /\ call'[c] = [r EXCEPT !.id = Opened]
    BY <2>1, Sends
  <2> HIDE DEF r
  <2> QED BY <2>2, <2>3 DEF IsRequest, CallType, Sent
<1>9. ASSUME SubmitReport(c)
      PROVE  Sent(c, "report", "write")
  <2>1. Send(c, [Request("report", "write") EXCEPT !.id = Opened])
    BY <1>9 DEF SubmitReport
  <2> DEFINE r == Request("report", "write")
  <2>2. IsRequest(r, "report", "write")
    BY <1>1, Requests
  <2>3. call[c].step = "idle" /\ OthersKept(c) /\ call'[c] = [r EXCEPT !.id = Opened]
    BY <2>1, Sends
  <2> HIDE DEF r
  <2> QED BY <2>2, <2>3 DEF IsRequest, CallType, Sent
<1>10. ASSUME NEW op, LoadAdmin(c, op)
       PROVE  op \in {"queue", "users", "reports"} /\ Sent(c, op, "page")
  <2>1. op \in {"queue", "users", "reports"} /\ Send(c, Request(op, "page"))
    BY <1>10 DEF LoadAdmin
  <2> DEFINE r == Request(op, "page")
  <2>2. IsRequest(r, op, "page")
    BY <1>1, <2>1, Requests
  <2>3. call[c].step = "idle" /\ OthersKept(c) /\ call'[c] = r
    BY <2>1, Sends
  <2> HIDE DEF r
  <2> QED BY <2>1, <2>2, <2>3 DEF IsRequest, CallType, Sent
<1>11. ASSUME NEW report, DismissShown(c, report)
       PROVE  Sent(c, "dismiss", "write")
  <2>1. Send(c, [Request("dismiss", "write") EXCEPT !.id = report])
    BY <1>11 DEF DismissShown
  <2> DEFINE r == Request("dismiss", "write")
  <2>2. IsRequest(r, "dismiss", "write")
    BY <1>1, Requests
  <2>3. call[c].step = "idle" /\ OthersKept(c) /\ call'[c] = [r EXCEPT !.id = report]
    BY <2>1, Sends
  <2> HIDE DEF r
  <2> QED BY <2>2, <2>3 DEF IsRequest, CallType, Sent
<1>12. ASSUME NEW w, ToggleElsewhere(c, w)
       PROVE  Sent(c, "toggle", "check") /\ call'[c].from = "other"
  <2>1. Send(c, [Request("toggle", "check") EXCEPT !.id = w, !.from = "other"])
    BY <1>12 DEF ToggleElsewhere
  <2> DEFINE r == Request("toggle", "check")
  <2>2. IsRequest(r, "toggle", "check")
    BY <1>1, Requests
  <2>3. call[c].step = "idle" /\ OthersKept(c) /\ call'[c] = [r EXCEPT !.id = w, !.from = "other"]
    BY <2>1, Sends
  <2> HIDE DEF r
  <2> QED BY <2>2, <2>3 DEF IsRequest, CallType, Sent
<1>13. ASSUME NEW op \in {"users", "search", "reports", "content"}, NEW query, NEW off,
              AskElsewhere(c, op, query, off)
       PROVE  Sent(c, op, "page") /\ call'[c].from = "other"
  <2>1. Send(c, [Request(op, "page") EXCEPT !.query = query, !.off = off, !.lim = 0, !.from = "other"])
    BY <1>13 DEF AskElsewhere
  <2> DEFINE r == Request(op, "page")
  <2>2. IsRequest(r, op, "page")
    BY <1>1, Requests
  <2>3. /\ call[c].step = "idle" /\ OthersKept(c)
        /\ call'[c] = [r EXCEPT !.query = query, !.off = off, !.lim = 0, !.from = "other"]
    BY <2>1, Sends
  <2> HIDE DEF r
  <2> QED BY <2>2, <2>3 DEF IsRequest, CallType, Sent
<1> QED
  BY <1>2, <1>3, <1>4, <1>5, <1>6, <1>7, <1>8, <1>9, <1>10, <1>11, <1>12, <1>13

\* What handlers do, but for toggles and writes.
LEMMA ServeMoves ==
  ASSUME TypeInv, NEW c \in Calls
  PROVE  /\ \A op, total : Count(c, op, total) =>
              /\ At(c, op, "count") /\ Moved(c, "page") /\ call'[c].total = total
              /\ call'[c].items = call[c].items /\ call'[c].nr = call[c].nr
              /\ UNCHANGED <<tables, cfg, view, screen>>
         /\ \A op, pages : Page(c, op, pages) =>
              \E page \in pages :
                /\ At(c, op, "page") /\ Moved(c, Replies(op, page))
                /\ call'[c].items = page
                /\ call'[c].total = call[c].total /\ call'[c].nr = call[c].nr
                /\ UNCHANGED <<tables, cfg, view, screen>>
         /\ \A op, pages : PageFirst(c, op, pages) =>
              \E page \in pages :
                /\ At(c, op, "page") /\ Moved(c, "count")
                /\ call'[c].items = page
                /\ UNCHANGED <<tables, cfg, view, screen>>
         /\ \A op, total : CountLast(c, op, total) =>
              /\ At(c, op, "count") /\ Moved(c, "reply") /\ call'[c].total = total
              /\ call'[c].items = call[c].items
              /\ UNCHANGED <<tables, cfg, view, screen>>
         /\ \A op, status : ListOfStatus(c, op, status) =>
              \E s \in {"count", "panicked", "reply"} :
                /\ call[c].op = op /\ Moved(c, s)
                /\ UNCHANGED <<tables, cfg, view, screen>>
         /\ Get(c) =>
              \E s \in {"reply", "failed", "not_found"} :
                /\ At(c, "get", "get") /\ Moved(c, s)
                /\ s = "not_found" => wallpapers[call[c].id].status # "approved"
                /\ UNCHANGED <<tables, cfg, view, screen>>
         /\ ToggleCheck(c) =>
              \E s \in {"delete", "insert"} :
                /\ At(c, "toggle", "check") /\ Moved(c, s)
                /\ UNCHANGED <<tables, cfg, view, screen>>
         /\ Fails(c) =>
              /\ Moved(c, "failed") /\ call[c].step # "idle"
              /\ UNCHANGED <<tables, cfg, view, screen>>
         /\ ReportCreate(c) => At(c, "report", "write") /\ Moved(c, "reply")
<1>1. ASSUME NEW op, NEW total, Count(c, op, total)
      PROVE  /\ At(c, op, "count") /\ Moved(c, "page") /\ call'[c].total = total
             /\ call'[c].items = call[c].items /\ call'[c].nr = call[c].nr
             /\ UNCHANGED <<tables, cfg, view, screen>>
  <2>1. call' = [call EXCEPT ![c].step = "page", ![c].total = total]
    BY <1>1 DEF Count
  <2>2. /\ Moved(c, "page") /\ call'[c].total = total
        /\ call'[c].items = call[c].items /\ call'[c].nr = call[c].nr
    BY <2>1, MovesWithTotal
  <2> QED BY <1>1, <2>2 DEF Count
<1>2. ASSUME NEW op, NEW pages, Page(c, op, pages)
      PROVE  \E page \in pages :
               /\ At(c, op, "page") /\ Moved(c, Replies(op, page))
               /\ call'[c].items = page
               /\ call'[c].total = call[c].total /\ call'[c].nr = call[c].nr
               /\ UNCHANGED <<tables, cfg, view, screen>>
  <2>1. PICK page \in pages : call' = [call EXCEPT ![c].step = Replies(op, page), ![c].items = page]
    BY <1>2 DEF Page
  <2>2. /\ Moved(c, Replies(op, page))
        /\ call'[c].items = page /\ call'[c].total = call[c].total /\ call'[c].nr = call[c].nr
    BY <2>1, MovesWithItems
  <2> QED BY <1>2, <2>2 DEF Page
<1>3. ASSUME NEW op, NEW pages, PageFirst(c, op, pages)
      PROVE  \E page \in pages :
               /\ At(c, op, "page") /\ Moved(c, "count")
               /\ call'[c].items = page
               /\ UNCHANGED <<tables, cfg, view, screen>>
  <2>1. PICK page \in pages : call' = [call EXCEPT ![c].step = "count", ![c].items = page]
    BY <1>3 DEF PageFirst
  <2>2. Moved(c, "count") /\ call'[c].items = page
    BY <2>1, MovesWithItems
  <2> QED BY <1>3, <2>2 DEF PageFirst
<1>4. ASSUME NEW op, NEW total, CountLast(c, op, total)
      PROVE  /\ At(c, op, "count") /\ Moved(c, "reply") /\ call'[c].total = total
             /\ call'[c].items = call[c].items
             /\ UNCHANGED <<tables, cfg, view, screen>>
  <2>1. call' = [call EXCEPT ![c].step = "reply", ![c].total = total]
    BY <1>4 DEF CountLast
  <2>2. /\ Moved(c, "reply") /\ call'[c].total = total
        /\ call'[c].items = call[c].items /\ call'[c].nr = call[c].nr
    BY <2>1, MovesWithTotal
  <2> QED BY <1>4, <2>2 DEF CountLast
<1>5. ASSUME NEW op, NEW status, ListOfStatus(c, op, status)
      PROVE  \E s \in {"count", "panicked", "reply"} :
               /\ call[c].op = op /\ Moved(c, s)
               /\ UNCHANGED <<tables, cfg, view, screen>>
  <2>1. CASE /\ At(c, op, "count")
             /\ call' = [call EXCEPT ![c].step = "panicked"]
             /\ UNCHANGED <<tables, cfg, view, screen, acts>>
    BY <2>1, Moves DEF At
  <2> QED BY <1>3, <1>4, <1>5, <2>1 DEF ListOfStatus, At
<1>6. ASSUME Get(c)
      PROVE  \E s \in {"reply", "failed", "not_found"} :
               /\ At(c, "get", "get") /\ Moved(c, s)
               /\ s = "not_found" => wallpapers[call[c].id].status # "approved"
               /\ UNCHANGED <<tables, cfg, view, screen>>
  <2>1. PICK s \in {"reply", "failed", "not_found"} :
          /\ call' = [call EXCEPT ![c].step = s]
          /\ s = "not_found" => wallpapers[call[c].id].status # "approved"
    BY <1>6 DEF Get, Replies, GetWallpaperByID
  <2>2. Moved(c, s)
    BY <2>1, Moves
  <2> QED BY <1>6, <2>1, <2>2 DEF Get
<1>7. ASSUME ToggleCheck(c)
      PROVE  \E s \in {"delete", "insert"} :
               /\ At(c, "toggle", "check") /\ Moved(c, s)
               /\ UNCHANGED <<tables, cfg, view, screen>>
  <2>1. PICK s \in {"delete", "insert"} : call' = [call EXCEPT ![c].step = s]
    BY <1>7 DEF ToggleCheck
  <2>2. Moved(c, s)
    BY <2>1, Moves
  <2> QED BY <1>7, <2>2 DEF ToggleCheck
<1>8. ASSUME Fails(c)
      PROVE  /\ Moved(c, "failed") /\ call[c].step # "idle"
             /\ UNCHANGED <<tables, cfg, view, screen>>
  BY <1>8, Moves DEF Fails
<1>9. ASSUME ReportCreate(c)
      PROVE  At(c, "report", "write") /\ Moved(c, "reply")
  BY <1>9, Moves DEF ReportCreate
<1> QED BY <1>1, <1>2, <1>3, <1>4, <1>5, <1>6, <1>7, <1>8, <1>9

LEMMA EndsCall ==
  ASSUME TypeInv, NEW c \in Calls
  PROVE  /\ Ends(c) => OthersKept(c) /\ call'[c] = Idle
         /\ PopularArrives(c) =>
              /\ At(c, "popular", "reply") /\ OthersKept(c)
              /\ call'[c].op = "recent" /\ call'[c].step = "count"
              /\ call'[c].items = <<>> /\ call'[c].popular = call[c].items /\ call'[c].left = 0
              /\ UNCHANGED <<tables, cfg, view, screen>>
<1>1. ASSUME Ends(c)
      PROVE  OthersKept(c) /\ call'[c] = Idle
  BY <1>1, Becomes DEF Ends
<1>2. ASSUME PopularArrives(c)
      PROVE  /\ At(c, "popular", "reply") /\ OthersKept(c)
             /\ call'[c].op = "recent" /\ call'[c].step = "count"
             /\ call'[c].items = <<>> /\ call'[c].popular = call[c].items /\ call'[c].left = 0
             /\ UNCHANGED <<tables, cfg, view, screen>>
  <2> DEFINE r == Request("recent", "count")
  <2>1. r \in CallType /\ r.op = "recent" /\ r.step = "count" /\ r.items = <<>> /\ r.left = 0
    <3>1. "recent" \in Ops /\ "count" \in Steps
      BY DEF Ops, Steps
    <3> QED BY <3>1, RequestType
  <2>2. OthersKept(c) /\ call'[c] = [r EXCEPT !.popular = call[c].items]
    BY <1>2, Becomes DEF PopularArrives
  <2> HIDE DEF r
  <2>3. /\ call'[c].op = "recent" /\ call'[c].step = "count" /\ call'[c].left = 0
        /\ call'[c].items = <<>> /\ call'[c].popular = call[c].items
    BY <2>1, <2>2 DEF CallType
  <2> QED BY <1>2, <2>2, <2>3 DEF PopularArrives, Arrives
<1> QED BY <1>1, <1>2

\* To dismiss a report moves one call on, and may count it for others.
LEMMA DismissMoves ==
  ASSUME TypeInv, NEW c \in Calls, Dismiss(c)
  PROVE  \A d \in Calls :
           /\ call'[d].op = call[d].op /\ call'[d].from = call[d].from /\ call'[d].id = call[d].id
           /\ call'[d].step = IF d = c THEN "reply" ELSE call[d].step
           /\ call'[d].category = call[d].category /\ call'[d].query = call[d].query
           /\ call'[d].off = call[d].off /\ call'[d].lim = call[d].lim
           /\ call'[d].items = call[d].items /\ call'[d].popular = call[d].popular
           /\ call'[d].total = call[d].total
           /\ call'[d].nr = call[d].nr /\ call'[d].result = call[d].result
<1> DEFINE L == LeftBehind(call[c].id)
<1>1. ASSUME NEW d \in Calls
      PROVE  L[d] = call[d] \/ L[d] = [call[d] EXCEPT !.left = @ + 1]
  BY DEF LeftBehind
<1>2. L = [d \in Calls |-> L[d]]
  BY DEF LeftBehind
<1>3. call' = [L EXCEPT ![c].step = "reply"]
  BY DEF Dismiss
<1> HIDE DEF L
<1>4. ASSUME NEW d \in Calls
      PROVE  call'[d] = IF d = c THEN [L[d] EXCEPT !.step = "reply"] ELSE L[d]
  BY <1>2, <1>3
<1>5. ASSUME NEW d \in Calls
      PROVE  /\ DOMAIN L[d] = DOMAIN call[d]
             /\ L[d].op = call[d].op /\ L[d].from = call[d].from /\ L[d].id = call[d].id
             /\ L[d].step = call[d].step
             /\ L[d].category = call[d].category /\ L[d].query = call[d].query
             /\ L[d].off = call[d].off /\ L[d].lim = call[d].lim
             /\ L[d].items = call[d].items /\ L[d].popular = call[d].popular
             /\ L[d].total = call[d].total
             /\ L[d].nr = call[d].nr /\ L[d].result = call[d].result
  <2>1. call[d] \in CallType
    BY DEF TypeInv
  <2>2. CASE L[d] = [call[d] EXCEPT !.left = @ + 1]
    BY <2>1, <2>2 DEF CallType
  <2> QED BY <1>1, <2>2
<1>6. ASSUME NEW d \in Calls
      PROVE  DOMAIN call[d] = {"op", "step", "from", "id", "category", "query", "off", "lim",
                               "items", "total", "result", "nr", "left", "popular"}
  BY DEF TypeInv, CallType
<1>7. ASSUME NEW d \in Calls, d # c
      PROVE  call'[d] = L[d] /\ call'[d].step = call[d].step
  BY <1>4, <1>5, <1>7
<1>8. call'[c] = [L[c] EXCEPT !.step = "reply"] /\ "step" \in DOMAIN L[c]
  BY <1>4, <1>5, <1>6
<1>9. /\ call'[c].step = "reply" /\ call'[c].op = L[c].op
      /\ call'[c].from = L[c].from /\ call'[c].id = L[c].id
      /\ call'[c].category = L[c].category /\ call'[c].query = L[c].query
      /\ call'[c].off = L[c].off /\ call'[c].lim = L[c].lim
      /\ call'[c].items = L[c].items /\ call'[c].popular = L[c].popular
      /\ call'[c].total = L[c].total /\ call'[c].nr = L[c].nr /\ call'[c].result = L[c].result
  <2>1. DOMAIN L[c] = {"op", "step", "from", "id", "category", "query", "off", "lim",
                       "items", "total", "result", "nr", "left", "popular"}
    BY <1>5, <1>6
  <2> QED BY <1>8, <2>1
<1>10. ASSUME NEW d \in Calls, d # c
       PROVE  /\ call'[d].op = call[d].op /\ call'[d].from = call[d].from /\ call'[d].id = call[d].id
              /\ call'[d].category = call[d].category /\ call'[d].query = call[d].query
              /\ call'[d].off = call[d].off /\ call'[d].lim = call[d].lim
              /\ call'[d].items = call[d].items /\ call'[d].popular = call[d].popular
              /\ call'[d].total = call[d].total
              /\ call'[d].nr = call[d].nr /\ call'[d].result = call[d].result
  BY <1>5, <1>7, <1>10
<1> QED BY <1>5, <1>7, <1>9, <1>10

-----------------------------------------------------------------------------
(* The heart of the detail view.                                           *)

\* An answer that reports the last change there was tells the truth.
HeartCall(c) ==
  call[c].op = "toggle" =>
    /\ call[c].from = "view" => call[c].id = Opened
    /\ call[c].step = "reply" =>
         /\ call[c].nr <= version
         /\ call[c].from = "view" /\ call[c].nr = version =>
              call[c].result = (favorites[Opened] > 0)

HeartInv ==
  /\ heartAt <= version
  /\ \A c \in Calls : HeartCall(c)
  /\ HeartTellsTheTruth

LEMMA HeartInit == Init => HeartInv
<1> SUFFICES ASSUME Init PROVE HeartInv
  OBVIOUS
<1>1. heartAt = 0 /\ version = MaxWallpapers /\ \A c \in Calls : call[c].op = "none"
  BY DEF Init, Idle
<1> QED BY <1>1, Scalars DEF HeartInv, HeartCall, HeartTellsTheTruth

\* Steps that leave favorites and heart alone.
LEMMA HeartKept ==
  ASSUME HeartInv, UNCHANGED <<favorites, version, heart>>,
         \A d \in Calls : call'[d] = call[d] \/ HeartCall(d)'
  PROVE  HeartInv'
<1>1. ASSUME NEW d \in Calls
      PROVE  HeartCall(d)'
  BY DEF HeartInv, HeartCall, heart
<1> QED BY <1>1 DEF HeartInv, HeartTellsTheTruth, heart

LEMMA HeartMoved ==
  ASSUME TypeInv, HeartInv, NEW c \in Calls, NEW s, Moved(c, s),
         call[c].op # "toggle" \/ s # "reply", UNCHANGED <<favorites, version, heart>>
  PROVE  HeartInv'
<1>1. HeartCall(c)'
  BY DEF Moved, HeartInv, HeartCall
<1> QED BY <1>1, HeartKept DEF Moved, OthersKept

LEMMA HeartSent ==
  ASSUME HeartInv, NEW c \in Calls, OthersKept(c),
         call'[c].op = "toggle" =>
           call'[c].step # "reply" /\ (call'[c].from = "view" => call'[c].id = Opened),
         UNCHANGED <<favorites, version, heart>>
  PROVE  HeartInv'
<1>1. HeartCall(c)'
  BY DEF HeartCall
<1> QED BY <1>1, HeartKept DEF OthersKept

LEMMA HeartToggled ==
  ASSUME TypeInv, HeartInv, NEW c \in Calls, call[c].op = "toggle",
         call[c].id = Opened => call'[c].result = (favorites'[Opened] > 0),
         version' = version + 1, UNCHANGED heart,
         Moved(c, "reply"), call'[c].nr = version'
  PROVE  HeartInv'
<1> DEFINE n == version'
<1>1. n = version + 1
  OBVIOUS
<1> HIDE DEF n
<1>2. version \in Nat /\ heartAt \in Nat /\ \A d \in Calls : call[d].nr \in Nat
  BY DEF TypeInv, CallType
<1>3. HeartCall(c)'
  <2>1. n <= n
    BY <1>1, <1>2
  <2>2. call'[c].from = call[c].from /\ call'[c].id = call[c].id
    BY <1>1 DEF Moved
  <2>3. call[c].from = "view" => call[c].id = Opened
    BY DEF HeartInv, HeartCall
  <2> QED BY <2>1, <2>2, <2>3 DEF HeartCall, n
<1>4. ASSUME NEW d \in Calls, d # c
      PROVE  HeartCall(d)'
  <2>1. call'[d] = call[d] /\ HeartCall(d)
    BY <1>4 DEF Moved, OthersKept, HeartInv
  <2>2. call[d].nr <= version => call[d].nr <= n /\ call[d].nr # n
    BY <1>1, <1>2
  <2> QED BY <2>1, <2>2 DEF HeartCall, n
<1>5. heartAt' <= version' /\ heartAt' # version'
  BY <1>2 DEF HeartInv, heart
<1> QED BY <1>3, <1>4, <1>5 DEF HeartInv, HeartTellsTheTruth

LEMMA HeartServe ==
  ASSUME TypeInv, HeartInv, NEW c \in Calls, Serve(c)
  PROVE  HeartInv'
<1>1. (UNCHANGED <<tables, cfg, view, screen>>) => UNCHANGED <<favorites, version, heart>>
  BY DEF tables, screen
<1>2. ASSUME NEW op, NEW total, op # "toggle", Count(c, op, total) \/ CountLast(c, op, total)
      PROVE  HeartInv'
  <2>1. PICK s : Moved(c, s) /\ call[c].op = op /\ UNCHANGED <<tables, cfg, view, screen>>
    BY <1>2, ServeMoves DEF At
  <2> QED BY <1>1, <1>2, <2>1, HeartMoved
<1>3. ASSUME NEW op, NEW pages, op # "toggle", Page(c, op, pages) \/ PageFirst(c, op, pages)
      PROVE  HeartInv'
  <2>1. PICK s : Moved(c, s) /\ call[c].op = op /\ UNCHANGED <<tables, cfg, view, screen>>
    BY <1>3, ServeMoves DEF At
  <2> QED BY <1>1, <1>3, <2>1, HeartMoved
<1>4. CASE Popular(c) \/ Recent(c) \/ List(c) \/ ListByUser(c, "load") \/ ListByUser(c, "more")
  BY <1>2, <1>3, <1>4 DEF Popular, Recent, List, ListByUser
<1>5. CASE ListAllUsers(c) \/ SearchUsers(c) \/ ListReports(c)
  BY <1>2, <1>3, <1>5 DEF ListAllUsers, SearchUsers, ListReports
<1>6. ASSUME NEW op, NEW status, op # "toggle", ListOfStatus(c, op, status)
      PROVE  HeartInv'
  <2>1. PICK s : Moved(c, s) /\ call[c].op = op /\ UNCHANGED <<tables, cfg, view, screen>>
    BY <1>6, ServeMoves
  <2> QED BY <1>1, <1>6, <2>1, HeartMoved
<1>7. CASE Get(c)
  <2>1. PICK s : Moved(c, s) /\ call[c].op = "get" /\ UNCHANGED <<tables, cfg, view, screen>>
    BY <1>7, ServeMoves DEF At
  <2> QED BY <1>1, <2>1, HeartMoved
<1>8. CASE ToggleCheck(c)
  <2>1. PICK s : Moved(c, s) /\ s # "reply" /\ UNCHANGED <<tables, cfg, view, screen>>
    BY <1>8, ServeMoves
  <2> QED BY <1>1, <2>1, HeartMoved
<1>10. CASE ToggleInsert(c)
  <2>1. CASE CheckFavorite(favorites, call[c].id)
    <3>1. call' = [call EXCEPT ![c].step = "failed"] /\ UNCHANGED <<favorites, version, heart>>
      BY <1>10, <2>1 DEF ToggleInsert
    <3>2. Moved(c, "failed")
      BY <3>1, Moves
    <3> QED BY <3>1, <3>2, HeartMoved
  <2>2. CASE ~CheckFavorite(favorites, call[c].id)
    <3> DEFINE favs == InsertFavorite(favorites, call[c].id, version + 1)
    <3>1. Opened \in Wallpapers /\ favorites \in [Wallpapers -> Nat] /\ version \in Nat
      BY Scalars DEF TypeInv, Wallpapers, Opened
    <3>2. call[c].id = Opened => favs[Opened] > 0
      BY <3>1 DEF InsertFavorite
    <3>3. call[c].op = "toggle" /\ favorites' = favs /\ version' = version + 1 /\ UNCHANGED heart
      BY <1>10, <2>2 DEF ToggleInsert, FavoritesChange, At
    <3>4. call' = [call EXCEPT ![c].step = "reply", ![c].result = TRUE, ![c].nr = version']
      BY <1>10, <2>2 DEF ToggleInsert
    <3>5. Moved(c, "reply") /\ call'[c].result = TRUE /\ call'[c].nr = version'
      BY <3>4, MovesWithResult
    <3>6. call[c].id = Opened => call'[c].result = (favorites'[Opened] > 0)
      BY <3>2, <3>3, <3>5
    <3> HIDE DEF favs
    <3> QED BY <3>3, <3>5, <3>6, HeartToggled
  <2> QED BY <2>1, <2>2
<1>11. CASE ToggleDelete(c)
  <2> DEFINE favs == DeleteFavorite(favorites, call[c].id)
  <2>1. Opened \in Wallpapers /\ favorites \in [Wallpapers -> Nat]
    BY Scalars DEF TypeInv, Wallpapers, Opened
  <2>2. call[c].id = Opened => ~(favs[Opened] > 0)
    BY <2>1 DEF DeleteFavorite
  <2>3. call[c].op = "toggle" /\ favorites' = favs /\ version' = version + 1 /\ UNCHANGED heart
    BY <1>11 DEF ToggleDelete, FavoritesChange, At
  <2>4. call' = [call EXCEPT ![c].step = "reply", ![c].result = FALSE, ![c].nr = version']
    BY <1>11 DEF ToggleDelete
  <2>5. Moved(c, "reply") /\ call'[c].result = FALSE /\ call'[c].nr = version'
    BY <2>4, MovesWithResult
  <2>6. ASSUME call[c].id = Opened
        PROVE  call'[c].result = (favorites'[Opened] > 0)
    <3>1. (favorites'[Opened] > 0) = FALSE
      BY <2>2, <2>3, <2>6
    <3> QED BY <2>5, <3>1
  <2> HIDE DEF favs
  <2> QED BY <2>3, <2>5, <2>6, HeartToggled
<1>12. CASE ReportCreate(c)
  <2>1. Moved(c, "reply") /\ call[c].op = "report" /\ UNCHANGED <<favorites, version, heart>>
    BY <1>12, ServeMoves DEF At, ReportCreate, screen
  <2> QED BY <2>1, HeartMoved
<1>13. CASE Dismiss(c)
  <2>1. ASSUME NEW d \in Calls
        PROVE  HeartCall(d)'
    <3>1. /\ call'[d].op = call[d].op /\ call'[d].from = call[d].from /\ call'[d].id = call[d].id
          /\ d # c => call'[d].step = call[d].step
          /\ call'[d].nr = call[d].nr /\ call'[d].result = call[d].result
      BY <1>13, DismissMoves
    <3> QED BY <1>13, <3>1 DEF Dismiss, HeartInv, HeartCall, At
  <2> QED BY <1>13, <2>1, HeartKept DEF Dismiss, screen
<1>14. CASE Fails(c)
  <2>1. Moved(c, "failed") /\ UNCHANGED <<tables, cfg, view, screen>>
    BY <1>14, ServeMoves
  <2> QED BY <1>1, <2>1, HeartMoved
<1> QED
  BY <1>4, <1>5, <1>6, <1>7, <1>8, <1>10, <1>11, <1>12, <1>13, <1>14
     DEF Serve, Queue, ListWallpapers

LEMMA HeartClick ==
  ASSUME TypeInv, HeartInv, NEW c \in Calls, Click(c)
  PROVE  HeartInv'
<1>1. UNCHANGED <<favorites, version, heart>>
  BY DEF Click, LoadHome, SelectCategory, Search, FetchDetail, LoadFavorites, LoadMore, Toggle,
         SubmitReport, LoadAdmin, DismissShown, tables, screen
<1>2. PICK op, step :
        /\ Sent(c, op, step)
        /\ op = "toggle" => step # "reply" /\ call'[c].id = Opened
  <2>1. CASE Toggle(c)
    BY <2>1, ClickSends
  <2>2. ASSUME NEW op \in {"queue", "users", "reports"}, LoadAdmin(c, op)
        PROVE  Sent(c, op, "page")
    BY <2>2, ClickSends
  <2>3. \/ Sent(c, "popular", "count") \/ Sent(c, "list", "count") \/ Sent(c, "get", "get")
        \/ Sent(c, "load", "count") \/ Sent(c, "more", "count") \/ Sent(c, "report", "write")
        \/ Sent(c, "dismiss", "write") \/ Toggle(c)
        \/ \E op \in {"queue", "users", "reports"} : Sent(c, op, "page")
    BY <2>2, ClickSends DEF Click
  <2> QED BY <2>1, <2>3
<1> QED BY <1>1, <1>2, HeartSent DEF Sent

LEMMA HeartAnswered ==
  ASSUME TypeInv, HeartInv, NEW c \in Calls, Answered(c)
  PROVE  HeartInv'
<1>1. ASSUME Ends(c), UNCHANGED <<favorites, version, heart>>
      PROVE  HeartInv'
  <2>1. OthersKept(c) /\ call'[c] = Idle /\ Idle.op = "none"
    BY <1>1, EndsCall, IdleType
  <2> QED BY <1>1, <2>1, HeartSent
<1>2. CASE PopularArrives(c)
  <2>1. OthersKept(c) /\ call'[c].op = "recent" /\ UNCHANGED <<tables, cfg, view, screen>>
    BY <1>2, EndsCall
  <2> QED BY <2>1, HeartSent DEF tables, screen
<1>3. CASE RecentArrives(c) \/ ResultsArrive(c) \/ FavoritesArrive(c) \/ MoreArrives(c)
  BY <1>1, <1>3 DEF RecentArrives, ResultsArrive, FavoritesArrive, MoreArrives, tables
<1>4. CASE ToggleArrives(c)
  <2>1. OthersKept(c) /\ call'[c].op = "none" /\ UNCHANGED <<favorites, version>>
    BY <1>4, EndsCall, IdleType DEF ToggleArrives, tables
  <2>2. ASSUME NEW d \in Calls
        PROVE  HeartCall(d)'
    BY <2>1 DEF OthersKept, HeartInv, HeartCall
  <2>3. /\ HeartCall(c) /\ At(c, "toggle", "reply") /\ call[c].from = "view"
        /\ isFavorited' = call[c].result /\ heartAt' = call[c].nr
    BY <1>4 DEF ToggleArrives, Arrives, HeartInv
  <2> QED BY <2>1, <2>2, <2>3 DEF At, HeartInv, HeartCall, HeartTellsTheTruth
<1>5. ASSUME NEW op, AdminArrives(c, op) \/ DismissArrives(c) \/ Over(c)
      PROVE  HeartInv'
  BY <1>1, <1>5 DEF AdminArrives, DismissArrives, Over, tables
<1> QED BY <1>2, <1>3, <1>4, <1>5 DEF Answered

LEMMA HeartStep == TypeInv /\ HeartInv /\ [Next]_vars => HeartInv'
<1> SUFFICES ASSUME TypeInv, HeartInv, [Next]_vars PROVE HeartInv'
  OBVIOUS
<1>1. ASSUME UNCHANGED <<favorites, version, heart, call>>
      PROVE  HeartInv'
  BY <1>1, HeartKept
<1>2. ASSUME NEW c \in Calls, NEW w, ToggleElsewhere(c, w)
      PROVE  HeartInv'
  <2>1. Sent(c, "toggle", "check") /\ call'[c].from = "other"
    BY <1>2, ClickSends
  <2>2. UNCHANGED <<favorites, version, heart>>
    BY <1>2 DEF ToggleElsewhere, tables, screen
  <2> QED BY <2>1, <2>2, HeartSent DEF Sent
<1>3. ASSUME NEW c \in Calls, NEW op \in {"users", "search", "reports", "content"},
             NEW query, NEW off, AskElsewhere(c, op, query, off)
      PROVE  HeartInv'
  <2>1. Sent(c, op, "page") /\ op # "toggle"
    BY <1>3, ClickSends
  <2>2. UNCHANGED <<favorites, version, heart>>
    BY <1>3 DEF AskElsewhere, tables, screen
  <2> QED BY <2>1, <2>2, HeartSent DEF Sent
<1>4. ASSUME NEW email, Register(email)
      PROVE  HeartInv'
  BY <1>1, <1>4 DEF Register, screen
<1>5. ASSUME NEW w, NEW title, NEW category, NEW status,
             \/ Create(title, category) \/ Finalize(w) \/ Approve(w) \/ Reject(w)
             \/ Download(w) \/ Withdraw(w, status) \/ EditWallpaper(w, title, category)
      PROVE  HeartInv'
  BY <1>1, <1>5
     DEF Create, Finalize, Approve, Reject, Download, Withdraw, EditWallpaper, Changes, screen
<1>6. CASE Others
  BY <1>2, <1>3, <1>4, <1>5, <1>6 DEF Others
<1>7. CASE ClearCategory \/ \E text \in Titles : Type(text)
  BY <1>1, <1>7 DEF ClearCategory, Type, tables
<1>8. CASE UNCHANGED vars
  BY <1>1, <1>8 DEF vars, tables, screen
<1> QED BY <1>6, <1>7, <1>8, HeartServe, HeartClick, HeartAnswered DEF Next

\* A heart that reports the last change of the favorites tells the truth, for
\* any number of toggles under way (service/favorite.go:23-51).
THEOREM HeartAlwaysTellsTheTruth == Spec => []HeartTellsTheTruth
<1>1. TypeInv /\ HeartInv => HeartTellsTheTruth
  BY DEF HeartInv
<1> QED BY <1>1, TypeInit, TypeStep, HeartInit, HeartStep, PTL DEF Spec

-----------------------------------------------------------------------------
(* What is shown can be opened.                                            *)

\* What is approved, or was taken back by an overtaken call.
Openable == {w \in DOMAIN wallpapers : wallpapers[w].status = "approved"} \cup withdrawn

AllOpenable(page) == \A i \in DOMAIN page : page[i] \in Openable

OpenCall(c) ==
  /\ call[c].op \notin {"load", "more"}
  /\ call[c].op \in {"popular", "recent", "list"} => AllOpenable(call[c].items)
  /\ AllOpenable(call[c].popular)
  /\ call[c].op = "get" => call[c].id \in Openable
  /\ call[c].step = "not_found" => call[c].op = "get" /\ call[c].id \in withdrawn

OpenInv ==
  view # "favorites" =>
    /\ \A c \in Calls : OpenCall(c)
    /\ \A list \in {"popular", "recent", "results", "favorites"} : AllOpenable(shown[list])

LEMMA OpenInit == Init => OpenInv
<1> SUFFICES ASSUME Init PROVE OpenInv
  OBVIOUS
<1>1. \A list \in {"popular", "recent", "results", "favorites"} : shown[list] = <<>>
  BY DEF Init, Lists
<1>2. \A c \in Calls : /\ call[c].op = "none" /\ call[c].step = "idle"
                       /\ call[c].popular = <<>>
  BY DEF Init, Idle
<1>3. AllOpenable(<<>>)
  BY DEF AllOpenable
<1> QED BY <1>1, <1>2, <1>3 DEF OpenInv, OpenCall

\* What could be opened once stays so.
LEMMA OpenableGrows ==
  TypeInv /\ [Next]_vars => Openable \subseteq Openable' /\ withdrawn \subseteq withdrawn'
<1> SUFFICES ASSUME TypeInv, [Next]_vars
             PROVE  Openable \subseteq Openable' /\ withdrawn \subseteq withdrawn'
  OBVIOUS
<1> DEFINE Grows == Openable \subseteq Openable' /\ withdrawn \subseteq withdrawn'
<1>1. (UNCHANGED <<wallpapers, withdrawn>>) => Grows
  BY DEF Openable
<1> HIDE DEF Grows
<1>2. ASSUME NEW c \in Calls, Serve(c)
      PROVE  Grows
  BY <1>1, <1>2
     DEF Serve, Popular, Recent, List, ListByUser, ListAllUsers, SearchUsers, ListReports, Queue,
         ListWallpapers, ListOfStatus, Count, Page, PageFirst, CountLast, Get, ToggleCheck,
         ToggleInsert, ToggleDelete, ReportCreate, Dismiss, Fails, tables
<1>3. ASSUME NEW c \in Calls, Click(c)
      PROVE  Grows
  BY <1>1, <1>3
     DEF Click, LoadHome, SelectCategory, Search, FetchDetail, LoadFavorites, LoadMore, Toggle,
         SubmitReport, LoadAdmin, DismissShown, tables
<1>4. ASSUME NEW c \in Calls, Answered(c)
      PROVE  Grows
  BY <1>1, <1>4
     DEF Answered, PopularArrives, RecentArrives, ResultsArrive, FavoritesArrive, MoreArrives,
         ToggleArrives, AdminArrives, DismissArrives, Over, tables
<1>5. CASE ClearCategory \/ (\E text \in Titles : Type(text)) \/ UNCHANGED vars
  BY <1>1, <1>5 DEF ClearCategory, Type, vars, tables, Grows
<1>6. ASSUME Others
      PROVE  Grows
  <2>1. ASSUME NEW title \in Titles, NEW category \in Categories \cup {NoCategory}, Create(title, category)
        PROVE  Grows
    <3> DEFINE T == WallpaperRow(Categories \cup {NoCategory}, Titles)
               row == [status |-> "pending", category |-> category, title |-> title,
                       downloads |-> 0, thumbnail |-> FALSE]
    <3>1. wallpapers' = Append(wallpapers, row) /\ withdrawn' = withdrawn
      BY <2>1 DEF Create, Changes, CreateWallpaper
    <3>2. row \in T
      BY DEF WallpaperRow, Statuses
    <3>3. wallpapers \in Seq(T)
      BY DEF TypeInv
    <3> HIDE DEF row, T
    <3>4. \A w \in DOMAIN wallpapers : w \in DOMAIN wallpapers' /\ wallpapers'[w] = wallpapers[w]
      BY <3>1, <3>2, <3>3
    <3> QED BY <3>1, <3>4 DEF Grows, Openable
  <2>2. ASSUME NEW w \in DOMAIN wallpapers,
               \A v \in DOMAIN wallpapers \ {w} : wallpapers'[v].status = wallpapers[v].status,
               DOMAIN wallpapers' = DOMAIN wallpapers,
               wallpapers[w].status = "approved" =>
                 wallpapers'[w].status = "approved" \/ w \in withdrawn',
               withdrawn \subseteq withdrawn'
        PROVE  Grows
    BY <2>2 DEF Grows, Openable
  <2>3. \A w \in DOMAIN wallpapers :
          DOMAIN wallpapers[w] = {"status", "category", "title", "downloads", "thumbnail"}
    <3> DEFINE T == WallpaperRow(Categories \cup {NoCategory}, Titles)
    <3>1. wallpapers \in Seq(T) /\ \A row \in T :
            DOMAIN row = {"status", "category", "title", "downloads", "thumbnail"}
      BY DEF TypeInv, WallpaperRow
    <3> HIDE DEF T
    <3> QED BY <3>1
  <2>4. ASSUME NEW w \in DOMAIN wallpapers, Finalize(w) \/ Approve(w) \/ Reject(w) \/ Download(w)
        PROVE  Grows
    <3>1. CASE Finalize(w)
      BY <2>2, <2>3, <3>1 DEF Finalize, Changes, UpdateWallpaperAfterFinalize
    <3>2. CASE Approve(w)
      BY <2>2, <2>3, <3>2 DEF Approve, Changes, UpdateWallpaperStatus
    <3>3. CASE Reject(w)
      BY <2>2, <2>3, <3>3 DEF Reject, Changes, UpdateWallpaperStatusWithReason
    <3>4. CASE Download(w)
      BY <2>2, <2>3, <3>4 DEF Download, Changes, IncrementDownloadCount
    <3> QED BY <2>4, <3>1, <3>2, <3>3, <3>4
  <2>5. ASSUME NEW w \in DOMAIN wallpapers, NEW status, Withdraw(w, status)
        PROVE  Grows
    BY <2>2, <2>3, <2>5 DEF Withdraw, UpdateWallpaperStatus
  <2>6. ASSUME NEW w \in DOMAIN wallpapers, NEW title, NEW category, EditWallpaper(w, title, category)
        PROVE  Grows
    BY <2>2, <2>3, <2>6 DEF EditWallpaper, UpdateWallpaperMetadata
  <2>7. \A c \in Calls : \A w : ToggleElsewhere(c, w) => Grows
    BY <1>1 DEF ToggleElsewhere, tables
  <2>8. \A c \in Calls : \A op, query, off : AskElsewhere(c, op, query, off) => Grows
    BY <1>1 DEF AskElsewhere, tables
  <2>9. \A email : Register(email) => Grows
    BY <1>1 DEF Register
  <2> QED BY <1>6, <2>1, <2>4, <2>5, <2>6, <2>7, <2>8, <2>9 DEF Others
<1> QED BY <1>2, <1>3, <1>4, <1>5, <1>6 DEF Next, Grows

LEMMA OpenCallKept ==
  ASSUME NEW d \in Calls, OpenCall(d), call'[d] = call[d],
         Openable \subseteq Openable', withdrawn \subseteq withdrawn'
  PROVE  OpenCall(d)'
BY DEF OpenCall, AllOpenable

\* Steps that change one call, but no list.
LEMMA OpenKept ==
  ASSUME TypeInv, [Next]_vars, OpenInv, UNCHANGED <<view, shown>>, NEW c \in Calls, OthersKept(c),
         view # "favorites" => OpenCall(c)'
  PROVE  OpenInv'
<1>1. Openable \subseteq Openable' /\ withdrawn \subseteq withdrawn'
  BY OpenableGrows
<1>2. ASSUME view # "favorites", NEW d \in Calls
      PROVE  OpenCall(d)'
  BY <1>1, <1>2, OpenCallKept DEF OthersKept, OpenInv
<1>3. ASSUME view # "favorites", NEW list \in {"popular", "recent", "results", "favorites"}
      PROVE  AllOpenable(shown[list])'
  BY <1>1, <1>3 DEF OpenInv, AllOpenable
<1> QED BY <1>2, <1>3 DEF OpenInv

\* Steps that change no call.
LEMMA OpenCallsKept ==
  ASSUME TypeInv, [Next]_vars, OpenInv, UNCHANGED <<view, call>>,
         \A list \in {"popular", "recent", "results", "favorites"} :
           shown'[list] = shown[list] \/ shown'[list] = <<>>
  PROVE  OpenInv'
<1>1. Openable \subseteq Openable' /\ withdrawn \subseteq withdrawn'
  BY OpenableGrows
<1>2. ASSUME view # "favorites", NEW d \in Calls
      PROVE  OpenCall(d)'
  BY <1>1, <1>2, OpenCallKept DEF OpenInv
<1>3. ASSUME view # "favorites", NEW list \in {"popular", "recent", "results", "favorites"}
      PROVE  AllOpenable(shown[list])'
  BY <1>1, <1>3 DEF OpenInv, AllOpenable
<1> QED BY <1>2, <1>3 DEF OpenInv

LEMMA OpenMoved ==
  ASSUME TypeInv, [Next]_vars, OpenInv, UNCHANGED <<view, shown>>,
         NEW c \in Calls, NEW s, Moved(c, s),
         s = "not_found" => call[c].op = "get" /\ call[c].id \in withdrawn,
         \/ call[c].op \notin {"popular", "recent", "list"}
         \/ call'[c].items = call[c].items
         \/ AllOpenable(call'[c].items)
  PROVE  OpenInv'
<1>1. Openable \subseteq Openable' /\ withdrawn \subseteq withdrawn'
  BY OpenableGrows
<1>2. ASSUME view # "favorites"
      PROVE  OpenCall(c)'
  BY <1>1, <1>2 DEF OpenInv, OpenCall, AllOpenable, Moved
<1> QED BY <1>2, OpenKept DEF Moved

LEMMA OpenSent ==
  ASSUME TypeInv, [Next]_vars, OpenInv, UNCHANGED <<view, shown>>,
         NEW c \in Calls, NEW op, NEW step, Sent(c, op, step),
         step # "not_found",
         view # "favorites" =>
           op \notin {"load", "more"} /\ (op = "get" => call'[c].id \in Openable)
  PROVE  OpenInv'
<1>1. Openable \subseteq Openable' /\ withdrawn \subseteq withdrawn'
  BY OpenableGrows
<1>2. ASSUME view # "favorites"
      PROVE  OpenCall(c)'
  BY <1>1, <1>2 DEF OpenCall, AllOpenable, Sent
<1> QED BY <1>2, OpenKept DEF Sent

\* A call ends, and what it brought is shown.
LEMMA OpenEnds ==
  ASSUME TypeInv, [Next]_vars, OpenInv, UNCHANGED view, NEW c \in Calls, Ends(c),
         view # "favorites" =>
           \A list \in {"popular", "recent", "results", "favorites"} :
             shown'[list] = shown[list] \/ AllOpenable(shown'[list])
  PROVE  OpenInv'
<1>1. Openable \subseteq Openable' /\ withdrawn \subseteq withdrawn'
  BY OpenableGrows
<1>2. OthersKept(c) /\ call'[c] = Idle
  BY EndsCall
<1>3. OpenCall(c)'
  BY <1>2 DEF OpenCall, AllOpenable, Idle
<1>4. ASSUME view # "favorites", NEW d \in Calls
      PROVE  OpenCall(d)'
  BY <1>1, <1>2, <1>3, <1>4, OpenCallKept DEF OthersKept, OpenInv
<1>5. ASSUME view # "favorites", NEW list \in {"popular", "recent", "results", "favorites"}
      PROVE  AllOpenable(shown[list])'
  BY <1>1, <1>5 DEF OpenInv, AllOpenable
<1> QED BY <1>4, <1>5 DEF OpenInv

\* The pages of the public lists.
LEMMA PageOpenable ==
  ASSUME NEW category, NEW query, NEW off, NEW lim,
         NEW page \in ListWallpapersPopular(wallpapers, "approved", category, query, off, lim)
                        \cup ListWallpapersRecent(wallpapers, "approved", category, query, off, lim)
  PROVE  AllOpenable(page)
<1> DEFINE S == Matching(wallpapers, "approved", category, query)
<1>1. S \subseteq Openable
  BY DEF Matching, Openable
<1>2. ASSUME NEW key, page \in Pages(S, key, off, lim)
      PROVE  \A i \in DOMAIN page : page[i] \in S
  <2> HIDE DEF S
  <2> QED BY <1>2 DEF Pages
<1> QED BY <1>1, <1>2 DEF ListWallpapersPopular, ListWallpapersRecent, AllOpenable

LEMMA OpenServe ==
  ASSUME TypeInv, [Next]_vars, OpenInv, NEW c \in Calls, Serve(c)
  PROVE  OpenInv'
<1>1. (UNCHANGED <<tables, cfg, view, screen>>) => UNCHANGED <<view, shown>>
  BY DEF screen
<1>2. ASSUME NEW op, NEW total, Count(c, op, total) \/ CountLast(c, op, total)
      PROVE  OpenInv'
  <2>1. PICK s : /\ Moved(c, s) /\ s # "not_found" /\ call'[c].items = call[c].items
                 /\ UNCHANGED <<tables, cfg, view, screen>>
    BY <1>2, ServeMoves
  <2> QED BY <1>1, <2>1, OpenMoved
<1>3. ASSUME NEW op, NEW pages, Page(c, op, pages),
             op \in {"load", "more"} \/ \A page \in pages : AllOpenable(page)
      PROVE  OpenInv'
  <2>1. PICK page \in pages :
          /\ call[c].op = op /\ Moved(c, Replies(op, page)) /\ call'[c].items = page
          /\ UNCHANGED <<tables, cfg, view, screen>>
    BY <1>3, ServeMoves DEF At
  <2>2. Replies(op, page) # "not_found"
    BY DEF Replies
  <2> QED BY <1>1, <1>3, <2>1, <2>2, OpenMoved
<1>4. ASSUME NEW op \in {"users", "search", "reports", "queue", "content"}, NEW pages, PageFirst(c, op, pages)
      PROVE  OpenInv'
  <2>1. call[c].op = op /\ Moved(c, "count") /\ UNCHANGED <<tables, cfg, view, screen>>
    BY <1>4, ServeMoves DEF At
  <2> QED BY <1>1, <2>1, OpenMoved
<1>5. CASE Popular(c)
  BY <1>2, <1>3, <1>5, PageOpenable DEF Popular
<1>6. CASE Recent(c)
  BY <1>2, <1>3, <1>6, PageOpenable DEF Recent
<1>7. CASE List(c)
  BY <1>2, <1>3, <1>7, PageOpenable DEF List
<1>8. CASE ListByUser(c, "load") \/ ListByUser(c, "more")
  BY <1>2, <1>3, <1>8 DEF ListByUser
<1>9. CASE ListAllUsers(c) \/ SearchUsers(c) \/ ListReports(c)
  BY <1>2, <1>4, <1>9 DEF ListAllUsers, SearchUsers, ListReports
<1>10. ASSUME NEW op \in {"queue", "content"}, NEW status, ListOfStatus(c, op, status)
       PROVE  OpenInv'
  <2>1. PICK s : /\ call[c].op = op /\ Moved(c, s) /\ s # "not_found"
                 /\ UNCHANGED <<tables, cfg, view, screen>>
    BY <1>10, ServeMoves
  <2> QED BY <1>1, <2>1, OpenMoved
<1>11. CASE Get(c)
  <2>1. PICK s : /\ At(c, "get", "get") /\ Moved(c, s)
                 /\ s = "not_found" => wallpapers[call[c].id].status # "approved"
                 /\ UNCHANGED <<tables, cfg, view, screen>>
    BY <1>11, ServeMoves
  <2>2. ASSUME view # "favorites", s = "not_found"
        PROVE  call[c].id \in withdrawn
    BY <2>1, <2>2 DEF OpenInv, OpenCall, Openable, At
  <2>3. CASE view = "favorites"
    BY <1>1, <2>1, <2>3, OpenKept DEF Moved
  <2> QED BY <1>1, <2>1, <2>2, <2>3, OpenMoved DEF At
<1>12. CASE ToggleCheck(c)
  <2>1. PICK s \in {"delete", "insert"} :
          At(c, "toggle", "check") /\ Moved(c, s) /\ UNCHANGED <<tables, cfg, view, screen>>
    BY <1>12, ServeMoves
  <2> QED BY <1>1, <2>1, OpenMoved DEF At
<1>13. CASE ToggleInsert(c) \/ ToggleDelete(c)
  <2>1. PICK s \in {"reply", "failed"} : Moved(c, s)
    <3>1. \/ call' = [call EXCEPT ![c].step = "failed"]
          \/ call' = [call EXCEPT ![c].step = "reply", ![c].result = TRUE, ![c].nr = version']
          \/ call' = [call EXCEPT ![c].step = "reply", ![c].result = FALSE, ![c].nr = version']
      BY <1>13 DEF ToggleInsert, ToggleDelete
    <3> QED BY <3>1, Moves, MovesWithResult
  <2>2. call[c].op = "toggle" /\ UNCHANGED <<view, shown>>
    BY <1>13 DEF ToggleInsert, ToggleDelete, At
  <2> QED BY <2>1, <2>2, OpenMoved
<1>14. CASE ReportCreate(c)
  <2>1. Moved(c, "reply") /\ call[c].op = "report" /\ UNCHANGED <<view, shown>>
    BY <1>14, ServeMoves DEF At, ReportCreate, screen
  <2> QED BY <2>1, OpenMoved
<1>15. CASE Dismiss(c)
  <2>1. UNCHANGED <<view, shown>> /\ Openable \subseteq Openable' /\ withdrawn \subseteq withdrawn'
    BY <1>15, OpenableGrows DEF Dismiss, screen
  <2>2. ASSUME view # "favorites", NEW d \in Calls
        PROVE  OpenCall(d)'
    BY <1>15, <2>1, <2>2, DismissMoves DEF OpenInv, OpenCall, AllOpenable
  <2>3. ASSUME view # "favorites", NEW list \in {"popular", "recent", "results", "favorites"}
        PROVE  AllOpenable(shown[list])'
    BY <2>1, <2>3 DEF OpenInv, AllOpenable
  <2> QED BY <2>1, <2>2, <2>3 DEF OpenInv
<1>16. CASE Fails(c)
  <2>1. /\ Moved(c, "failed") /\ call'[c].items = call[c].items
        /\ UNCHANGED <<view, shown>>
    <3>1. call' = [call EXCEPT ![c].step = "failed"]
      BY <1>16 DEF Fails
    <3> QED BY <1>16, <3>1, Moves DEF Fails, screen
  <2> QED BY <2>1, OpenMoved
<1> QED
  BY <1>5, <1>6, <1>7, <1>8, <1>9, <1>10, <1>11, <1>12, <1>13, <1>14, <1>15, <1>16
     DEF Serve, Queue, ListWallpapers

LEMMA OpenClick ==
  ASSUME TypeInv, [Next]_vars, OpenInv, NEW c \in Calls, Click(c)
  PROVE  OpenInv'
<1>1. UNCHANGED <<view, shown>>
  BY DEF Click, LoadHome, SelectCategory, Search, FetchDetail, LoadFavorites, LoadMore, Toggle,
         SubmitReport, LoadAdmin, DismissShown, screen
<1>2. ASSUME NEW op, NEW step, Sent(c, op, step), op \notin {"load", "more", "get"}, step # "not_found"
      PROVE  OpenInv'
  BY <1>1, <1>2, OpenSent
<1>3. CASE LoadHome(c) \/ Toggle(c) \/ SubmitReport(c)
  BY <1>2, <1>3, ClickSends
<1>4. ASSUME NEW category, SelectCategory(c, category)
      PROVE  OpenInv'
  BY <1>2, <1>4, ClickSends
<1>5. CASE Search(c)
  BY <1>2, <1>5, ClickSends
<1>6. ASSUME NEW w, FetchDetail(c, w)
      PROVE  OpenInv'
  <2>1. Sent(c, "get", "get") /\ call'[c].id = w
    BY <1>6, ClickSends
  <2>2. view # "favorites" => w \in Openable
    BY <1>6 DEF FetchDetail, OpenInv, AllOpenable
  <2> QED BY <1>1, <2>1, <2>2, OpenSent
<1>7. ASSUME LoadFavorites(c) \/ LoadMore(c)
      PROVE  OpenInv'
  <2>1. PICK op : Sent(c, op, "count") /\ op # "get" /\ view = "favorites"
    BY <1>7, ClickSends DEF LoadFavorites, LoadMore
  <2> QED BY <1>1, <2>1, OpenSent
<1>8. ASSUME NEW op \in {"queue", "users", "reports"}, LoadAdmin(c, op)
      PROVE  OpenInv'
  BY <1>2, <1>8, ClickSends
<1>9. ASSUME NEW r, DismissShown(c, r)
      PROVE  OpenInv'
  BY <1>2, <1>9, ClickSends
<1> QED BY <1>3, <1>4, <1>5, <1>6, <1>7, <1>8, <1>9 DEF Click

LEMMA OpenAnswered ==
  ASSUME TypeInv, [Next]_vars, OpenInv, NEW c \in Calls, Answered(c)
  PROVE  OpenInv'
<1> DEFINE Public == {"popular", "recent", "results", "favorites"}
<1>1. DOMAIN shown = Lists /\ Public \subseteq Lists
  BY DEF TypeInv, ShownInv, Lists
<1>2. view # "favorites" =>
        OpenCall(c) /\ \A list \in Public : AllOpenable(shown[list])
  BY DEF OpenInv
<1>3. CASE PopularArrives(c)
  <2>1. /\ At(c, "popular", "reply") /\ OthersKept(c)
        /\ call'[c].op = "recent" /\ call'[c].step = "count"
        /\ call'[c].items = <<>> /\ call'[c].popular = call[c].items
        /\ UNCHANGED <<tables, cfg, view, screen>>
    BY <1>3, EndsCall
  <2>2. Openable' = Openable
    BY <2>1 DEF tables, Openable
  <2>3. ASSUME view # "favorites"
        PROVE  OpenCall(c)'
    BY <1>2, <2>1, <2>2, <2>3 DEF At, OpenCall, AllOpenable
  <2> QED BY <2>1, <2>3, OpenKept DEF screen
<1>4. CASE RecentArrives(c)
  <2>1. /\ Ends(c) /\ UNCHANGED view /\ call[c].op = "recent"
        /\ shown' = [shown EXCEPT !["popular"] = call[c].popular, !["recent"] = call[c].items]
    BY <1>4 DEF RecentArrives, Arrives, At
  <2>2. ASSUME NEW list \in Public
        PROVE  \/ shown'[list] = shown[list]
               \/ shown'[list] = call[c].popular \/ shown'[list] = call[c].items
    BY <1>1, <2>1
  <2> QED BY <1>2, <2>1, <2>2, OpenEnds DEF OpenCall
<1>5. CASE ResultsArrive(c)
  <2>1. PICK page : /\ Ends(c) /\ UNCHANGED view /\ call[c].op = "list"
                    /\ page = call[c].items \/ page = <<>>
                    /\ shown' = [shown EXCEPT !["results"] = page]
    BY <1>5 DEF ResultsArrive
  <2>2. AllOpenable(<<>>)
    BY DEF AllOpenable
  <2>3. ASSUME NEW list \in Public
        PROVE  shown'[list] = shown[list] \/ shown'[list] = page
    BY <1>1, <2>1
  <2> QED BY <1>2, <2>1, <2>2, <2>3, OpenEnds DEF OpenCall
<1>6. CASE FavoritesArrive(c) \/ MoreArrives(c)
  <2>1. Ends(c) /\ UNCHANGED view /\ call[c].op \in {"load", "more"}
    BY <1>6 DEF FavoritesArrive, MoreArrives, Arrives, At
  <2>2. view = "favorites"
    BY <1>2, <2>1 DEF OpenCall
  <2> QED BY <2>1, <2>2, OpenEnds
<1>7. CASE ToggleArrives(c) \/ Over(c)
  BY <1>7, OpenEnds DEF ToggleArrives, Over
<1>8. ASSUME NEW op, AdminArrives(c, op) \/ DismissArrives(c)
      PROVE  OpenInv'
  <2>1. PICK list, q : /\ Ends(c) /\ UNCHANGED view /\ list \notin Public
                       /\ shown' = [shown EXCEPT ![list] = q]
    <3>1. CASE AdminArrives(c, op)
      <4>1. op \notin Public /\ shown' = [shown EXCEPT ![op] = call[c].items]
        BY <3>1 DEF AdminArrives
      <4> QED BY <3>1, <4>1 DEF AdminArrives
    <3>2. CASE DismissArrives(c)
      <4> DEFINE q == Dropping(shown["reports"], call[c].id)
      <4>1. shown' = [shown EXCEPT !["reports"] = q]
        BY <3>2 DEF DismissArrives
      <4> HIDE DEF q
      <4> QED BY <3>2, <4>1 DEF DismissArrives
    <3> QED BY <1>8, <3>1, <3>2
  <2>2. \A l \in Public : shown'[l] = shown[l]
    BY <1>1, <2>1
  <2> QED BY <2>1, <2>2, OpenEnds
<1> QED BY <1>3, <1>4, <1>5, <1>6, <1>7, <1>8 DEF Answered

LEMMA OpenStep == TypeInv /\ OpenInv /\ [Next]_vars => OpenInv'
<1> SUFFICES ASSUME TypeInv, OpenInv, [Next]_vars PROVE OpenInv'
  OBVIOUS
<1>1. ASSUME UNCHANGED <<view, call, shown>>
      PROVE  OpenInv'
  BY <1>1, OpenCallsKept
<1>2. ASSUME NEW c \in Calls, NEW w, ToggleElsewhere(c, w)
      PROVE  OpenInv'
  <2>1. Sent(c, "toggle", "check") /\ UNCHANGED <<view, shown>>
    BY <1>2, ClickSends DEF ToggleElsewhere, screen
  <2> QED BY <2>1, OpenSent
<1>3. ASSUME NEW c \in Calls, NEW op \in {"users", "search", "reports", "content"},
             NEW query, NEW off, AskElsewhere(c, op, query, off)
      PROVE  OpenInv'
  <2>1. Sent(c, op, "page")
    BY <1>3, ClickSends
  <2>2. UNCHANGED <<view, shown>>
    BY <1>3 DEF AskElsewhere, screen
  <2> QED BY <2>1, <2>2, OpenSent
<1>4. ASSUME NEW email, Register(email)
      PROVE  OpenInv'
  BY <1>1, <1>4 DEF Register, screen
<1>5. ASSUME NEW title, NEW category, Create(title, category)
      PROVE  OpenInv'
  BY <1>1, <1>5 DEF Create, Changes, screen
<1>6. ASSUME NEW w, Finalize(w) \/ Approve(w) \/ Reject(w) \/ Download(w)
      PROVE  OpenInv'
  BY <1>1, <1>6 DEF Finalize, Approve, Reject, Download, Changes, screen
<1>7. ASSUME NEW w, NEW status, Withdraw(w, status)
      PROVE  OpenInv'
  BY <1>1, <1>7 DEF Withdraw, screen
<1>8. ASSUME NEW w, NEW title, NEW category, EditWallpaper(w, title, category)
      PROVE  OpenInv'
  BY <1>1, <1>8 DEF EditWallpaper, screen
<1>9. CASE Others
  BY <1>2, <1>3, <1>4, <1>5, <1>6, <1>7, <1>8, <1>9 DEF Others
<1>10. CASE ClearCategory
  <2>1. UNCHANGED <<view, call>> /\ shown' = [shown EXCEPT !["results"] = <<>>]
    BY <1>10 DEF ClearCategory
  <2>2. \A list \in {"popular", "recent", "results", "favorites"} :
          shown'[list] = shown[list] \/ shown'[list] = <<>>
    BY <2>1 DEF TypeInv, ShownInv, Lists
  <2> QED BY <2>1, <2>2, OpenCallsKept
<1>11. CASE UNCHANGED vars
  BY <1>1, <1>11 DEF vars, screen
<1>12. ASSUME NEW text, Type(text)
       PROVE  OpenInv'
  BY <1>1, <1>12 DEF Type
<1> QED BY <1>9, <1>10, <1>11, <1>12, OpenServe, OpenClick, OpenAnswered DEF Next

\* What the home and explore views show can be opened, for as long as it is
\* shown, unless an overtaken call took it back (handler/wallpaper.go:68-157).
THEOREM ShownCanAlwaysBeOpened == Spec => []ShownCanBeOpened
<1>1. OpenInv => ShownCanBeOpened
  BY DEF OpenInv, OpenCall, ShownCanBeOpened
<1> QED BY <1>1, TypeInit, TypeStep, OpenInit, OpenStep, PTL DEF Spec

-----------------------------------------------------------------------------
(* What is shown answers what was asked.                                   *)

\* A page that answers a question.
AllFit(page, category, query) ==
  \A i \in DOMAIN page :
    page[i] \in DOMAIN wallpapers /\ (page[i] \in edited \/ Fits(page[i], category, query))

\* A question under way overlaps with the last one, and is answered on its
\* own terms.
ResultsCall(c) ==
  call[c].op = "list" =>
    /\ call[c].from = "view" /\ call[c].step \in {"count", "page", "reply", "failed"}
    /\ call[c].category # NotGiven \/ call[c].query # NotGiven
    /\ since <= call[c].nr /\ call[c].nr <= asked.nr
    /\ call[c].nr = asked.nr => call[c].category = asked.category /\ call[c].query = asked.query
    /\ AllFit(call[c].items, call[c].category, call[c].query)

\* The view names the category of the last question, if it had one.
QuestionsInv ==
  /\ since <= asked.nr /\ answered.nr <= asked.nr
  /\ answered.nr = asked.nr => answered = asked
  /\ selectedCategory = asked.category
  /\ asked.category # NotGiven => asked.query = NotGiven

ResultsInv ==
  /\ QuestionsInv
  /\ \A c \in Calls : ResultsCall(c)
  /\ NoQuestionUnderWay => answered.nr >= since
  /\ AllFit(shown["results"], answered.category, answered.query)

LEMMA Numbers ==
  ASSUME TypeInv
  PROVE  /\ asked.nr \in Nat /\ answered.nr \in Nat /\ since \in Nat
         /\ \A c \in Calls : call[c].nr \in Nat
BY DEF TypeInv, CallType, Question

LEMMA ResultsInit == Init => ResultsInv
<1> SUFFICES ASSUME Init PROVE ResultsInv
  OBVIOUS
<1>1. shown["results"] = <<>> /\ \A c \in Calls : call[c].op = "none"
  BY DEF Init, Lists, Idle
<1>2. asked = NothingAsked /\ answered = NothingAsked /\ since = 0 /\ selectedCategory = NotGiven
  BY DEF Init
<1>3. NothingAsked.nr = 0 /\ NothingAsked.category = NotGiven
  BY DEF NothingAsked
<1>4. QuestionsInv /\ answered.nr >= since
  BY <1>2, <1>3 DEF QuestionsInv
<1>5. AllFit(shown["results"], answered.category, answered.query)
  BY <1>1 DEF AllFit
<1>6. \A c \in Calls : ResultsCall(c)
  BY <1>1 DEF ResultsCall
<1> QED BY <1>4, <1>5, <1>6 DEF ResultsInv

\* Titles and categories are only changed by EditWallpaper.
LEMMA RowsKept ==
  TypeInv /\ [Next]_vars =>
    /\ edited \subseteq edited'
    /\ \A w \in DOMAIN wallpapers :
         /\ w \in DOMAIN wallpapers'
         /\ \/ w \in edited'
            \/ /\ wallpapers'[w].category = wallpapers[w].category
               /\ wallpapers'[w].title = wallpapers[w].title
<1> DEFINE Keeps == /\ edited \subseteq edited'
                    /\ \A w \in DOMAIN wallpapers :
                         /\ w \in DOMAIN wallpapers'
                         /\ \/ w \in edited'
                            \/ /\ wallpapers'[w].category = wallpapers[w].category
                               /\ wallpapers'[w].title = wallpapers[w].title
<1> SUFFICES ASSUME TypeInv, [Next]_vars PROVE Keeps
  OBVIOUS
<1>1. (UNCHANGED <<wallpapers, edited>>) => Keeps
  OBVIOUS
<1> HIDE DEF Keeps
<1>2. ASSUME NEW c \in Calls, Serve(c)
      PROVE  Keeps
  BY <1>1, <1>2
     DEF Serve, Popular, Recent, List, ListByUser, ListAllUsers, SearchUsers, ListReports, Queue,
         ListWallpapers, ListOfStatus, Count, Page, PageFirst, CountLast, Get, ToggleCheck,
         ToggleInsert, ToggleDelete, ReportCreate, Dismiss, Fails, tables
<1>3. ASSUME NEW c \in Calls, Click(c)
      PROVE  Keeps
  BY <1>1, <1>3
     DEF Click, LoadHome, SelectCategory, Search, FetchDetail, LoadFavorites, LoadMore, Toggle,
         SubmitReport, LoadAdmin, DismissShown, tables
<1>4. ASSUME NEW c \in Calls, Answered(c)
      PROVE  Keeps
  BY <1>1, <1>4
     DEF Answered, PopularArrives, RecentArrives, ResultsArrive, FavoritesArrive, MoreArrives,
         ToggleArrives, AdminArrives, DismissArrives, Over, tables
<1>5. CASE ClearCategory \/ (\E text \in Titles : Type(text)) \/ UNCHANGED vars
  BY <1>1, <1>5 DEF ClearCategory, Type, vars, tables
<1>6. ASSUME Others
      PROVE  Keeps
  <2>1. ASSUME NEW title \in Titles, NEW category \in Categories \cup {NoCategory}, Create(title, category)
        PROVE  Keeps
    <3> DEFINE T == WallpaperRow(Categories \cup {NoCategory}, Titles)
               row == [status |-> "pending", category |-> category, title |-> title,
                       downloads |-> 0, thumbnail |-> FALSE]
    <3>1. wallpapers' = Append(wallpapers, row) /\ edited' = edited
      BY <2>1 DEF Create, Changes, CreateWallpaper
    <3>2. row \in T
      BY DEF WallpaperRow, Statuses
    <3>3. wallpapers \in Seq(T)
      BY DEF TypeInv
    <3> HIDE DEF row, T
    <3>4. \A w \in DOMAIN wallpapers : w \in DOMAIN wallpapers' /\ wallpapers'[w] = wallpapers[w]
      BY <3>1, <3>2, <3>3
    <3> QED BY <3>1, <3>4 DEF Keeps
  <2>2. ASSUME NEW w \in DOMAIN wallpapers,
               \A v \in DOMAIN wallpapers \ {w} : wallpapers'[v] = wallpapers[v],
               DOMAIN wallpapers' = DOMAIN wallpapers,
               \/ w \in edited'
               \/ /\ wallpapers'[w].category = wallpapers[w].category
                  /\ wallpapers'[w].title = wallpapers[w].title,
               edited \subseteq edited'
        PROVE  Keeps
    BY <2>2 DEF Keeps
  <2>3. \A w \in DOMAIN wallpapers :
          DOMAIN wallpapers[w] = {"status", "category", "title", "downloads", "thumbnail"}
    <3> DEFINE T == WallpaperRow(Categories \cup {NoCategory}, Titles)
    <3>1. wallpapers \in Seq(T) /\ \A row \in T :
            DOMAIN row = {"status", "category", "title", "downloads", "thumbnail"}
      BY DEF TypeInv, WallpaperRow
    <3> HIDE DEF T
    <3> QED BY <3>1
  <2>4. ASSUME NEW w \in DOMAIN wallpapers, Finalize(w) \/ Approve(w) \/ Reject(w) \/ Download(w)
        PROVE  Keeps
    <3>1. CASE Finalize(w)
      BY <2>2, <2>3, <3>1 DEF Finalize, Changes, UpdateWallpaperAfterFinalize
    <3>2. CASE Approve(w)
      BY <2>2, <2>3, <3>2 DEF Approve, Changes, UpdateWallpaperStatus
    <3>3. CASE Reject(w)
      BY <2>2, <2>3, <3>3 DEF Reject, Changes, UpdateWallpaperStatusWithReason
    <3>4. CASE Download(w)
      BY <2>2, <2>3, <3>4 DEF Download, Changes, IncrementDownloadCount
    <3> QED BY <2>4, <3>1, <3>2, <3>3, <3>4
  <2>5. ASSUME NEW w \in DOMAIN wallpapers, NEW status, Withdraw(w, status)
        PROVE  Keeps
    BY <2>2, <2>3, <2>5 DEF Withdraw, UpdateWallpaperStatus
  <2>6. ASSUME NEW w \in DOMAIN wallpapers, NEW title, NEW category, EditWallpaper(w, title, category)
        PROVE  Keeps
    BY <2>2, <2>3, <2>6 DEF EditWallpaper, UpdateWallpaperMetadata
  <2>7. \A c \in Calls : \A w : ToggleElsewhere(c, w) => Keeps
    BY <1>1 DEF ToggleElsewhere, tables
  <2>8. \A c \in Calls : \A op, query, off : AskElsewhere(c, op, query, off) => Keeps
    BY <1>1 DEF AskElsewhere, tables
  <2>9. \A email : Register(email) => Keeps
    BY <1>1 DEF Register
  <2> QED BY <1>6, <2>1, <2>4, <2>5, <2>6, <2>7, <2>8, <2>9 DEF Others
<1> QED BY <1>2, <1>3, <1>4, <1>5, <1>6 DEF Next

LEMMA FitsKept ==
  ASSUME TypeInv, [Next]_vars, NEW page, NEW category, NEW query, AllFit(page, category, query)
  PROVE  AllFit(page, category, query)'
<1>1. ASSUME NEW w \in DOMAIN wallpapers, w \in edited \/ Fits(w, category, query)
      PROVE  w \in DOMAIN wallpapers' /\ (w \in edited' \/ Fits(w, category, query)')
  BY <1>1, RowsKept DEF Fits
<1> QED BY <1>1 DEF AllFit

LEMMA ResultsCallKept ==
  ASSUME TypeInv, [Next]_vars, UNCHANGED <<asked, since>>,
         NEW d \in Calls, ResultsCall(d), call'[d] = call[d]
  PROVE  ResultsCall(d)'
<1>1. call[d].op = "list" => AllFit(call[d].items, call[d].category, call[d].query)'
  <2>1. CASE call[d].op = "list"
    <3>1. PICK page, category, query :
            /\ page = call[d].items /\ category = call[d].category /\ query = call[d].query
            /\ AllFit(page, category, query)
      BY <2>1 DEF ResultsCall
    <3>2. AllFit(page, category, query)'
      BY <3>1, FitsKept
    <3> QED BY <3>1, <3>2
  <2> QED BY <2>1
<1> QED BY <1>1 DEF ResultsCall

\* What is shown answers its question still.
LEMMA ShownFitsKept ==
  ASSUME TypeInv, [Next]_vars, ResultsInv, UNCHANGED answered, shown'["results"] = shown["results"]
  PROVE  AllFit(shown["results"], answered.category, answered.query)'
<1>1. PICK page, category, query :
        /\ page = shown["results"] /\ category = answered.category /\ query = answered.query
        /\ AllFit(page, category, query)
  BY DEF ResultsInv
<1>2. AllFit(page, category, query)'
  BY <1>1, FitsKept
<1> QED BY <1>1, <1>2

\* Steps that neither ask nor answer a question.
LEMMA ResultsCallsKept ==
  ASSUME TypeInv, [Next]_vars, ResultsInv,
         UNCHANGED <<selectedCategory, asked, answered, since>>,
         shown'["results"] = shown["results"],
         \A d \in Calls : call'[d] = call[d] \/ ResultsCall(d)',
         \A d \in Calls : call[d].op = "list" => call'[d].op = "list"
  PROVE  ResultsInv'
<1>1. QuestionsInv'
  BY DEF QuestionsInv, ResultsInv
<1>2. ASSUME NEW d \in Calls
      PROVE  ResultsCall(d)'
  BY <1>2, ResultsCallKept DEF ResultsInv
<1>3. (NoQuestionUnderWay => answered.nr >= since)'
  BY DEF ResultsInv, NoQuestionUnderWay
<1> QED BY <1>1, <1>2, <1>3, ShownFitsKept DEF ResultsInv

LEMMA ResultsKept ==
  ASSUME TypeInv, [Next]_vars, ResultsInv, UNCHANGED explore,
         shown'["results"] = shown["results"],
         NEW c \in Calls, OthersKept(c), ResultsCall(c)', call[c].op = "list" => call'[c].op = "list"
  PROVE  ResultsInv'
BY ResultsCallsKept DEF explore, OthersKept

LEMMA ResultsMoved ==
  ASSUME TypeInv, [Next]_vars, ResultsInv, UNCHANGED <<explore, shown>>,
         NEW c \in Calls, NEW s, Moved(c, s),
         \/ call[c].op # "list"
         \/ /\ s \in {"page", "reply", "failed"} /\ call'[c].nr = call[c].nr
            /\ \/ call'[c].items = call[c].items
               \/ AllFit(call'[c].items, call[c].category, call[c].query)
  PROVE  ResultsInv'
<1>1. UNCHANGED <<asked, since>>
  BY DEF explore
<1>2. ASSUME call[c].op = "list"
      PROVE  ResultsCall(c)'
  <2>1. PICK page, category, query :
          /\ page = call'[c].items /\ category = call[c].category /\ query = call[c].query
          /\ AllFit(page, category, query)
    BY <1>2 DEF ResultsInv, ResultsCall
  <2>2. AllFit(page, category, query)'
    BY <2>1, FitsKept
  <2>3. /\ call'[c].op = "list" /\ call'[c].from = call[c].from /\ call'[c].step = s
        /\ call'[c].category = category /\ call'[c].query = query
    BY <1>2, <2>1 DEF Moved
  <2>4. AllFit(call[c].items, call[c].category, call[c].query)'
    BY <2>1, <2>2, <2>3
  <2>5. s \in {"page", "reply", "failed"} /\ call'[c].nr = call[c].nr
    BY <1>2
  <2>6. ResultsCall(c)
    BY DEF ResultsInv
  <2> QED BY <1>1, <1>2, <2>1, <2>3, <2>4, <2>5, <2>6 DEF ResultsCall
<1>3. ResultsCall(c)'
  BY <1>2 DEF ResultsCall, Moved
<1> QED BY <1>3, ResultsKept DEF Moved

LEMMA ResultsSent ==
  ASSUME TypeInv, [Next]_vars, ResultsInv, UNCHANGED <<explore, shown>>,
         NEW c \in Calls, OthersKept(c), call[c].op # "list", call'[c].op # "list"
  PROVE  ResultsInv'
BY ResultsKept DEF ResultsCall

\* An idle call asks nothing.
LEMMA IdleAsksNothing ==
  ASSUME ResultsInv, NEW c \in Calls, call[c].step = "idle"
  PROVE  call[c].op # "list"
BY DEF ResultsInv, ResultsCall

LEMMA ResultsEnds ==
  ASSUME TypeInv, [Next]_vars, ResultsInv, UNCHANGED explore,
         shown'["results"] = shown["results"],
         NEW c \in Calls, Ends(c), call[c].op # "list"
  PROVE  ResultsInv'
<1>1. OthersKept(c) /\ call'[c].op = "none"
  BY EndsCall, IdleType
<1> QED BY <1>1, ResultsKept DEF ResultsCall

\* A question, whether it is answered at once or not.
LEMMA Asking ==
  ASSUME TypeInv, [Next]_vars, ResultsInv,
         NEW category, NEW query, category # NotGiven => query = NotGiven,
         Asks(category, query), selectedCategory' = category,
         (UNCHANGED answered) \/ answered' = asked'
  PROVE  /\ QuestionsInv'
         /\ asked'.nr = asked.nr + 1 /\ asked'.category = category /\ asked'.query = query
         /\ since' <= asked'.nr
         /\ \A d \in Calls : call'[d] = call[d] => ResultsCall(d)'
<1>1. asked.nr \in Nat /\ answered.nr \in Nat /\ since \in Nat /\ \A d \in Calls : call[d].nr \in Nat
  BY Numbers
<1>2. asked'.nr = asked.nr + 1 /\ asked'.category = category /\ asked'.query = query
  BY DEF Asks
<1>3. since' = (IF NoQuestionUnderWay THEN asked.nr + 1 ELSE since)
  BY DEF Asks
<1>4. since <= asked.nr /\ answered.nr <= asked.nr
  BY DEF ResultsInv, QuestionsInv
<1>5. since' <= asked'.nr
  BY <1>1, <1>2, <1>3, <1>4
<1>6. QuestionsInv'
  <2>1. answered'.nr <= asked'.nr /\ (answered'.nr = asked'.nr => answered' = asked')
    BY <1>1, <1>2, <1>4
  <2> QED BY <1>2, <1>5, <2>1 DEF QuestionsInv
<1>7. ASSUME NEW d \in Calls, call'[d] = call[d]
      PROVE  ResultsCall(d)'
  <2>1. CASE call[d].op = "list"
    <3>1. /\ call[d].from = "view" /\ call[d].step \in {"count", "page", "reply", "failed"}
          /\ call[d].category # NotGiven \/ call[d].query # NotGiven
          /\ since <= call[d].nr /\ call[d].nr <= asked.nr
      BY <2>1 DEF ResultsInv, ResultsCall
    <3>2. since' = since
      BY <1>3, <2>1 DEF NoQuestionUnderWay
    <3>3. PICK page, c, q : /\ page = call[d].items /\ c = call[d].category /\ q = call[d].query
                            /\ AllFit(page, c, q)
      BY <2>1 DEF ResultsInv, ResultsCall
    <3>4. AllFit(page, c, q)'
      BY <3>3, FitsKept
    <3>5. AllFit(call[d].items, call[d].category, call[d].query)'
      BY <1>7, <3>3, <3>4
    <3>6. call[d].nr <= asked'.nr /\ call[d].nr # asked'.nr
      BY <1>1, <1>2, <3>1
    <3> QED BY <1>7, <3>1, <3>2, <3>5, <3>6 DEF ResultsCall
  <2>2. CASE call[d].op # "list"
    BY <1>7, <2>2 DEF ResultsCall
  <2> QED BY <2>1, <2>2
<1> QED BY <1>2, <1>5, <1>6, <1>7

\* A question that is sent.
LEMMA ResultsAsked ==
  ASSUME TypeInv, [Next]_vars, ResultsInv,
         NEW category, NEW query, category # NotGiven => query = NotGiven,
         Asks(category, query), selectedCategory' = category, UNCHANGED <<shown, answered>>,
         NEW c \in Calls, Sent(c, "list", "count"), call'[c].from = "view", call'[c].nr = asked.nr + 1,
         call'[c].category = category, call'[c].query = query,
         category # NotGiven \/ query # NotGiven
  PROVE  ResultsInv'
<1>1. /\ QuestionsInv'
      /\ asked'.nr = asked.nr + 1 /\ asked'.category = category /\ asked'.query = query
      /\ since' <= asked'.nr
      /\ \A d \in Calls : call'[d] = call[d] => ResultsCall(d)'
  BY Asking
<1>2. ResultsCall(c)'
  <2>1. AllFit(call[c].items, call[c].category, call[c].query)'
    BY DEF AllFit, Sent
  <2>2. asked'.nr <= asked'.nr
    BY <1>1, Numbers
  <2> QED BY <1>1, <2>1, <2>2 DEF ResultsCall, Sent
<1>3. ~NoQuestionUnderWay'
  BY DEF NoQuestionUnderWay, Sent
<1>4. \A d \in Calls : ResultsCall(d)'
  BY <1>1, <1>2 DEF Sent, OthersKept
<1> QED BY <1>1, <1>3, <1>4, ShownFitsKept DEF ResultsInv

\* The page that List reads.
LEMMA ListedPageFits ==
  ASSUME NEW c \in Calls, call[c].category # NotGiven \/ call[c].query # NotGiven, NEW off, NEW lim,
         NEW page \in ListWallpapersRecent(wallpapers, "approved", call[c].category, call[c].query, off, lim)
  PROVE  AllFit(page, call[c].category, call[c].query)
<1> DEFINE S == Matching(wallpapers, "approved", call[c].category, call[c].query)
<1>1. \A w \in S : w \in DOMAIN wallpapers /\ Fits(w, call[c].category, call[c].query)
  BY DEF Matching, Fits
<1>2. ASSUME NEW key, page \in Pages(S, key, off, lim)
      PROVE  \A i \in DOMAIN page : page[i] \in S
  <2> HIDE DEF S
  <2> QED BY <1>2 DEF Pages
<1> QED BY <1>1, <1>2 DEF ListWallpapersRecent, AllFit

LEMMA ResultsServe ==
  ASSUME TypeInv, [Next]_vars, ResultsInv, NEW c \in Calls, Serve(c)
  PROVE  ResultsInv'
<1>1. (UNCHANGED <<tables, cfg, view, screen>>) => UNCHANGED <<explore, shown>>
  BY DEF screen
<1>2. ASSUME NEW op, NEW total, Count(c, op, total)
      PROVE  ResultsInv'
  <2>1. /\ Moved(c, "page") /\ call'[c].items = call[c].items /\ call'[c].nr = call[c].nr
        /\ UNCHANGED <<tables, cfg, view, screen>>
    BY <1>2, ServeMoves
  <2> QED BY <1>1, <2>1, ResultsMoved
<1>3. ASSUME NEW op, NEW pages, Page(c, op, pages), op # "list"
      PROVE  ResultsInv'
  <2>1. PICK s : call[c].op = op /\ Moved(c, s) /\ UNCHANGED <<tables, cfg, view, screen>>
    BY <1>3, ServeMoves DEF At
  <2> QED BY <1>1, <1>3, <2>1, ResultsMoved
<1>4. ASSUME NEW op, NEW pages, NEW total, op # "list", PageFirst(c, op, pages) \/ CountLast(c, op, total)
      PROVE  ResultsInv'
  <2>1. PICK s : call[c].op = op /\ Moved(c, s) /\ UNCHANGED <<tables, cfg, view, screen>>
    BY <1>4, ServeMoves DEF At
  <2> QED BY <1>1, <1>4, <2>1, ResultsMoved
<1>5. CASE Popular(c)
  BY <1>2, <1>3, <1>5 DEF Popular
<1>6. CASE Recent(c)
  BY <1>2, <1>3, <1>6 DEF Recent
<1>7. CASE List(c)
  <2> DEFINE pages == ListWallpapersRecent(wallpapers, "approved", call[c].category, call[c].query,
                                           Off(c), Lim(c))
  <2>1. ASSUME Page(c, "list", pages)
        PROVE  ResultsInv'
    <3>1. PICK page \in pages :
            /\ call[c].op = "list" /\ Moved(c, Replies("list", page))
            /\ call'[c].items = page /\ call'[c].nr = call[c].nr
            /\ UNCHANGED <<tables, cfg, view, screen>>
      BY <2>1, ServeMoves DEF At
    <3>2. call[c].category # NotGiven \/ call[c].query # NotGiven
      BY <3>1 DEF ResultsInv, ResultsCall
    <3>3. AllFit(page, call[c].category, call[c].query)
      BY <3>1, <3>2, ListedPageFits
    <3>4. Replies("list", page) \in {"page", "reply", "failed"}
      BY DEF Replies
    <3> QED BY <1>1, <3>1, <3>3, <3>4, ResultsMoved
  <2> QED BY <1>2, <1>7, <2>1 DEF List
<1>8. CASE ListByUser(c, "load") \/ ListByUser(c, "more")
  BY <1>2, <1>3, <1>8 DEF ListByUser
<1>9. CASE ListAllUsers(c) \/ SearchUsers(c) \/ ListReports(c)
  BY <1>4, <1>9 DEF ListAllUsers, SearchUsers, ListReports
<1>10. ASSUME NEW op \in {"queue", "content"}, NEW status, ListOfStatus(c, op, status)
       PROVE  ResultsInv'
  <2>1. PICK s : call[c].op = op /\ Moved(c, s) /\ UNCHANGED <<tables, cfg, view, screen>>
    BY <1>10, ServeMoves
  <2> QED BY <1>1, <2>1, ResultsMoved
<1>11. CASE Get(c) \/ ToggleCheck(c)
  <2>1. PICK s : call[c].op \in {"get", "toggle"} /\ Moved(c, s) /\ UNCHANGED <<tables, cfg, view, screen>>
    BY <1>11, ServeMoves DEF At
  <2> QED BY <1>1, <2>1, ResultsMoved
<1>12. CASE ToggleInsert(c) \/ ToggleDelete(c)
  <2>1. PICK s : Moved(c, s)
    <3>1. \/ call' = [call EXCEPT ![c].step = "failed"]
          \/ call' = [call EXCEPT ![c].step = "reply", ![c].result = TRUE, ![c].nr = version']
          \/ call' = [call EXCEPT ![c].step = "reply", ![c].result = FALSE, ![c].nr = version']
      BY <1>12 DEF ToggleInsert, ToggleDelete
    <3> QED BY <3>1, Moves, MovesWithResult
  <2>2. call[c].op = "toggle" /\ UNCHANGED <<explore, shown>>
    BY <1>12 DEF ToggleInsert, ToggleDelete, At
  <2> QED BY <2>1, <2>2, ResultsMoved
<1>13. CASE ReportCreate(c)
  <2>1. Moved(c, "reply") /\ call[c].op = "report" /\ UNCHANGED <<explore, shown>>
    BY <1>13, ServeMoves DEF At, ReportCreate, screen
  <2> QED BY <2>1, ResultsMoved
<1>14. CASE Dismiss(c)
  <2>1. UNCHANGED <<explore, shown>>
    BY <1>14 DEF Dismiss, screen
  <2>2. ASSUME NEW d \in Calls, call[d].op = "list"
        PROVE  call'[d].op = "list" /\ ResultsCall(d)'
    <3>1. /\ call'[d].op = "list" /\ call'[d].nr = call[d].nr /\ call'[d].from = call[d].from
          /\ call'[d].category = call[d].category /\ call'[d].query = call[d].query
          /\ call'[d].items = call[d].items
          /\ call'[d].step = IF d = c THEN "reply" ELSE call[d].step
      BY <1>14, <2>2, DismissMoves
    <3>2. UNCHANGED <<asked, since>> /\ ResultsCall(d)
      BY <2>1 DEF explore, ResultsInv
    <3>3. PICK page, category, query :
            /\ page = call[d].items /\ category = call[d].category /\ query = call[d].query
            /\ AllFit(page, category, query)
      BY <2>2, <3>2 DEF ResultsCall
    <3>4. AllFit(page, category, query)'
      BY <3>3, FitsKept
    <3>5. AllFit(call[d].items, call[d].category, call[d].query)'
      BY <3>1, <3>3, <3>4
    <3> QED BY <2>2, <3>1, <3>2, <3>5 DEF ResultsCall
  <2>3. ASSUME NEW d \in Calls, call[d].op # "list"
        PROVE  ResultsCall(d)'
    <3>1. call'[d].op # "list"
      BY <1>14, <2>3, DismissMoves
    <3> QED BY <3>1 DEF ResultsCall
  <2>4. UNCHANGED <<selectedCategory, asked, answered, since>> /\ shown'["results"] = shown["results"]
    BY <2>1 DEF explore
  <2> QED BY <2>2, <2>3, <2>4, ResultsCallsKept
<1>15. CASE Fails(c)
  <2>1. /\ Moved(c, "failed") /\ call'[c].items = call[c].items /\ call'[c].nr = call[c].nr
        /\ UNCHANGED <<explore, shown>>
    <3>1. call' = [call EXCEPT ![c].step = "failed"]
      BY <1>15 DEF Fails
    <3> QED BY <1>15, <3>1, Moves DEF Fails, screen
  <2> QED BY <2>1, ResultsMoved
<1> QED
  BY <1>5, <1>6, <1>7, <1>8, <1>9, <1>10, <1>11, <1>12, <1>13, <1>14, <1>15
     DEF Serve, Queue, ListWallpapers

LEMMA ResultsClick ==
  ASSUME TypeInv, [Next]_vars, ResultsInv, NEW c \in Calls, Click(c)
  PROVE  ResultsInv'
<1>1. ASSUME NEW op, NEW step, Sent(c, op, step), op # "list", UNCHANGED <<explore, shown>>
      PROVE  ResultsInv'
  BY <1>1, IdleAsksNothing, ResultsSent DEF Sent
<1>2. CASE LoadHome(c) \/ Toggle(c) \/ SubmitReport(c)
  <2>1. UNCHANGED <<explore, shown>>
    BY <1>2 DEF LoadHome, Toggle, SubmitReport, screen
  <2> QED BY <1>1, <1>2, <2>1, ClickSends
<1>3. ASSUME NEW category \in Categories, SelectCategory(c, category)
      PROVE  ResultsInv'
  <2>1. /\ Sent(c, "list", "count") /\ call'[c].from = "view" /\ call'[c].nr = asked.nr + 1
        /\ call'[c].category = category /\ call'[c].query = NotGiven
    BY <1>3, ClickSends
  <2>2. selectedCategory' = category /\ Asks(category, NotGiven) /\ UNCHANGED <<shown, answered>>
    BY <1>3 DEF SelectCategory
  <2>3. category # NotGiven
    BY BrowseAssumption
  <2> QED BY <2>1, <2>2, <2>3, ResultsAsked
<1>4. CASE Search(c)
  <2>1. /\ Sent(c, "list", "count") /\ call'[c].from = "view" /\ call'[c].nr = asked.nr + 1
        /\ call'[c].category = NotGiven /\ call'[c].query = searchQuery
    BY <1>4, ClickSends
  <2>2. PICK query : query = searchQuery
    OBVIOUS
  <2>3. selectedCategory' = NotGiven /\ Asks(NotGiven, query) /\ UNCHANGED <<shown, answered>>
    BY <1>4, <2>2 DEF Search
  <2>4. query # NotGiven
    BY <2>2, BrowseAssumption DEF TypeInv
  <2> QED BY <2>1, <2>2, <2>3, <2>4, ResultsAsked
<1>5. ASSUME NEW w, FetchDetail(c, w)
      PROVE  ResultsInv'
  <2>1. UNCHANGED <<explore, shown>>
    BY <1>5 DEF FetchDetail, screen
  <2> QED BY <1>1, <1>5, <2>1, ClickSends
<1>6. CASE LoadFavorites(c) \/ LoadMore(c)
  <2>1. UNCHANGED <<explore, shown>>
    BY <1>6 DEF LoadFavorites, LoadMore
  <2> QED BY <1>1, <1>6, <2>1, ClickSends
<1>7. ASSUME NEW op \in {"queue", "users", "reports"}, LoadAdmin(c, op)
      PROVE  ResultsInv'
  <2>1. UNCHANGED <<explore, shown>>
    BY <1>7 DEF LoadAdmin, screen
  <2> QED BY <1>1, <1>7, <2>1, ClickSends
<1>8. ASSUME NEW r, DismissShown(c, r)
      PROVE  ResultsInv'
  <2>1. UNCHANGED <<explore, shown>>
    BY <1>8 DEF DismissShown, screen
  <2> QED BY <1>1, <1>8, <2>1, ClickSends
<1> QED BY <1>2, <1>3, <1>4, <1>5, <1>6, <1>7, <1>8, Click(c) DEF Click

LEMMA ResultsAnswered ==
  ASSUME TypeInv, [Next]_vars, ResultsInv, NEW c \in Calls, Answered(c)
  PROVE  ResultsInv'
<1>1. DOMAIN shown = Lists /\ "results" \in Lists
  BY DEF TypeInv, ShownInv, Lists
<1>2. CASE PopularArrives(c)
  <2>1. OthersKept(c) /\ call'[c].op = "recent" /\ UNCHANGED <<tables, cfg, view, screen>>
    BY <1>2, EndsCall
  <2>2. call[c].op # "list"
    BY <1>2 DEF PopularArrives, Arrives, At
  <2> QED BY <2>1, <2>2, ResultsSent DEF screen
<1>3. CASE ResultsArrive(c)
  <2>1. PICK page, category, query :
          /\ page = call[c].items \/ page = <<>>
          /\ category = call[c].category /\ query = call[c].query
          /\ shown' = [shown EXCEPT !["results"] = page]
    BY <1>3 DEF ResultsArrive
  <2>2. /\ Ends(c) /\ call[c].op = "list" /\ UNCHANGED <<selectedCategory, asked, since>>
        /\ answered' = [nr |-> call[c].nr, category |-> category, query |-> query]
    BY <1>3, <2>1 DEF ResultsArrive
  <2>3. /\ since <= call[c].nr /\ call[c].nr <= asked.nr
        /\ call[c].nr = asked.nr => call[c].category = asked.category /\ call[c].query = asked.query
        /\ AllFit(call[c].items, call[c].category, call[c].query)
    BY <2>2 DEF ResultsInv, ResultsCall
  <2>4. AllFit(page, category, query)'
    <3>1. AllFit(page, category, query)
      BY <2>1, <2>3 DEF AllFit
    <3> QED BY <3>1, FitsKept
  <2>5. AllFit(shown["results"], answered.category, answered.query)'
    <3>1. shown'["results"] = page /\ answered'.category = category /\ answered'.query = query
      BY <1>1, <2>1, <2>2
    <3> QED BY <2>4, <3>1
  <2>6. QuestionsInv'
    <3>1. call[c].nr = asked.nr => answered' = asked
      <4>1. asked = [nr |-> asked.nr, category |-> asked.category, query |-> asked.query]
        BY DEF TypeInv, Question
      <4> QED BY <2>1, <2>2, <2>3, <4>1
    <3>2. QuestionsInv /\ answered'.nr = call[c].nr
      BY <2>2 DEF ResultsInv
    <3> QED BY <2>2, <2>3, <3>1, <3>2 DEF QuestionsInv
  <2>7. answered'.nr >= since'
    BY <2>2, <2>3, Numbers
  <2>8. ASSUME NEW d \in Calls
        PROVE  ResultsCall(d)'
    <3>1. OthersKept(c) /\ call'[c].op = "none"
      BY <2>2, EndsCall, IdleType
    <3>2. d # c => ResultsCall(d)'
      BY <2>2, <3>1, ResultsCallKept DEF OthersKept, ResultsInv
    <3> QED BY <3>1, <3>2 DEF ResultsCall
  <2> QED BY <2>5, <2>6, <2>7, <2>8 DEF ResultsInv
<1>4. CASE RecentArrives(c) \/ FavoritesArrive(c) \/ MoreArrives(c)
  <2>1. Ends(c) /\ UNCHANGED explore /\ shown'["results"] = shown["results"]
    BY <1>1, <1>4 DEF RecentArrives, FavoritesArrive, MoreArrives
  <2>2. call[c].op # "list"
    BY <1>4 DEF RecentArrives, FavoritesArrive, MoreArrives, Arrives, At
  <2> QED BY <2>1, <2>2, ResultsEnds
<1>5. CASE ToggleArrives(c) \/ Over(c)
  <2>1. call[c].op # "list"
    <3>1. call[c].op = "list" => call[c].from = "view" /\ call[c].step \in {"count", "page", "reply", "failed"}
      BY DEF ResultsInv, ResultsCall
    <3> QED BY <1>5, <3>1 DEF ToggleArrives, Over, Arrives, At
  <2>2. Ends(c) /\ UNCHANGED <<explore, shown>>
    BY <1>5 DEF ToggleArrives, Over
  <2> QED BY <2>1, <2>2, ResultsEnds
<1>6. ASSUME NEW op, AdminArrives(c, op) \/ DismissArrives(c)
      PROVE  ResultsInv'
  <2>1. PICK list, q : /\ Ends(c) /\ UNCHANGED explore /\ list # "results"
                       /\ shown' = [shown EXCEPT ![list] = q]
    <3>1. CASE AdminArrives(c, op)
      <4>1. op # "results" /\ shown' = [shown EXCEPT ![op] = call[c].items]
        BY <3>1 DEF AdminArrives
      <4> QED BY <3>1, <4>1 DEF AdminArrives
    <3>2. CASE DismissArrives(c)
      <4> DEFINE q == Dropping(shown["reports"], call[c].id)
      <4>1. shown' = [shown EXCEPT !["reports"] = q]
        BY <3>2 DEF DismissArrives
      <4> HIDE DEF q
      <4> QED BY <3>2, <4>1 DEF DismissArrives
    <3> QED BY <1>6, <3>1, <3>2
  <2>2. shown'["results"] = shown["results"]
    BY <1>1, <2>1
  <2>3. call[c].op # "list"
    BY <1>6 DEF AdminArrives, DismissArrives, Arrives, At
  <2> QED BY <2>1, <2>2, <2>3, ResultsEnds
<1> QED BY <1>2, <1>3, <1>4, <1>5, <1>6 DEF Answered

LEMMA ResultsStep == TypeInv /\ ResultsInv /\ [Next]_vars => ResultsInv'
<1> SUFFICES ASSUME TypeInv, ResultsInv, [Next]_vars PROVE ResultsInv'
  OBVIOUS
<1>1. ASSUME UNCHANGED <<call, screen>>
      PROVE  ResultsInv'
  BY <1>1, ResultsCallsKept DEF screen, explore
<1>2. ASSUME NEW c \in Calls, NEW w, ToggleElsewhere(c, w)
      PROVE  ResultsInv'
  <2>1. Sent(c, "toggle", "check")
    BY <1>2, ClickSends
  <2>2. UNCHANGED <<explore, shown>>
    BY <1>2 DEF ToggleElsewhere, screen
  <2> QED BY <2>1, <2>2, IdleAsksNothing, ResultsSent DEF Sent
<1>3. ASSUME NEW c \in Calls, NEW op \in {"users", "search", "reports", "content"},
             NEW query, NEW off, AskElsewhere(c, op, query, off)
      PROVE  ResultsInv'
  <2>1. Sent(c, op, "page")
    BY <1>3, ClickSends
  <2>2. UNCHANGED <<explore, shown>>
    BY <1>3 DEF AskElsewhere, screen
  <2> QED BY <2>1, <2>2, IdleAsksNothing, ResultsSent DEF Sent
<1>4. ASSUME NEW email, Register(email)
      PROVE  ResultsInv'
  BY <1>1, <1>4 DEF Register
<1>5. ASSUME NEW title, NEW category, Create(title, category)
      PROVE  ResultsInv'
  BY <1>1, <1>5 DEF Create, Changes
<1>6. ASSUME NEW w, Finalize(w) \/ Approve(w) \/ Reject(w) \/ Download(w)
      PROVE  ResultsInv'
  BY <1>1, <1>6 DEF Finalize, Approve, Reject, Download, Changes
<1>7. ASSUME NEW w, NEW status, Withdraw(w, status)
      PROVE  ResultsInv'
  BY <1>1, <1>7 DEF Withdraw
<1>8. ASSUME NEW w, NEW title, NEW category, EditWallpaper(w, title, category)
      PROVE  ResultsInv'
  BY <1>1, <1>8 DEF EditWallpaper
<1>9. CASE Others
  BY <1>2, <1>3, <1>4, <1>5, <1>6, <1>7, <1>8, <1>9 DEF Others
<1>10. CASE ClearCategory
  <2>1. /\ Asks(NotGiven, NotGiven) /\ answered' = asked' /\ UNCHANGED call /\ selectedCategory' = NotGiven
        /\ shown' = [shown EXCEPT !["results"] = <<>>]
    BY <1>10 DEF ClearCategory
  <2>2. shown'["results"] = <<>>
    BY <2>1 DEF TypeInv, ShownInv, Lists
  <2>3. /\ QuestionsInv' /\ since' <= asked'.nr
        /\ \A d \in Calls : call'[d] = call[d] => ResultsCall(d)'
    BY <2>1, Asking
  <2>4. answered'.nr >= since'
    <3>1. since' \in Nat /\ asked'.nr \in Nat
      BY TypeStep, Numbers, <2>1 DEF Asks
    <3> QED BY <2>1, <2>3, <3>1
  <2> QED BY <2>1, <2>2, <2>3, <2>4 DEF ResultsInv, AllFit
<1>11. CASE UNCHANGED vars
  BY <1>1, <1>11 DEF vars
<1>12. ASSUME NEW text, Type(text)
       PROVE  ResultsInv'
  <2>1. UNCHANGED <<call, shown, selectedCategory, asked, answered, since>>
    BY <1>12 DEF Type
  <2> QED BY <2>1, ResultsCallsKept
<1> QED BY <1>9, <1>10, <1>11, <1>12, ResultsServe, ResultsClick, ResultsAnswered DEF Next

\* What the explore view shows answers one question, and once no call is under
\* way one that overlapped with the last; a category that is named above it is
\* its own (ExploreViewModel.swift:30-64, ExploreView.swift:32-34).
THEOREM ResultsAlwaysAnswerQuestion == Spec => []ResultsAnswerQuestion
<1>1. TypeInv /\ ResultsInv => ResultsAnswerQuestion
  <2> SUFFICES ASSUME TypeInv, ResultsInv
               PROVE  ResultsAnswerQuestion
    OBVIOUS
  <2> DEFINE FitTo(category, query) ==
               \A i \in DOMAIN shown["results"] :
                 shown["results"][i] \in edited \/ Fits(shown["results"][i], category, query)
  <2>1. FitTo(answered.category, answered.query)
    BY DEF ResultsInv, AllFit
  <2>2. NoQuestionUnderWay => answered.nr >= since
    BY DEF ResultsInv
  <2>3. ASSUME NoQuestionUnderWay, since = asked.nr, selectedCategory # NotGiven
        PROVE  FitTo(selectedCategory, NotGiven)
    <3>1. answered.nr <= asked.nr /\ answered.nr \in Nat /\ asked.nr \in Nat
      BY Numbers DEF ResultsInv, QuestionsInv
    <3>2. answered.nr = asked.nr
      BY <2>2, <2>3, <3>1
    <3>3. answered.category = selectedCategory /\ answered.query = NotGiven
      BY <2>3, <3>2 DEF ResultsInv, QuestionsInv
    <3> QED BY <2>1, <3>3
  <2> QED BY <2>1, <2>2, <2>3 DEF ResultsAnswerQuestion
<1> QED BY <1>1, TypeInit, TypeStep, ResultsInit, ResultsStep, PTL DEF Spec

=============================================================================
