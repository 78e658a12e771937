------------------------------- MODULE Browse -------------------------------
(***************************************************************************)
(* What people are shown.  The view models of the application (home,       *)
(* explore, favorites, detail, administration) ask the server for pages of *)
(* wallpapers, favorites, users and reports; the handlers answer with      *)
(* several queries in a row and without a transaction; meanwhile other     *)
(* people change the tables, and answers arrive late, in another order, or *)
(* not at all.                                                             *)
(*                                                                         *)
(* An action is one query of a handler, or what a view model does between  *)
(* two suspension points.  One view is open throughout.                    *)
(***************************************************************************)
EXTENDS Queries

CONSTANTS
  Categories, Titles, Emails,
  Tables,          \* what the tables may hold at first
  MaxWallpapers,
  Views,           \* the views to look at, of AllViews
  Calls,           \* calls of the server that can be under way at once
  PageSize,        \* the page that views ask for (10 to 50 in the code)
  Envs,            \* values of DEFAULT_PAGE_SIZE and MAX_PAGE_SIZE
  Unset,           \* an environment variable that is not set, or not a number
  StdDefault, StdMax,  \* what the code takes then: 20 and 100
  Half,            \* 2^31: int32(pg.Offset) is negative from here on
  Offsets,         \* that clients of the administration ask for
  MaxActs          \* bound on what people do

\* The lists of the view models.
Lists == {"popular", "recent", "results", "favorites", "queue", "users", "reports"}

AllViews == {"none", "home", "explore", "favorites", "detail", "admin"}

Wallpapers == 1..MaxWallpapers

\* The wallpaper whose detail view is open.
Opened == 1

ASSUME BrowseAssumption ==
  /\ MaxWallpapers \in Nat \ {0}
  /\ NoCategory \notin Categories /\ NotGiven \notin Categories \cup Titles \cup Emails
  /\ "" \in Titles
  /\ Views \subseteq AllViews
  /\ PageSize \in Nat \ {0} /\ Half \in Nat \ {0}
  /\ StdDefault \in Nat /\ StdMax \in Nat /\ StdDefault <= StdMax
  /\ Offsets \subseteq Nat
  /\ MaxActs \in Nat

ASSUME EnvsAssumption == Envs \subseteq [default : Int \cup {Unset}, max : Int \cup {Unset}]

ASSUME TablesAssumption ==
  \A t \in Tables :
    /\ t.wallpapers \in Seq(WallpaperRow(Categories \cup {NoCategory}, Titles))
    /\ Len(t.wallpapers) \in 1..MaxWallpapers
    /\ t.wallpapers[Opened].status = "approved"
    /\ t.favorites \in [Wallpapers -> 0..MaxWallpapers]
    /\ \A w \in Wallpapers : t.favorites[w] > 0 => w <= Len(t.wallpapers)
    /\ \A v, w \in Wallpapers : t.favorites[v] = t.favorites[w] /\ v # w => t.favorites[v] = 0
    /\ t.users \in Seq(Emails)
    /\ t.reports \in Seq([wallpaper : Nat, status : {"pending", "dismissed"}])

VARIABLES
  wallpapers, users, reports,      \* tables
  favorites,                       \* the rows of the user who is signed in
  cfg,                             \* config.Config
  call,                            \* requests, from the click to the answer
  view,
  shown,                           \* the lists of the view models
  selectedCategory, searchQuery,   \* ExploreViewModel
  currentOffset, hasMore,          \* FavoritesViewModel
  isFavorited,                     \* DetailViewModel
  acts,
  asked, answered,    \* history: the last question of Explore, and the one whose answer is shown
  since,              \* history: number of the first of the questions that overlap with the last one
  edited,             \* history: wallpapers whose metadata an administrator has changed
  withdrawn,          \* history: wallpapers that were approved, and then no more
  version, heartAt,   \* history: changes of favorites, and the change the heart reports
  steady              \* history: favorites were loaded page after page and did not change

tables == <<wallpapers, users, reports, favorites, edited, withdrawn, version>>
explore == <<selectedCategory, searchQuery, asked, answered, since>>
paging == <<currentOffset, hasMore, steady>>
heart == <<isFavorited, heartAt>>
screen == <<shown, explore, paging, heart>>
vars == <<tables, cfg, call, view, screen, acts>>

-----------------------------------------------------------------------------
(* Configuration and pagination.                                           *)

\* envInt.
EnvInt(value, default) == IF value = Unset THEN default ELSE value

Load(env) == [DefaultPageSize |-> EnvInt(env.default, StdDefault),
              MaxPageSize |-> EnvInt(env.max, StdMax)]

Validate(c) == c.MaxPageSize >= c.DefaultPageSize

\* ParsePagination; a limit that is absent, not a number or not positive is 0.
Limit(lim) ==
  IF lim <= 0 THEN cfg.DefaultPageSize
  ELSE IF lim > cfg.MaxPageSize THEN cfg.MaxPageSize ELSE lim

\* int32(pg.Offset)
Int32(off) == IF off < Half THEN off ELSE off - 2 * Half

-----------------------------------------------------------------------------
(* Calls.                                                                  *)

Idle == [op |-> "none", step |-> "idle", from |-> "view", id |-> 1,
         category |-> NotGiven, query |-> NotGiven, off |-> 0, lim |-> PageSize,
         items |-> <<>>, total |-> 0, result |-> FALSE, nr |-> 0,
         left |-> 0, popular |-> <<>>]

Request(op, step) == [Idle EXCEPT !.op = op, !.step = step]

Send(c, request) ==
  /\ call[c].step = "idle"
  /\ acts < MaxActs
  /\ acts' = acts + 1
  /\ call' = [call EXCEPT ![c] = request]

Acts == acts < MaxActs /\ acts' = acts + 1

At(c, op, step) == call[c].op = op /\ call[c].step = step

Arrives(c, op) == At(c, op, "reply") /\ call[c].from = "view"

Ends(c) == call' = [call EXCEPT ![c] = Idle]

\* Of the three functions that turn a row into an answer: the category is
\* sent as it was read.
ToMap(w) == [id |-> w, category |-> wallpapers[w].category]

\* JSONDecoder knows no category "", and wants an array where the favorites
\* of somebody who has none are null.
Readable(op, items) ==
  /\ op \in {"popular", "recent", "list", "load", "more", "get", "queue"} =>
       \A i \in DOMAIN items : ToMap(items[i]).category # NoCategory
  /\ op \in {"load", "more"} => items # <<>>

\* To the application, an answer that it cannot read is a failure.
Replies(op, items) == IF Readable(op, items) THEN "reply" ELSE "failed"

\* A query fails, or the answer does not arrive.
Fails(c) ==
  /\ call[c].step \notin {"idle", "failed"}
  /\ call' = [call EXCEPT ![c].step = "failed"]
  /\ UNCHANGED <<tables, cfg, view, screen, acts>>

-----------------------------------------------------------------------------
(* Handlers.                                                               *)

\* The handlers of the public lists count, and then read the page ...
Count(c, op, total) ==
  /\ At(c, op, "count")
  /\ call' = [call EXCEPT ![c].step = "page", ![c].total = total]
  /\ UNCHANGED <<tables, cfg, view, screen, acts>>

Page(c, op, pages) ==
  /\ At(c, op, "page")
  /\ \E page \in pages :
       call' = [call EXCEPT ![c].step = Replies(op, page), ![c].items = page]
  /\ UNCHANGED <<tables, cfg, view, screen, acts>>

Off(c) == Int32(call[c].off)
Lim(c) == Limit(call[c].lim)

Popular(c) ==
  \/ Count(c, "popular", CountWallpapers(wallpapers, "approved", NotGiven, NotGiven))
  \/ Page(c, "popular", ListWallpapersPopular(wallpapers, "approved", NotGiven, NotGiven, Off(c), Lim(c)))

Recent(c) ==
  \/ Count(c, "recent", CountWallpapers(wallpapers, "approved", NotGiven, NotGiven))
  \/ Page(c, "recent", ListWallpapersRecent(wallpapers, "approved", NotGiven, NotGiven, Off(c), Lim(c)))

List(c) ==
  LET category == call[c].category  query == call[c].query IN
  \/ Count(c, "list", CountWallpapers(wallpapers, "approved", category, query))
  \/ Page(c, "list", ListWallpapersRecent(wallpapers, "approved", category, query, Off(c), Lim(c)))

\* FavoriteHandler.List, for load and loadMore.
ListByUser(c, op) ==
  \/ Count(c, op, CountFavoritesByUser(favorites))
  \/ Page(c, op, ListFavoritesByUser(favorites, Off(c), Lim(c)))

\* ... those of the administration read the page, and then count.
PageFirst(c, op, pages) ==
  /\ At(c, op, "page")
  /\ \E page \in pages : call' = [call EXCEPT ![c].step = "count", ![c].items = page]
  /\ UNCHANGED <<tables, cfg, view, screen, acts>>

CountLast(c, op, total) ==
  /\ At(c, op, "count")
  /\ call' = [call EXCEPT ![c].step = "reply", ![c].total = total]
  /\ UNCHANGED <<tables, cfg, view, screen, acts>>

\* Mutant: count first, as the public lists do.
ListUsersCountFirst(c) ==
  \/ /\ At(c, "users", "page")
     /\ call' = [call EXCEPT ![c].step = "count", ![c].total = CountUsers(users)]
     /\ UNCHANGED <<tables, cfg, view, screen, acts>>
  \/ /\ At(c, "users", "count")
     /\ \E page \in ListUsers(users, Off(c), Lim(c)) :
          call' = [call EXCEPT ![c].step = "reply", ![c].items = page]
     /\ UNCHANGED <<tables, cfg, view, screen, acts>>

\* AdminHandler.ListUsers, without and with a search.
ListAllUsers(c) ==
  \/ PageFirst(c, "users", ListUsers(users, Off(c), Lim(c)))
  \/ CountLast(c, "users", CountUsers(users))

SearchUsers(c) ==
  LET query == call[c].query IN
  \/ PageFirst(c, "search", ListUsersWithSearch(users, query, Off(c), Lim(c)))
  \/ CountLast(c, "search", CountUsersWithSearch(users, query))

ListReports(c) ==
  \/ PageFirst(c, "reports", ListPendingReports(reports, Off(c), Lim(c)))
  \/ CountLast(c, "reports", CountPendingReports(reports))

\* recentRowToMap(_, nil, _) dereferences nil for a row with a thumbnail:
\* the handler panics, and Recoverer answers with an error.
Panics(items) == \E i \in DOMAIN items : wallpapers[items[i]].thumbnail

ListOfStatus(c, op, status) ==
  \/ PageFirst(c, op, ListWallpapersRecent(wallpapers, status, NotGiven, NotGiven, Off(c), Lim(c)))
  \/ /\ At(c, op, "count")
     /\ IF Panics(call[c].items)
        THEN /\ call' = [call EXCEPT ![c].step = "panicked"]
             /\ UNCHANGED <<tables, cfg, view, screen, acts>>
        ELSE CountLast(c, op, CountWallpapers(wallpapers, status, NotGiven, NotGiven))

Queue(c) == ListOfStatus(c, "queue", "pending_review")

\* AdminHandler.ListWallpapers: the query is a status here, the approved
\* wallpapers if there is none.
ListWallpapers(c) ==
  ListOfStatus(c, "content", IF call[c].query = NotGiven THEN "approved" ELSE call[c].query)

\* WallpaperHandler.Get: GetApproved.
Get(c) ==
  /\ At(c, "get", "get")
  /\ call' = [call EXCEPT ![c].step =
       IF GetWallpaperByID(wallpapers, call[c].id).status = "approved" THEN Replies("get", <<call[c].id>>)
       ELSE "not_found"]
  /\ UNCHANGED <<tables, cfg, view, screen, acts>>

\* FavoriteService.Toggle: CheckFavorite, then DeleteFavorite or InsertFavorite.
ToggleCheck(c) ==
  /\ At(c, "toggle", "check")
  /\ call' = [call EXCEPT ![c].step = IF CheckFavorite(favorites, call[c].id) THEN "delete" ELSE "insert"]
  /\ UNCHANGED <<tables, cfg, view, screen, acts>>

FavoritesChange == version' = version + 1 /\ steady' = FALSE

\* The primary key refuses a second row.
ToggleInsert(c) ==
  /\ At(c, "toggle", "insert")
  /\ IF CheckFavorite(favorites, call[c].id)
     THEN /\ call' = [call EXCEPT ![c].step = "failed"]
          /\ UNCHANGED <<favorites, version, steady>>
     ELSE /\ favorites' = InsertFavorite(favorites, call[c].id, version + 1)
          /\ FavoritesChange
          /\ call' = [call EXCEPT ![c].step = "reply", ![c].result = TRUE, ![c].nr = version']
  /\ UNCHANGED <<wallpapers, users, reports, edited, withdrawn, cfg, view, shown, explore, currentOffset, hasMore, heart, acts>>

ToggleDelete(c) ==
  /\ At(c, "toggle", "delete")
  /\ favorites' = DeleteFavorite(favorites, call[c].id)
  /\ FavoritesChange
  /\ call' = [call EXCEPT ![c].step = "reply", ![c].result = FALSE, ![c].nr = version']
  /\ UNCHANGED <<wallpapers, users, reports, edited, withdrawn, cfg, view, shown, explore, currentOffset, hasMore, heart, acts>>

ReportCreate(c) ==
  /\ At(c, "report", "write")
  /\ reports' = CreateReport(reports, call[c].id)
  /\ call' = [call EXCEPT ![c].step = "reply"]
  /\ UNCHANGED <<wallpapers, users, favorites, edited, withdrawn, version, cfg, view, screen, acts>>

\* Reports that leave a list between its page and its count.
LeftBehind(r) ==
  [d \in Calls |->
     IF At(d, "reports", "count") /\ reports[r].status = "pending"
     THEN [call[d] EXCEPT !.left = @ + 1] ELSE call[d]]

\* Unconditional.
Dismiss(c) ==
  /\ At(c, "dismiss", "write")
  /\ reports' = DismissReport(reports, call[c].id)
  /\ call' = [LeftBehind(call[c].id) EXCEPT ![c].step = "reply"]
  /\ UNCHANGED <<wallpapers, users, favorites, edited, withdrawn, version, cfg, view, screen, acts>>

Serve(c) ==
  \/ Popular(c) \/ Recent(c) \/ List(c)
  \/ ListByUser(c, "load") \/ ListByUser(c, "more")
  \/ ListAllUsers(c) \/ SearchUsers(c) \/ ListReports(c)
  \/ Queue(c) \/ ListWallpapers(c)
  \/ Get(c)
  \/ ToggleCheck(c) \/ ToggleInsert(c) \/ ToggleDelete(c)
  \/ ReportCreate(c) \/ Dismiss(c)
  \/ Fails(c)

-----------------------------------------------------------------------------
(* View models.                                                            *)

LoadHome(c) ==
  /\ view = "home"
  /\ Send(c, Request("popular", "count"))
  /\ UNCHANGED <<tables, cfg, view, screen>>

\* HomeViewModel.load, after the first answer and after the second.
PopularArrives(c) ==
  /\ Arrives(c, "popular")
  /\ call' = [call EXCEPT ![c] = [Request("recent", "count") EXCEPT !.popular = call[c].items]]
  /\ UNCHANGED <<tables, cfg, view, screen, acts>>

RecentArrives(c) ==
  /\ Arrives(c, "recent")
  /\ shown' = [shown EXCEPT !.popular = call[c].popular, !.recent = call[c].items]
  /\ Ends(c)
  /\ UNCHANGED <<tables, cfg, view, explore, paging, heart, acts>>

NoQuestionUnderWay == \A c \in Calls : call[c].op # "list"

Asks(category, query) ==
  /\ asked' = [nr |-> asked.nr + 1, category |-> category, query |-> query]
  /\ since' = IF NoQuestionUnderWay THEN asked.nr + 1 ELSE since

\* The categories are buttons only while nothing is selected or shown.
SelectCategory(c, category) ==
  /\ view = "explore" /\ selectedCategory = NotGiven /\ shown.results = <<>>
  /\ Send(c, [Request("list", "count") EXCEPT !.category = category, !.nr = asked.nr + 1])
  /\ selectedCategory' = category
  /\ searchQuery' = ""
  /\ Asks(category, NotGiven)
  /\ UNCHANGED <<tables, cfg, view, shown, answered, paging, heart>>

\* The text field is bound to searchQuery: each key changes it, and nothing
\* is asked.
Type(text) ==
  /\ view = "explore" /\ text # searchQuery
  /\ searchQuery' = text
  /\ UNCHANGED <<tables, cfg, call, view, shown, selectedCategory, asked, answered, since, paging, heart, acts>>

\* Mutant: the category stays selected.
SearchKeepsCategory(c) ==
  /\ view = "explore" /\ searchQuery # ""
  /\ Send(c, [Request("list", "count") EXCEPT !.query = searchQuery, !.nr = asked.nr + 1])
  /\ Asks(NotGiven, searchQuery)
  /\ UNCHANGED <<tables, cfg, view, shown, selectedCategory, searchQuery, answered, paging, heart>>

Search(c) ==
  /\ view = "explore" /\ searchQuery # ""
  /\ Send(c, [Request("list", "count") EXCEPT !.query = searchQuery, !.nr = asked.nr + 1])
  /\ selectedCategory' = NotGiven
  /\ Asks(NotGiven, searchQuery)
  /\ UNCHANGED <<tables, cfg, view, shown, searchQuery, answered, paging, heart>>

\* It is answered at once: with nothing.
ClearCategory ==
  /\ view = "explore" /\ selectedCategory # NotGiven
  /\ Acts
  /\ selectedCategory' = NotGiven
  /\ shown' = [shown EXCEPT !.results = <<>>]
  /\ Asks(NotGiven, NotGiven)
  /\ answered' = asked'
  /\ UNCHANGED <<tables, cfg, call, view, searchQuery, paging, heart>>

\* An error leaves no results.
ResultsArrive(c) ==
  /\ call[c].op = "list" /\ call[c].step \in {"reply", "failed"}
  /\ shown' = [shown EXCEPT !.results = IF call[c].step = "reply" THEN call[c].items ELSE <<>>]
  /\ answered' = [nr |-> call[c].nr, category |-> call[c].category, query |-> call[c].query]
  /\ Ends(c)
  /\ UNCHANGED <<tables, cfg, view, selectedCategory, searchQuery, asked, since, paging, heart, acts>>

\* A tap on what is shown.
FetchDetail(c, w) ==
  /\ \E list \in {"popular", "recent", "results", "favorites"} :
       \E i \in DOMAIN shown[list] : shown[list][i] = w
  /\ Send(c, [Request("get", "get") EXCEPT !.id = w])
  /\ UNCHANGED <<tables, cfg, view, screen>>

NoPageUnderWay == \A c \in Calls : call[c].op \notin {"load", "more"}

LoadFavorites(c) ==
  /\ view = "favorites"
  /\ Send(c, Request("load", "count"))
  /\ currentOffset' = 0
  /\ steady' = NoPageUnderWay
  /\ UNCHANGED <<tables, cfg, view, shown, explore, hasMore, heart>>

FavoritesArrive(c) ==
  /\ Arrives(c, "load")
  /\ shown' = [shown EXCEPT !.favorites = call[c].items]
  /\ hasMore' = (call[c].off + Len(call[c].items) < call[c].total)
  /\ Ends(c)
  /\ UNCHANGED <<tables, cfg, view, explore, currentOffset, steady, heart, acts>>

\* Mutant: the offset moves on after the page was asked for.
LoadMoreFromOldOffset(c) ==
  /\ view = "favorites" /\ hasMore
  /\ Send(c, [Request("more", "count") EXCEPT !.off = currentOffset])
  /\ currentOffset' = currentOffset + PageSize
  /\ steady' = (steady /\ NoPageUnderWay)
  /\ UNCHANGED <<tables, cfg, view, shown, explore, hasMore, heart>>

LoadMore(c) ==
  /\ view = "favorites" /\ hasMore
  /\ Send(c, [Request("more", "count") EXCEPT !.off = currentOffset + PageSize])
  /\ currentOffset' = currentOffset + PageSize
  /\ steady' = (steady /\ NoPageUnderWay)
  /\ UNCHANGED <<tables, cfg, view, shown, explore, hasMore, heart>>

MoreArrives(c) ==
  /\ Arrives(c, "more")
  /\ shown' = [shown EXCEPT !.favorites = @ \o call[c].items]
  /\ hasMore' = (currentOffset + Len(call[c].items) < call[c].total)
  /\ Ends(c)
  /\ UNCHANGED <<tables, cfg, view, explore, currentOffset, steady, heart, acts>>

\* DetailViewModel.toggleFavorite.
Toggle(c) ==
  /\ view = "detail"
  /\ Send(c, [Request("toggle", "check") EXCEPT !.id = Opened])
  /\ UNCHANGED <<tables, cfg, view, screen>>

\* Mutant: the view takes it that the heart changed.
ToggleFlips(c) ==
  /\ Arrives(c, "toggle")
  /\ isFavorited' = ~isFavorited
  /\ heartAt' = call[c].nr
  /\ Ends(c)
  /\ UNCHANGED <<tables, cfg, view, shown, explore, paging, acts>>

ToggleArrives(c) ==
  /\ Arrives(c, "toggle")
  /\ isFavorited' = call[c].result
  /\ heartAt' = call[c].nr
  /\ Ends(c)
  /\ UNCHANGED <<tables, cfg, view, shown, explore, paging, acts>>

SubmitReport(c) ==
  /\ view = "detail"
  /\ Send(c, [Request("report", "write") EXCEPT !.id = Opened])
  /\ UNCHANGED <<tables, cfg, view, screen>>

\* AdminViewModel: loadQueue, loadUsers, loadReports.
LoadAdmin(c, op) ==
  /\ view = "admin" /\ op \in {"queue", "users", "reports"}
  /\ Send(c, Request(op, "page"))
  /\ UNCHANGED <<tables, cfg, view, screen>>

AdminArrives(c, op) ==
  /\ op \in {"queue", "users", "reports"} /\ Arrives(c, op)
  /\ shown' = [shown EXCEPT ![op] = call[c].items]
  /\ Ends(c)
  /\ UNCHANGED <<tables, cfg, view, explore, paging, heart, acts>>

DismissShown(c, r) ==
  /\ view = "admin" /\ \E i \in DOMAIN shown.reports : shown.reports[i] = r
  /\ Send(c, [Request("dismiss", "write") EXCEPT !.id = r])
  /\ UNCHANGED <<tables, cfg, view, screen>>

\* A list names a report at most once.
Dropping(list, r) ==
  IF \A i \in DOMAIN list : list[i] # r THEN list
  ELSE LET i == CHOOSE i \in DOMAIN list : list[i] = r
       IN SubSeq(list, 1, i - 1) \o SubSeq(list, i + 1, Len(list))

DismissArrives(c) ==
  /\ Arrives(c, "dismiss")
  /\ shown' = [shown EXCEPT !.reports = Dropping(@, call[c].id)]
  /\ Ends(c)
  /\ UNCHANGED <<tables, cfg, view, explore, paging, heart, acts>>

\* What changes no list: a report was stored, a detail view opens, nobody
\* waits for the answer, or an error is put on the screen.
Over(c) ==
  /\ \/ call[c].step \in {"reply", "failed"} /\ (call[c].op \in {"report", "get"} \/ call[c].from = "other")
     \/ call[c].step \in {"not_found", "panicked"}
     \/ call[c].step = "failed" /\ call[c].op # "list"
  /\ Ends(c)
  /\ steady' = (steady /\ (call[c].op \in {"load", "more"} => call[c].step # "failed"))
  /\ UNCHANGED <<tables, cfg, view, shown, explore, currentOffset, hasMore, heart, acts>>

-----------------------------------------------------------------------------
(* Other people, and other devices: they change and ask for what the open  *)
(* view reads, since nothing else can be seen in it.                       *)

ReadIn(views) == view \in views

\* Also the heart on the first card of the home view: its answer is not used.
ToggleElsewhere(c, w) ==
  /\ ReadIn({"favorites", "detail"}) /\ w \in DOMAIN wallpapers
  /\ Send(c, [Request("toggle", "check") EXCEPT !.id = w, !.from = "other"])
  /\ UNCHANGED <<tables, cfg, view, screen>>

\* Somebody administers without this application.
AskElsewhere(c, op, query, off) ==
  /\ ReadIn({"admin"})
  /\ CASE op = "search" -> query \in Emails
       [] op = "content" -> query \in Statuses \cup {NotGiven}
       [] OTHER -> query = NotGiven
  /\ Send(c, [Request(op, "page") EXCEPT !.query = query, !.off = off, !.lim = 0, !.from = "other"])
  /\ UNCHANGED <<tables, cfg, view, screen>>

\* AuthHandler.Register; the index refuses an address that is taken.
Register(email) ==
  /\ ReadIn({"admin"}) /\ Found(users, email) = {}
  /\ Acts
  /\ users' = CreateUser(users, email)
  /\ UNCHANGED <<wallpapers, reports, favorites, edited, withdrawn, version, cfg, call, view, screen>>

\* The steps of WallpaperLifecycle; Moderation says how far the server
\* keeps to them.
Changes(table) ==
  /\ Acts
  /\ wallpapers' = table
  /\ UNCHANGED <<users, reports, favorites, edited, withdrawn, version, cfg, call, view, screen>>

Create(title, category) ==
  /\ ReadIn({"home", "explore"}) /\ Len(wallpapers) < MaxWallpapers
  /\ Changes(CreateWallpaper(wallpapers, title, category))

ReviewReadIn == ReadIn({"home", "explore", "favorites", "admin"})

Finalize(w) ==
  /\ ReviewReadIn /\ wallpapers[w].status = "pending"
  /\ Changes(UpdateWallpaperAfterFinalize(wallpapers, w))

Approve(w) ==
  /\ ReviewReadIn /\ wallpapers[w].status = "pending_review"
  /\ Changes(UpdateWallpaperStatus(wallpapers, w, "approved"))

Reject(w) ==
  /\ ReviewReadIn /\ wallpapers[w].status = "pending_review"
  /\ Changes(UpdateWallpaperStatusWithReason(wallpapers, w, "rejected"))

Download(w) ==
  /\ ReadIn({"home"}) /\ wallpapers[w].status = "approved"
  /\ Changes(IncrementDownloadCount(wallpapers, w))

\* The write of a Finalize or a Reject that an Approve has overtaken since it
\* read the status.
Withdraw(w, status) ==
  /\ ReviewReadIn /\ wallpapers[w].status = "approved"
  /\ Acts
  /\ wallpapers' = UpdateWallpaperStatus(wallpapers, w, status)
  /\ withdrawn' = withdrawn \cup {w}
  /\ UNCHANGED <<users, reports, favorites, edited, version, cfg, call, view, screen>>

\* AdminHandler.EditWallpaper: a field that the request leaves out becomes
\* empty.
EditWallpaper(w, title, category) ==
  /\ ReadIn({"home", "explore", "favorites"})
  /\ Acts
  /\ wallpapers' = UpdateWallpaperMetadata(wallpapers, w, title, category)
  /\ edited' = edited \cup {w}
  /\ UNCHANGED <<users, reports, favorites, withdrawn, version, cfg, call, view, screen>>

-----------------------------------------------------------------------------

NothingAsked == [nr |-> 0, category |-> NotGiven, query |-> NotGiven]

Init ==
  /\ \E t \in Tables : /\ wallpapers = t.wallpapers /\ users = t.users
                      /\ reports = t.reports /\ favorites = t.favorites
  /\ \E env \in Envs : cfg = Load(env) /\ Validate(Load(env))
  /\ call = [c \in Calls |-> Idle]
  /\ view \in Views
  /\ shown = [list \in Lists |-> <<>>]
  /\ selectedCategory = NotGiven /\ searchQuery = ""
  /\ currentOffset = 0 /\ hasMore = FALSE
  /\ isFavorited = FALSE
  /\ acts = 0
  /\ asked = NothingAsked /\ answered = NothingAsked /\ since = 0
  /\ edited = {} /\ withdrawn = {}
  /\ version = MaxWallpapers /\ heartAt = 0 /\ steady = FALSE

Click(c) ==
  \/ LoadHome(c)
  \/ \E category \in Categories : SelectCategory(c, category)
  \/ Search(c)
  \/ \E w \in DOMAIN wallpapers : FetchDetail(c, w)
  \/ LoadFavorites(c) \/ LoadMore(c)
  \/ Toggle(c) \/ SubmitReport(c)
  \/ \E op \in {"queue", "users", "reports"} : LoadAdmin(c, op)
  \/ \E r \in DOMAIN reports : DismissShown(c, r)

Answered(c) ==
  \/ PopularArrives(c) \/ RecentArrives(c) \/ ResultsArrive(c)
  \/ FavoritesArrive(c) \/ MoreArrives(c) \/ ToggleArrives(c)
  \/ \E op \in {"queue", "users", "reports"} : AdminArrives(c, op)
  \/ DismissArrives(c)
  \/ Over(c)

Others ==
  \/ \E c \in Calls :
       \/ \E w \in Wallpapers : ToggleElsewhere(c, w)
       \/ \E op \in {"users", "search", "reports", "content"},
            query \in Emails \cup Statuses \cup {NotGiven},
            off \in Offsets : AskElsewhere(c, op, query, off)
  \/ \E email \in Emails : Register(email)
  \/ \E title \in Titles \ {""}, category \in Categories \cup {NoCategory} : Create(title, category)
  \/ \E w \in DOMAIN wallpapers :
       \/ Finalize(w) \/ Approve(w) \/ Reject(w) \/ Download(w)
       \/ \E status \in {"pending_review", "rejected"} : Withdraw(w, status)
       \/ \E title \in Titles, category \in Categories \cup {NoCategory} : EditWallpaper(w, title, category)

Next ==
  \/ \E c \in Calls : Click(c) \/ Serve(c) \/ Answered(c)
  \/ ClearCategory
  \/ \E text \in Titles : Type(text)
  \/ Others

Spec == Init /\ [][Next]_vars

-----------------------------------------------------------------------------
(* Properties.                                                             *)

Ops == {"none", "popular", "recent", "list", "load", "more", "users", "search",
        "reports", "queue", "content", "get", "toggle", "report", "dismiss"}

Steps == {"idle", "count", "page", "get", "check", "insert", "delete", "write",
          "reply", "failed", "not_found", "panicked"}

Texts == Titles \cup Emails \cup Statuses \cup {NotGiven}

Question == [nr : Nat, category : Categories \cup {NotGiven}, query : Texts]

CallType ==
  [op : Ops, step : Steps, from : {"view", "other"}, id : Nat,
   category : Categories \cup {NotGiven}, query : Texts,
   off : Nat, lim : Nat, items : Seq(Nat), total : Nat, result : BOOLEAN, nr : Nat,
   left : Nat, popular : Seq(Nat)]

\* Tables, calls and views have their types.
TypeOK ==
  /\ wallpapers \in Seq(WallpaperRow(Categories \cup {NoCategory}, Titles))
  /\ users \in Seq(Emails)
  /\ reports \in Seq([wallpaper : Nat, status : {"pending", "dismissed"}])
  /\ favorites \in [Wallpapers -> Nat]
  /\ cfg \in [DefaultPageSize : Int, MaxPageSize : Int]
  /\ call \in [Calls -> CallType]
  /\ view \in AllViews
  /\ shown \in [Lists -> Seq(Nat)]
  /\ selectedCategory \in Categories \cup {NotGiven} /\ searchQuery \in Titles
  /\ currentOffset \in Nat /\ hasMore \in BOOLEAN /\ isFavorited \in BOOLEAN
  /\ asked \in Question /\ answered \in Question /\ since \in Nat
  /\ acts \in Nat /\ edited \subseteq Nat /\ withdrawn \subseteq Nat
  /\ version \in Nat /\ heartAt \in Nat /\ steady \in BOOLEAN

\* Whatever the home and explore views show can be opened: their lists name
\* approved wallpapers only, and what is approved stays so, however long the
\* list has been on the screen, unless an overtaken call takes it back
\* (handler/wallpaper.go:68-157).  Favorites may name wallpapers that were
\* never approved.
ShownCanBeOpened ==
  \A c \in Calls : call[c].step = "not_found" => view = "favorites" \/ call[c].id \in withdrawn

\* A heart whose answer reports the last change of the favorites there was tells
\* the truth, however the toggles overlapped.  Nothing is said of a heart that
\* waits for that answer, or that an older answer has overwritten since
\* (service/favorite.go:23-51).
HeartTellsTheTruth == heartAt = version => isFavorited = (favorites[Opened] > 0)

\* Favorites loaded page after page, while they did not change and no call
\* failed, are a prefix of all favorites, without gap or repetition, and the
\* view knows whether there are more (FavoritesViewModel.swift:23-48).  The
\* server must be willing to send the pages that the view asks for.
ShownIsPrefix ==
  steady /\ NoPageUnderWay /\ cfg.MaxPageSize >= PageSize =>
    /\ shown.favorites \in ListFavoritesByUser(favorites, 0, Len(shown.favorites))
    /\ hasMore = (Len(shown.favorites) < CountFavoritesByUser(favorites))

Fits(w, category, query) ==
  \/ category # NotGiven /\ wallpapers[w].category = category
  \/ query # NotGiven /\ wallpapers[w].title = query

\* The explore view shows what some question was answered with, never parts of
\* several answers.  Answers are taken as they come, so that the last word may
\* be an older question's; but once no call is under way that question is one
\* of those that overlapped with the last one, and when the last one was asked
\* alone, a category named above the results is that of the results.  What
\* stands in the text field says nothing of them (ExploreViewModel.swift:30-64,
\* ExploreView.swift:32-34).
ResultsAnswerQuestion ==
  LET FitTo(category, query) ==
        \A i \in DOMAIN shown.results :
          LET w == shown.results[i] IN w \in edited \/ Fits(w, category, query)
  IN  /\ FitTo(answered.category, answered.query)
      /\ NoQuestionUnderWay => answered.nr >= since
      /\ NoQuestionUnderWay /\ since = asked.nr /\ selectedCategory # NotGiven =>
           FitTo(selectedCategory, NotGiven)

\* The page of users or reports that an administrator sees fits the total
\* beside it, up to the reports dismissed between the two queries: users only
\* ever become more, which is why the page comes first.  Nor is it longer than
\* the configuration allows, whatever was asked for (handler/admin.go:159-203,
\* 267-292, respond.go:61-90, config.go:118-152).
PageWithinTotal ==
  \A c \in Calls :
    call[c].op \in {"users", "search", "reports"} /\ call[c].step = "reply"
      /\ call[c].off < Half /\ call[c].items # <<>> =>
        /\ call[c].off + Len(call[c].items) <= call[c].total + call[c].left
        /\ Len(call[c].items) <= cfg.MaxPageSize

\* When both queries of the review queue have been answered, so is the
\* administrator: with the wallpapers that wait for a review
\* (handler/admin.go:34).  The code does not achieve this.
QueueShowsPending == \A c \in Calls : call[c].op = "queue" => call[c].step # "panicked"

=============================================================================
