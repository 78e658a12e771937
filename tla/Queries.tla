------------------------------ MODULE Queries ------------------------------
(***************************************************************************)
(* The SQL of the ScreenSpace server that reads or writes what people are  *)
(* shown: one operator per query, from a table to an answer or to the      *)
(* table after it.                                                         *)
(*                                                                         *)
(* Tables of wallpapers, users and reports are sequences in the order of   *)
(* creation, and a row's index stands for its id, so that a later          *)
(* created_at is a larger id.  The favorites of one user are a function    *)
(* from wallpapers to the time they were added, 0 for none.                *)
(***************************************************************************)
EXTENDS Integers, Sequences, FiniteSets

NotGiven == "any"                 \* a condition that is not given (NULL)
NoCategory == ""             \* category is NULL, read as COALESCE(category, '')

Statuses == {"pending", "pending_review", "approved", "rejected"}

-----------------------------------------------------------------------------
(* ORDER BY key DESC LIMIT lim OFFSET off, for keys that differ.           *)

Ahead(S, key, x) == {y \in S : key[y] > key[x]}

PageLength(S, off, lim) ==
  LET rest == Cardinality(S) - off IN
  IF rest <= 0 THEN 0 ELSE IF rest < lim THEN rest ELSE lim

\* The one answer to the query, as a set; no answer, but an error, if off or
\* lim is negative.
Pages(S, key, off, lim) ==
  IF off < 0 \/ lim < 0 THEN {}
  ELSE {page \in [1..PageLength(S, off, lim) -> S] :
          \A i \in DOMAIN page : Cardinality(Ahead(S, key, page[i])) = off + i - 1}

Newest(table) == [id \in DOMAIN table |-> id]

-----------------------------------------------------------------------------
(* wallpapers.sql                                                          *)

WallpaperRow(Categories, Titles) ==
  [status : Statuses, category : Categories, title : Titles,
   downloads : Nat, thumbnail : BOOLEAN]

\* Mutant: the condition on the status is missing.
AnyStatus(table, status, category, query) ==
  {w \in DOMAIN table :
     /\ category = NotGiven \/ (category # NoCategory /\ table[w].category = category)
     /\ query = NotGiven \/ table[w].title = query}

\* ILIKE with a pattern without wildcards is equality up to case; it is
\* never true of NULL.
Matching(table, status, category, query) ==
  {w \in DOMAIN table :
     /\ table[w].status = status
     /\ category = NotGiven \/ (category # NoCategory /\ table[w].category = category)
     /\ query = NotGiven \/ table[w].title = query}

CountWallpapers(table, status, category, query) ==
  Cardinality(Matching(table, status, category, query))

GetWallpaperByID(table, w) == table[w]

ListWallpapersRecent(table, status, category, query, off, lim) ==
  Pages(Matching(table, status, category, query), Newest(table), off, lim)

MostDownloaded(table) ==
  [w \in DOMAIN table |-> table[w].downloads * (Len(table) + 1) + w]

ListWallpapersPopular(table, status, category, query, off, lim) ==
  Pages(Matching(table, status, category, query), MostDownloaded(table), off, lim)

\* Mutant: the status of the upload, not of the review.
CreateUploading(table, title, category) ==
  Append(table, [status |-> "uploading", category |-> category, title |-> title,
                 downloads |-> 0, thumbnail |-> FALSE])

CreateWallpaper(table, title, category) ==
  Append(table, [status |-> "pending", category |-> category, title |-> title,
                 downloads |-> 0, thumbnail |-> FALSE])

UpdateWallpaperAfterFinalize(table, w) ==
  [table EXCEPT ![w].status = "pending_review", ![w].thumbnail = TRUE]

UpdateWallpaperStatus(table, w, status) == [table EXCEPT ![w].status = status]

\* The reason is not shown in any list.
UpdateWallpaperStatusWithReason(table, w, status) == [table EXCEPT ![w].status = status]

UpdateWallpaperMetadata(table, w, title, category) ==
  [table EXCEPT ![w].title = title, ![w].category = category]

IncrementDownloadCount(table, w) == [table EXCEPT ![w].downloads = @ + 1]

-----------------------------------------------------------------------------
(* favorites.sql, for one user                                             *)

Favored(favorites) == {w \in DOMAIN favorites : favorites[w] > 0}

CheckFavorite(favorites, w) == favorites[w] > 0

\* Later than all there are.  The caller sees to the primary key.
InsertFavorite(favorites, w, now) == [favorites EXCEPT ![w] = now]

DeleteFavorite(favorites, w) == [favorites EXCEPT ![w] = 0]

CountFavoritesByUser(favorites) == Cardinality(Favored(favorites))

\* Whatever the status of the wallpapers.
ListFavoritesByUser(favorites, off, lim) == Pages(Favored(favorites), favorites, off, lim)

-----------------------------------------------------------------------------
(* reports.sql                                                             *)

PendingReports(table) == {r \in DOMAIN table : table[r].status = "pending"}

CreateReport(table, w) == Append(table, [wallpaper |-> w, status |-> "pending"])

DismissReport(table, r) == [table EXCEPT ![r].status = "dismissed"]

CountPendingReports(table) == Cardinality(PendingReports(table))

ListPendingReports(table, off, lim) == Pages(PendingReports(table), Newest(table), off, lim)

-----------------------------------------------------------------------------
(* users.sql                                                               *)

\* email ILIKE '%query%', for addresses that do not contain one another.
Found(table, query) == {u \in DOMAIN table : table[u] = query}

\* Of a user only the address matters here.
CreateUser(table, email) == Append(table, email)

CountUsersWithSearch(table, query) == Cardinality(Found(table, query))

ListUsersWithSearch(table, query, off, lim) ==
  Pages(Found(table, query), Newest(table), off, lim)

CountUsers(table) == Cardinality(DOMAIN table)

ListUsers(table, off, lim) == Pages(DOMAIN table, Newest(table), off, lim)

=============================================================================
