------------------------------- MODULE Seeder -------------------------------
(***************************************************************************)
(* The command that fills an empty ScreenSpace: two accounts, a wallpaper  *)
(* for every entry of a manifest, and some favorites.  It is meant to be   *)
(* run again and again: what exists is skipped.                            *)
(*                                                                         *)
(* A seeder calls the database and the bucket one after the other, without *)
(* a transaction.  A call may fail, and may fail after it took effect; the *)
(* command may be killed; two people may run it at once.                   *)
(***************************************************************************)
EXTENDS Integers, Sequences, FiniteSets

CONSTANTS
  Seeders,    \* runs of the command that can be under way at once
  Titles,
  Manifest,   \* videos: the titles to seed, in this order
  Ids,        \* UUIDs
  NoId,
  Favored     \* how many favorites the regular user gets

ASSUME SeederAssumption ==
  /\ Manifest \in Seq(Titles) /\ Manifest # <<>>
  /\ \A i, j \in DOMAIN Manifest : Manifest[i] = Manifest[j] => i = j
  /\ NoId \notin Ids
  /\ Favored \in Nat
  /\ IsFiniteSet(Seeders)

VARIABLES
  users,         \* who of Accounts is in the users table
  rows,          \* wallpapers: id and title
  objects,       \* the bucket: id and kind
  favorites,     \* the wallpapers the regular user has as favorites
  step, pos,     \* where a seeder is, and the index of the loop it is in
  wpID,          \* the id of the wallpaper it is making
  wallpaperIDs,  \* the ids it has found or made so far
  failed         \* history: the seeders that met an error in this run

progress == <<step, pos, wpID, wallpaperIDs, failed>>
vars == <<users, rows, objects, favorites, progress>>

-----------------------------------------------------------------------------

Accounts == {"admin", "user"}

Kinds == {"original", "thumb", "preview"}

\* The steps of seedWallpaper.
VideoSteps == {"check", "prepare", "put_original", "put_thumb", "put_preview", "insert"}

Steps == {"idle", "find_admin", "insert_admin", "find_user", "insert_user", "favorite", "done"}
           \cup VideoSteps

\* What a seeder needs to know at its step.
Located(s) ==
  /\ step[s] \in {"find_admin", "insert_admin", "find_user", "insert_user"} => pos[s] = 1
  /\ step[s] \in VideoSteps => pos[s] \in DOMAIN Manifest
  /\ step[s] \in VideoSteps \ {"check", "prepare"} => wpID[s] \in Ids

TypeOK ==
  /\ users \in SUBSET Accounts
  /\ rows \in SUBSET [id : Ids, title : Titles]
  /\ objects \in SUBSET (Ids \X Kinds)
  /\ favorites \in SUBSET Ids
  /\ step \in [Seeders -> Steps]
  /\ pos \in [Seeders -> Nat \ {0}]
  /\ \A s \in Seeders : Located(s)
  /\ wpID \in [Seeders -> Ids \cup {NoId}]
  /\ wallpaperIDs \in [Seeders -> Seq(Ids)]
  /\ failed \in SUBSET Seeders

Init ==
  /\ users \in SUBSET Accounts
  /\ rows = {} /\ objects = {} /\ favorites = {}
  /\ step = [s \in Seeders |-> "idle"] /\ pos = [s \in Seeders |-> 1]
  /\ wpID = [s \in Seeders |-> NoId]
  /\ wallpaperIDs = [s \in Seeders |-> <<>>]
  /\ failed = {}

At(s, where) == step[s] = where

Goto(s, where) == step' = [step EXCEPT ![s] = where]

Stored(id, kind) == <<id, kind>> \in objects

-----------------------------------------------------------------------------

Start(s) ==
  /\ step[s] \in {"idle", "done"}
  /\ Goto(s, "find_admin")
  /\ pos' = [pos EXCEPT ![s] = 1]
  /\ wallpaperIDs' = [wallpaperIDs EXCEPT ![s] = <<>>]
  /\ failed' = failed \ {s}
  /\ UNCHANGED <<users, rows, objects, favorites, wpID>>

\* The command is killed, or exits: at an error of seedUser.
Ends(s) ==
  /\ Goto(s, "idle")
  /\ wpID' = [wpID EXCEPT ![s] = NoId]
  /\ UNCHANGED <<pos, wallpaperIDs, failed>>

Killed(s) ==
  /\ step[s] \notin {"idle", "done"}
  /\ Ends(s)
  /\ UNCHANGED <<users, rows, objects, favorites>>

\* What comes after the account e is there.
AfterUser(e) == IF e = "admin" THEN "find_user" ELSE "check"

FindUser(s, e) ==
  /\ At(s, IF e = "admin" THEN "find_admin" ELSE "find_user")
  /\ \/ /\ IF e \in users THEN Goto(s, AfterUser(e))
           ELSE Goto(s, IF e = "admin" THEN "insert_admin" ELSE "insert_user")
        /\ UNCHANGED <<pos, wpID, wallpaperIDs, failed>>
     \/ Ends(s)
  /\ UNCHANGED <<users, rows, objects, favorites>>

\* email is unique: if the other seeder was faster, the INSERT fails.
InsertUser(s, e) ==
  /\ At(s, IF e = "admin" THEN "insert_admin" ELSE "insert_user")
  /\ \/ /\ e \notin users
        /\ users' = users \cup {e}
        /\ Goto(s, AfterUser(e))
        /\ UNCHANGED <<pos, wpID, wallpaperIDs, failed>>
     \/ /\ users' \in {users, users \cup {e}}
        /\ Ends(s)
  /\ UNCHANGED <<rows, objects, favorites>>

-----------------------------------------------------------------------------
(* seedWallpaper, for the title at pos[s].                                 *)

Title(s) == Manifest[pos[s]]

\* Mutant: the loop ends one title too late.
NextVideoLate(s) ==
  /\ Goto(s, IF pos[s] > Len(Manifest) THEN "favorite" ELSE "check")
  /\ pos' = [pos EXCEPT ![s] = IF pos[s] > Len(Manifest) THEN 1 ELSE pos[s] + 1]
  /\ wpID' = [wpID EXCEPT ![s] = NoId]

\* The loop over the manifest goes on, or that over the favorites begins.
NextVideo(s) ==
  /\ Goto(s, IF pos[s] = Len(Manifest) THEN "favorite" ELSE "check")
  /\ pos' = [pos EXCEPT ![s] = IF pos[s] = Len(Manifest) THEN 1 ELSE pos[s] + 1]
  /\ wpID' = [wpID EXCEPT ![s] = NoId]

\* seedWallpaper returns an id.
Seeded(s, id) ==
  /\ NextVideo(s)
  /\ wallpaperIDs' = [wallpaperIDs EXCEPT ![s] = Append(wallpaperIDs[s], id)]
  /\ UNCHANGED failed

\* seedWallpaper returns an error: it is logged, and the title passed over.
NotSeeded(s) ==
  /\ NextVideo(s)
  /\ failed' = failed \cup {s}
  /\ UNCHANGED wallpaperIDs

\* Mutant: an error of the check counts as "there is none".
CheckErrorGoesOn(s) ==
  /\ At(s, "check")
  /\ \/ \E row \in rows : row.title = Title(s) /\ Seeded(s, row.id)
     \/ /\ Goto(s, "prepare")
        /\ UNCHANGED <<pos, wpID, wallpaperIDs, failed>>
  /\ UNCHANGED <<users, rows, objects, favorites>>

Check(s) ==
  /\ At(s, "check")
  /\ \/ \E row \in rows : row.title = Title(s) /\ Seeded(s, row.id)
     \/ /\ \A row \in rows : row.title # Title(s)
        /\ Goto(s, "prepare")
        /\ UNCHANGED <<pos, wpID, wallpaperIDs, failed>>
     \/ NotSeeded(s)
  /\ UNCHANGED <<users, rows, objects, favorites>>

\* An id no one has used.
Fresh(id) ==
  /\ \A row \in rows : row.id # id
  /\ \A kind \in Kinds : ~Stored(id, kind)
  /\ \A s \in Seeders : wpID[s] # id

\* The video is downloaded, or else generated; thumbnail and preview are
\* made and the video is probed, all in a directory of this call's own.
Prepare(s) ==
  /\ At(s, "prepare")
  /\ \/ /\ \E id \in Ids : Fresh(id) /\ wpID' = [wpID EXCEPT ![s] = id]
        /\ Goto(s, "put_original")
        /\ UNCHANGED <<pos, wallpaperIDs, failed>>
     \/ NotSeeded(s)
  /\ UNCHANGED <<users, rows, objects, favorites>>

\* Mutant: that an object could not be stored is only logged.
PutErrorGoesOn(s, kind, from, to) ==
  /\ At(s, from)
  /\ objects' \in {objects, objects \cup {<<wpID[s], kind>>}}
  /\ Goto(s, to)
  /\ UNCHANGED <<users, rows, favorites, pos, wpID, wallpaperIDs, failed>>

\* uploadFile.
Put(s, kind, from, to) ==
  /\ At(s, from)
  /\ \/ /\ objects' = objects \cup {<<wpID[s], kind>>}
        /\ Goto(s, to)
        /\ UNCHANGED <<pos, wpID, wallpaperIDs, failed>>
     \/ /\ objects' \in {objects, objects \cup {<<wpID[s], kind>>}}
        /\ NotSeeded(s)
  /\ UNCHANGED <<users, rows, favorites>>

\* INSERT, as approved.  The title need not be unique.
Insert(s) ==
  LET row == [id |-> wpID[s], title |-> Title(s)] IN
  /\ At(s, "insert")
  /\ \/ rows' = rows \cup {row} /\ Seeded(s, wpID[s])
     \/ rows' \in {rows, rows \cup {row}} /\ NotSeeded(s)
  /\ UNCHANGED <<users, objects, favorites>>

-----------------------------------------------------------------------------
(* The favorites.                                                          *)

\* Mutant: the loop begins at the second wallpaper.
AddFavoriteSecond(s) ==
  /\ At(s, "favorite")
  /\ pos[s] <= Favored /\ pos[s] < Len(wallpaperIDs[s])
  /\ favorites' = favorites \cup {wallpaperIDs[s][pos[s] + 1]}
  /\ pos' = [pos EXCEPT ![s] = @ + 1]
  /\ UNCHANGED <<users, rows, objects, step, wpID, wallpaperIDs, failed>>

\* ON CONFLICT DO NOTHING; an error is logged.
AddFavorite(s) ==
  /\ At(s, "favorite")
  /\ pos[s] <= Favored /\ pos[s] <= Len(wallpaperIDs[s])
  /\ \/ /\ favorites' = favorites \cup {wallpaperIDs[s][pos[s]]}
        /\ UNCHANGED failed
     \/ /\ favorites' \in {favorites, favorites \cup {wallpaperIDs[s][pos[s]]}}
        /\ failed' = failed \cup {s}
  /\ pos' = [pos EXCEPT ![s] = @ + 1]
  /\ UNCHANGED <<users, rows, objects, step, wpID, wallpaperIDs>>

Done(s) ==
  /\ At(s, "favorite")
  /\ pos[s] > Favored \/ pos[s] > Len(wallpaperIDs[s])
  /\ Goto(s, "done")
  /\ UNCHANGED <<users, rows, objects, favorites, pos, wpID, wallpaperIDs, failed>>

-----------------------------------------------------------------------------

Run(s) ==
  \/ \E e \in Accounts : FindUser(s, e) \/ InsertUser(s, e)
  \/ Check(s) \/ Prepare(s)
  \/ Put(s, "original", "put_original", "put_thumb")
  \/ Put(s, "thumb", "put_thumb", "put_preview")
  \/ Put(s, "preview", "put_preview", "insert")
  \/ Insert(s)
  \/ AddFavorite(s) \/ Done(s)

Next == \E s \in Seeders : Start(s) \/ Run(s) \/ Killed(s)

Spec == Init /\ [][Next]_vars

-----------------------------------------------------------------------------
(* Properties.                                                             *)

\* A seeded wallpaper is public at once, so all it consists of is in the
\* bucket before there is a row, whatever fails or is killed in between
\* (seed.go:154-185).
SeedsServable == \A row \in rows : \A kind \in Kinds : Stored(row.id, kind)

\* A run that reports success and met no error completes what earlier runs
\* left undone: every title has a wallpaper, and the first of them are
\* favorites (seed.go:31-70).
CleanRunCompletes ==
  \A s \in Seeders : At(s, "done") /\ s \notin failed =>
    \A i \in DOMAIN Manifest : \E row \in rows :
      row.title = Manifest[i] /\ (i <= Favored => row.id \in favorites)

Copies(title) == {row \in rows : row.title = title}

\* Runs can be repeated after failures that took effect, and be killed: there
\* are never more wallpapers of one title than seeders at work at once; one
\* at a time never doubles any (seed.go:99-111).
NoMoreCopiesThanSeeders ==
  \A title \in Titles : Cardinality(Copies(title)) <= Cardinality(Seeders)

\* Inductive invariant behind the first two.

\* What is in the bucket for the wallpaper that s is making.
StoredBefore(where) ==
  {kind \in Kinds :
     \/ kind = "original" /\ where \in {"put_thumb", "put_preview", "insert"}
     \/ kind = "thumb" /\ where \in {"put_preview", "insert"}
     \/ kind = "preview" /\ where = "insert"}

HasTitle(id, title) == [id |-> id, title |-> title] \in rows

\* How many entries of the manifest s has been through.
Through(s) ==
  IF step[s] \in {"favorite", "done"} THEN Len(Manifest)
  ELSE IF step[s] \in VideoSteps THEN pos[s] - 1 ELSE 0

\* What s is making is in the bucket as far as s believes.
HasStored(s) == \A kind \in StoredBefore(step[s]) : Stored(wpID[s], kind)

\* A run that met no error has an id for each title it has been through.
Clean(s) ==
  s \notin failed /\ step[s] # "idle" =>
    /\ Len(wallpaperIDs[s]) = Through(s)
    /\ \A i \in 1..Through(s) : HasTitle(wallpaperIDs[s][i], Manifest[i])
    /\ At(s, "favorite") => \A i \in 1..(pos[s] - 1) : wallpaperIDs[s][i] \in favorites
    /\ At(s, "done") =>
         \A i \in 1..Len(Manifest) : i <= Favored => wallpaperIDs[s][i] \in favorites

\* Inductive invariant behind the third: who makes a wallpaper of this title
\* saw none, and has a place among the seeders that its row will take over.
Making(title) ==
  {s \in Seeders : step[s] \in VideoSteps \ {"check"} /\ Title(s) = title}

RoomForMaking ==
  \A title \in Titles :
    /\ IsFiniteSet(Copies(title))
    /\ Cardinality(Copies(title)) + Cardinality(Making(title)) <= Cardinality(Seeders)

IInv == SeedsServable /\ \A s \in Seeders : HasStored(s) /\ Clean(s)

=============================================================================
