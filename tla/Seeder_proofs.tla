---------------------------- MODULE Seeder_proofs ----------------------------
(***************************************************************************)
(* Proofs about Seeder, for any manifest and any number of seeders.        *)
(***************************************************************************)
EXTENDS Seeder, FiniteSetTheorems, TLAPS

LEMMA ManifestFacts ==
  /\ Len(Manifest) \in Nat \ {0}
  /\ DOMAIN Manifest = 1..Len(Manifest)
  /\ \A i \in 1..Len(Manifest) : Manifest[i] \in Titles
  BY SeederAssumption

-----------------------------------------------------------------------------
(* Types.                                                                  *)

\* What the steps of the loop over the manifest do to the loop itself.
LEMMA NextVideoType ==
  ASSUME TypeOK, NEW s \in Seeders, step[s] \in VideoSteps, NextVideo(s)
  PROVE  /\ step' \in [Seeders -> Steps]
         /\ pos' \in [Seeders -> Nat \ {0}]
         /\ wpID' \in [Seeders -> Ids \cup {NoId}]
         /\ \A t \in Seeders : Located(t)'
  <1>1. pos[s] \in 1..Len(Manifest)
    BY ManifestFacts DEF TypeOK, Located
  <1>2. /\ step' \in [Seeders -> Steps]
        /\ wpID' \in [Seeders -> Ids \cup {NoId}]
    BY DEF NextVideo, Goto, TypeOK, Steps, VideoSteps
  <1>3. pos' \in [Seeders -> Nat \ {0}]
    BY <1>1, ManifestFacts DEF NextVideo, TypeOK
  <1>4. Located(s)'
    <2>1. CASE pos[s] = Len(Manifest)
      <3>1. step'[s] = "favorite"
        BY <2>1 DEF NextVideo, Goto, TypeOK
      <3> QED
        BY <3>1 DEF Located, VideoSteps
    <2>2. CASE pos[s] # Len(Manifest)
      <3>1. step'[s] = "check" /\ pos'[s] = pos[s] + 1
        BY <2>2 DEF NextVideo, Goto, TypeOK
      <3>2. pos[s] + 1 \in DOMAIN Manifest
        BY <1>1, <2>2, ManifestFacts
      <3> QED
        BY <3>1, <3>2 DEF Located, VideoSteps
    <2> QED
      BY <2>1, <2>2
  <1>5. ASSUME NEW t \in Seeders, t # s PROVE Located(t)'
    <2>1. step'[t] = step[t] /\ pos'[t] = pos[t] /\ wpID'[t] = wpID[t]
      BY <1>5 DEF NextVideo, Goto, TypeOK
    <2> QED
      BY <2>1 DEF Located, TypeOK
  <1> QED
    BY <1>2, <1>3, <1>4, <1>5

LEMMA VideoOutcomeType ==
  ASSUME TypeOK, NEW s \in Seeders, step[s] \in VideoSteps,
         NotSeeded(s) \/ \E id \in Ids : Seeded(s, id)
  PROVE  /\ step' \in [Seeders -> Steps]
         /\ pos' \in [Seeders -> Nat \ {0}]
         /\ wpID' \in [Seeders -> Ids \cup {NoId}]
         /\ \A t \in Seeders : Located(t)'
         /\ wallpaperIDs' \in [Seeders -> Seq(Ids)]
         /\ failed' \in SUBSET Seeders
  <1>1. NextVideo(s)
    BY DEF NotSeeded, Seeded
  <1>2. CASE NotSeeded(s)
    BY <1>1, <1>2, NextVideoType DEF NotSeeded, TypeOK
  <1>3. ASSUME NEW id \in Ids, Seeded(s, id)
        PROVE wallpaperIDs' \in [Seeders -> Seq(Ids)] /\ failed' \in SUBSET Seeders
    <2>1. Append(wallpaperIDs[s], id) \in Seq(Ids)
      BY DEF TypeOK
    <2> QED
      BY <1>3, <2>1 DEF Seeded, TypeOK
  <1> QED
    BY <1>1, <1>2, <1>3, NextVideoType

\* A step that moves s elsewhere and leaves the index of its loop alone.
LEMMA GotoType ==
  ASSUME TypeOK, NEW s \in Seeders, NEW where \in Steps, Goto(s, where), pos' = pos,
         wpID' \in [Seeders -> Ids \cup {NoId}],
         \A t \in Seeders \ {s} : wpID'[t] = wpID[t],
         where \in {"insert_admin", "find_user", "insert_user"} => pos[s] = 1,
         where # "find_admin",
         where \in VideoSteps => pos[s] \in DOMAIN Manifest,
         where \in VideoSteps \ {"check", "prepare"} => wpID'[s] \in Ids
  PROVE  /\ step' \in [Seeders -> Steps]
         /\ pos' \in [Seeders -> Nat \ {0}]
         /\ \A t \in Seeders : Located(t)'
  <1>1. step' \in [Seeders -> Steps] /\ step'[s] = where
    BY DEF Goto, TypeOK
  <1>2. ASSUME NEW t \in Seeders, t # s PROVE Located(t)'
    <2>1. step'[t] = step[t] /\ pos'[t] = pos[t] /\ wpID'[t] = wpID[t]
      BY <1>2 DEF Goto, TypeOK
    <2> QED
      BY <2>1 DEF Located, TypeOK
  <1>3. Located(s)'
    BY <1>1 DEF Located
  <1> QED
    BY <1>1, <1>2, <1>3 DEF TypeOK

LEMMA EndsType ==
  ASSUME TypeOK, NEW s \in Seeders, Ends(s)
  PROVE  /\ step' \in [Seeders -> Steps]
         /\ pos' \in [Seeders -> Nat \ {0}]
         /\ wpID' \in [Seeders -> Ids \cup {NoId}]
         /\ \A t \in Seeders : Located(t)'
         /\ wallpaperIDs' \in [Seeders -> Seq(Ids)]
         /\ failed' \in SUBSET Seeders
  <1>1. "idle" \in Steps /\ "idle" \notin VideoSteps
    BY DEF Steps, VideoSteps
  <1>2. Goto(s, "idle") /\ UNCHANGED <<pos, wallpaperIDs, failed>>
    BY DEF Ends
  <1>3. /\ wpID' \in [Seeders -> Ids \cup {NoId}]
        /\ \A t \in Seeders \ {s} : wpID'[t] = wpID[t]
    BY DEF Ends, TypeOK
  <1> QED
    BY <1>1, <1>2, <1>3, GotoType DEF TypeOK

LEMMA TypeStep ==
  ASSUME TypeOK, NEW s \in Seeders, Start(s) \/ Run(s) \/ Killed(s)
  PROVE  TypeOK'
  <1>one. 1 \in DOMAIN Manifest
    BY ManifestFacts
  <1>1. CASE Start(s)
    <2>1. /\ step' \in [Seeders -> Steps] /\ step'[s] = "find_admin"
          /\ pos' \in [Seeders -> Nat \ {0}] /\ pos'[s] = 1
          /\ wpID' = wpID
      BY <1>1 DEF Start, Goto, TypeOK, Steps
    <2>2. ASSUME NEW t \in Seeders PROVE Located(t)'
      <3>1. CASE t = s
        BY <2>1, <3>1 DEF Located, VideoSteps
      <3>2. CASE t # s
        <4>1. step'[t] = step[t] /\ pos'[t] = pos[t]
          BY <1>1, <3>2 DEF Start, Goto, TypeOK
        <4> QED
          BY <2>1, <4>1 DEF Located, TypeOK
      <3> QED
        BY <3>1, <3>2
    <2>3. wallpaperIDs' \in [Seeders -> Seq(Ids)]
      <3>1. <<>> \in Seq(Ids)
        OBVIOUS
      <3> QED
        BY <1>1, <3>1 DEF Start, TypeOK
    <2> QED
      BY <1>1, <2>1, <2>2, <2>3 DEF Start, TypeOK
  <1>2. CASE Killed(s)
    BY <1>2, EndsType DEF Killed, TypeOK
  <1>3. ASSUME NEW e \in Accounts, FindUser(s, e) PROVE TypeOK'
    <2>1. CASE Ends(s)
      BY <1>3, <2>1, EndsType DEF FindUser, TypeOK
    <2>2. CASE ~Ends(s)
      <3>1. PICK where \in {AfterUser(e), IF e = "admin" THEN "insert_admin" ELSE "insert_user"} :
              Goto(s, where)
        BY <1>3, <2>2 DEF FindUser
      <3>2. where \in {"find_user", "check", "insert_admin", "insert_user"}
        BY <3>1 DEF AfterUser
      <3>3. where \in Steps /\ where # "find_admin" /\ where \notin VideoSteps \ {"check", "prepare"}
        BY <3>2 DEF Steps, VideoSteps
      <3>4. pos[s] = 1
        BY <1>3 DEF FindUser, At, TypeOK, Located
      <3>5. UNCHANGED <<pos, wpID, wallpaperIDs, failed, users, rows, objects, favorites>>
        BY <1>3, <2>2 DEF FindUser
      <3> QED
        BY <3>1, <3>3, <3>4, <3>5, <1>one, GotoType DEF TypeOK
    <2> QED
      BY <2>1, <2>2
  <1>4. ASSUME NEW e \in Accounts, InsertUser(s, e) PROVE TypeOK'
    <2>0. users' \in SUBSET Accounts /\ UNCHANGED <<rows, objects, favorites>>
      BY <1>4 DEF InsertUser, TypeOK
    <2>1. CASE Ends(s)
      BY <2>0, <2>1, EndsType DEF TypeOK
    <2>2. CASE ~Ends(s)
      <3>1. Goto(s, AfterUser(e)) /\ UNCHANGED <<pos, wpID, wallpaperIDs, failed>>
        BY <1>4, <2>2 DEF InsertUser
      <3>2. AfterUser(e) \in {"find_user", "check"}
        BY DEF AfterUser
      <3>3. /\ AfterUser(e) \in Steps /\ AfterUser(e) # "find_admin"
            /\ AfterUser(e) \notin VideoSteps \ {"check", "prepare"}
        BY <3>2 DEF Steps, VideoSteps
      <3>4. pos[s] = 1
        BY <1>4 DEF InsertUser, At, TypeOK, Located
      <3> QED
        BY <2>0, <3>1, <3>3, <3>4, <1>one, GotoType DEF TypeOK
    <2> QED
      BY <2>1, <2>2
  <1>5. CASE Check(s)
    <2>0. step[s] \in VideoSteps /\ UNCHANGED <<users, rows, objects, favorites>>
      BY <1>5 DEF Check, At, VideoSteps
    <2>1. ASSUME NEW row \in rows, Seeded(s, row.id) PROVE TypeOK'
      <3>1. row.id \in Ids
        BY DEF TypeOK
      <3> QED
        BY <2>0, <2>1, <3>1, VideoOutcomeType DEF TypeOK
    <2>2. CASE Goto(s, "prepare") /\ UNCHANGED <<pos, wpID, wallpaperIDs, failed>>
      <3>1. "prepare" \in Steps /\ pos[s] \in DOMAIN Manifest
        BY <2>0 DEF Steps, VideoSteps, TypeOK, Located
      <3> QED
        BY <2>0, <2>2, <3>1, GotoType DEF TypeOK
    <2>3. CASE NotSeeded(s)
      BY <2>0, <2>3, VideoOutcomeType DEF TypeOK
    <2> QED
      BY <1>5, <2>1, <2>2, <2>3 DEF Check
  <1>6. CASE Prepare(s)
    <2>0. step[s] \in VideoSteps /\ UNCHANGED <<users, rows, objects, favorites>>
      BY <1>6 DEF Prepare, At, VideoSteps
    <2>1. CASE NotSeeded(s)
      BY <2>0, <2>1, VideoOutcomeType DEF TypeOK
    <2>2. CASE ~NotSeeded(s)
      <3>1. /\ Goto(s, "put_original") /\ UNCHANGED <<pos, wallpaperIDs, failed>>
            /\ \E id \in Ids : wpID' = [wpID EXCEPT ![s] = id]
        BY <1>6, <2>2 DEF Prepare
      <3>2. /\ wpID' \in [Seeders -> Ids \cup {NoId}] /\ wpID'[s] \in Ids
            /\ \A t \in Seeders \ {s} : wpID'[t] = wpID[t]
        BY <3>1 DEF TypeOK
      <3>3. "put_original" \in Steps /\ pos[s] \in DOMAIN Manifest
        BY <2>0 DEF Steps, VideoSteps, TypeOK, Located
      <3> QED
        BY <2>0, <3>1, <3>2, <3>3, GotoType DEF TypeOK
    <2> QED
      BY <2>1, <2>2
  <1>7. ASSUME NEW kind \in Kinds, NEW from \in {"put_original", "put_thumb", "put_preview"},
               NEW to \in {"put_thumb", "put_preview", "insert"}, Put(s, kind, from, to)
        PROVE TypeOK'
    <2>0. /\ step[s] \in VideoSteps /\ UNCHANGED <<users, rows, favorites>>
          /\ objects' \in {objects, objects \cup {<<wpID[s], kind>>}}
      BY <1>7 DEF Put, At, VideoSteps
    <2>i. wpID[s] \in Ids
      BY <1>7 DEF Put, At, TypeOK, Located, VideoSteps
    <2>1. objects' \in SUBSET (Ids \X Kinds)
      BY <2>i, <2>0 DEF TypeOK
    <2>2. CASE NotSeeded(s)
      BY <2>0, <2>1, <2>2, VideoOutcomeType DEF TypeOK
    <2>3. CASE ~NotSeeded(s)
      <3>1. Goto(s, to) /\ UNCHANGED <<pos, wpID, wallpaperIDs, failed>>
        BY <1>7, <2>3 DEF Put
      <3>2. to \in Steps /\ to \notin {"find_admin", "insert_admin", "find_user", "insert_user"}
        BY DEF Steps, VideoSteps
      <3>3. pos[s] \in DOMAIN Manifest
        BY <2>0 DEF TypeOK, Located
      <3> QED
        BY <2>0, <2>i, <2>1, <3>3, <3>1, <3>2, GotoType DEF TypeOK
    <2> QED
      BY <2>2, <2>3
  <1>8. CASE Insert(s)
    <2>0. /\ step[s] \in VideoSteps /\ UNCHANGED <<users, objects, favorites>>
          /\ wpID[s] \in Ids /\ pos[s] \in DOMAIN Manifest
      BY <1>8 DEF Insert, At, VideoSteps, TypeOK, Located
    <2>1. Title(s) \in Titles
      BY <2>0, ManifestFacts DEF Title
    <2>2. rows' \in SUBSET [id : Ids, title : Titles]
      BY <1>8, <2>0, <2>1 DEF Insert, TypeOK
    <2>3. NotSeeded(s) \/ \E id \in Ids : Seeded(s, id)
      BY <1>8, <2>0 DEF Insert
    <2> QED
      BY <2>0, <2>2, <2>3, VideoOutcomeType DEF TypeOK
  <1>9. CASE AddFavorite(s)
    <2>1. pos[s] \in Nat \ {0} /\ wallpaperIDs[s] \in Seq(Ids) /\ step[s] = "favorite"
      BY <1>9 DEF AddFavorite, At, TypeOK
    <2>2. wallpaperIDs[s][pos[s]] \in Ids
      BY <1>9, <2>1 DEF AddFavorite
    <2>3. favorites' \in SUBSET Ids /\ failed' \in SUBSET Seeders
      BY <1>9, <2>2 DEF AddFavorite, TypeOK
    <2>4. /\ pos' = [pos EXCEPT ![s] = pos[s] + 1]
          /\ UNCHANGED <<users, rows, objects, step, wpID, wallpaperIDs>>
      BY <1>9 DEF AddFavorite
    <2>5. pos' \in [Seeders -> Nat \ {0}]
      BY <2>1, <2>4 DEF TypeOK
    <2>6. ASSUME NEW t \in Seeders PROVE Located(t)'
      <3>1. CASE t = s
        BY <2>1, <2>4, <3>1 DEF Located, VideoSteps
      <3>2. CASE t # s
        BY <2>4, <3>2 DEF Located, TypeOK
      <3> QED
        BY <3>1, <3>2
    <2> QED
      BY <2>3, <2>4, <2>5, <2>6 DEF TypeOK
  <1>10. CASE Done(s)
    <2>1. Goto(s, "done") /\ "done" \in Steps /\ "done" \notin VideoSteps
      BY <1>10 DEF Done, Steps, VideoSteps
    <2>2. UNCHANGED <<users, rows, objects, favorites, pos, wpID, wallpaperIDs, failed>>
      BY <1>10 DEF Done
    <2> QED
      BY <2>1, <2>2, GotoType DEF TypeOK
  <1>11. {"original", "thumb", "preview"} \subseteq Kinds
    BY DEF Kinds
  <1> QED
    BY <1>1, <1>2, <1>3, <1>4, <1>5, <1>6, <1>7, <1>8, <1>9, <1>10, <1>11 DEF Run

\* Types, for any manifest, ids and number of seeders (seed.go).
THEOREM TypeCorrect == Spec => []TypeOK
  <1>1. Init => TypeOK
    BY ManifestFacts DEF Init, TypeOK, Steps, VideoSteps, Located
  <1>2. TypeOK /\ [Next]_vars => TypeOK'
    <2> SUFFICES ASSUME TypeOK, [Next]_vars PROVE TypeOK'
      OBVIOUS
    <2>1. CASE Next
      BY <2>1, TypeStep DEF Next
    <2>2. CASE UNCHANGED vars
      BY <2>2 DEF vars, progress, TypeOK, Located
    <2> QED
      BY <2>1, <2>2
  <1> QED
    BY <1>1, <1>2, PTL DEF Spec

-----------------------------------------------------------------------------
(* The invariant.                                                          *)

\* A step of s takes nothing away and leaves the other seeders alone.
LEMMA Frame ==
  ASSUME TypeOK, NEW s \in Seeders, Start(s) \/ Run(s) \/ Killed(s)
  PROVE  /\ rows \subseteq rows' /\ objects \subseteq objects' /\ favorites \subseteq favorites'
         /\ \A t \in Seeders \ {s} :
              /\ step'[t] = step[t] /\ pos'[t] = pos[t] /\ wpID'[t] = wpID[t]
              /\ wallpaperIDs'[t] = wallpaperIDs[t] /\ (t \in failed' <=> t \in failed)
  <1> USE DEF Ends, Goto, NotSeeded, Seeded, NextVideo
  <1>1. CASE Start(s) \/ Killed(s)
    BY <1>1 DEF Start, Killed, TypeOK
  <1>2. CASE \E e \in Accounts : FindUser(s, e) \/ InsertUser(s, e)
    BY <1>2 DEF FindUser, InsertUser, TypeOK
  <1>3. CASE Check(s) \/ Prepare(s)
    BY <1>3 DEF Check, Prepare, TypeOK
  <1>4. ASSUME NEW kind, NEW from, NEW to, Put(s, kind, from, to)
        PROVE /\ rows \subseteq rows' /\ objects \subseteq objects'
              /\ favorites \subseteq favorites'
              /\ \A t \in Seeders \ {s} :
                   /\ step'[t] = step[t] /\ pos'[t] = pos[t] /\ wpID'[t] = wpID[t]
                   /\ wallpaperIDs'[t] = wallpaperIDs[t] /\ (t \in failed' <=> t \in failed)
    BY <1>4 DEF Put, TypeOK
  <1>5. CASE Insert(s)
    BY <1>5 DEF Insert, TypeOK
  <1>6. CASE AddFavorite(s) \/ Done(s)
    BY <1>6 DEF AddFavorite, Done, TypeOK
  <1> QED
    BY <1>1, <1>2, <1>3, <1>4, <1>5, <1>6 DEF Run

LEMMA OthersKept ==
  ASSUME TypeOK, IInv, NEW s \in Seeders, Start(s) \/ Run(s) \/ Killed(s),
         NEW t \in Seeders, t # s
  PROVE  HasStored(t)' /\ Clean(t)'
  <1>1. /\ rows \subseteq rows' /\ objects \subseteq objects' /\ favorites \subseteq favorites'
        /\ step'[t] = step[t] /\ pos'[t] = pos[t] /\ wpID'[t] = wpID[t]
        /\ wallpaperIDs'[t] = wallpaperIDs[t] /\ (t \in failed' <=> t \in failed)
    BY Frame
  <1>2. HasStored(t)'
    BY <1>1 DEF IInv, HasStored, Stored
  <1>3. Through(t)' = Through(t)
    BY <1>1 DEF Through
  <1>4. Clean(t)'
    BY <1>1, <1>3 DEF IInv, Clean, HasTitle, At
  <1> QED
    BY <1>2, <1>4

LEMMA ServableStep ==
  ASSUME TypeOK, IInv, NEW s \in Seeders, Start(s) \/ Run(s) \/ Killed(s)
  PROVE  SeedsServable'
  <1>1. objects \subseteq objects'
    BY Frame
  <1>2. CASE rows' = rows
    BY <1>1, <1>2 DEF IInv, SeedsServable, Stored
  <1>3. CASE rows' # rows
    <2>1. Insert(s)
      BY <1>3 DEF Run, Start, Killed, FindUser, InsertUser, Check, Prepare, Put, AddFavorite, Done
    <2>2. rows' \subseteq rows \cup {[id |-> wpID[s], title |-> Title(s)]}
      BY <2>1 DEF Insert
    <2>3. \A kind \in Kinds : Stored(wpID[s], kind)
      BY <2>1 DEF Insert, At, IInv, HasStored, StoredBefore, Kinds
    <2>4. ASSUME NEW row \in rows', NEW kind \in Kinds PROVE Stored(row.id, kind)'
      <3>1. row \in rows \/ row.id = wpID[s]
        BY <2>2
      <3> QED
        BY <1>1, <2>3, <3>1 DEF IInv, SeedsServable, Stored
    <2> QED
      BY <2>4 DEF SeedsServable
  <1> QED
    BY <1>2, <1>3

LEMMA StoredStep ==
  ASSUME TypeOK, IInv, NEW s \in Seeders, Start(s) \/ Run(s) \/ Killed(s)
  PROVE  HasStored(s)'
  <1>0. objects \subseteq objects'
    BY Frame
  <1>1. ASSUME step'[s] \in Steps \ {"put_thumb", "put_preview", "insert"} PROVE HasStored(s)'
    BY <1>1 DEF HasStored, StoredBefore, Kinds
  <1>2. ASSUME NEW kind \in Kinds, NEW from \in {"put_original", "put_thumb", "put_preview"},
               NEW to \in {"put_thumb", "put_preview", "insert"}, Put(s, kind, from, to),
               StoredBefore(to) = StoredBefore(from) \cup {kind}
        PROVE HasStored(s)'
    <2>1. CASE NotSeeded(s)
      <3>1. step'[s] \in {"favorite", "check"}
        BY <2>1 DEF NotSeeded, NextVideo, Goto, TypeOK
      <3> QED
        BY <3>1, <1>1 DEF Steps, VideoSteps
    <2>2. CASE ~NotSeeded(s)
      <3>1. /\ step[s] = from /\ step'[s] = to /\ wpID' = wpID
            /\ objects' = objects \cup {<<wpID[s], kind>>}
        BY <1>2, <2>2 DEF Put, At, Goto, TypeOK
      <3>2. \A k \in StoredBefore(from) : Stored(wpID[s], k)
        BY <3>1 DEF IInv, HasStored
      <3> QED
        BY <1>2, <3>1, <3>2 DEF HasStored, Stored
    <2> QED
      BY <2>1, <2>2
  <1>3. /\ StoredBefore("put_thumb") = StoredBefore("put_original") \cup {"original"}
        /\ StoredBefore("put_preview") = StoredBefore("put_thumb") \cup {"thumb"}
        /\ StoredBefore("insert") = StoredBefore("put_preview") \cup {"preview"}
        /\ {"original", "thumb", "preview"} \subseteq Kinds
    BY DEF StoredBefore, Kinds
  <1>4. \/ step'[s] \in Steps \ {"put_thumb", "put_preview", "insert"}
        \/ Put(s, "original", "put_original", "put_thumb")
        \/ Put(s, "thumb", "put_thumb", "put_preview")
        \/ Put(s, "preview", "put_preview", "insert")
    BY DEF Run, Start, Killed, Ends, FindUser, InsertUser, AfterUser, Check, Prepare, Insert,
           AddFavorite, Done, NotSeeded, Seeded, NextVideo, Goto, At, TypeOK, Steps, VideoSteps
  <1> QED
    BY <1>1, <1>2, <1>3, <1>4

\* The loop over the manifest goes on.
LEMMA NextThrough ==
  ASSUME TypeOK, NEW s \in Seeders, step[s] \in VideoSteps, NextVideo(s)
  PROVE  /\ Through(s) = pos[s] - 1 /\ Through(s)' = pos[s]
         /\ pos[s] \in 1..Len(Manifest)
         /\ step'[s] \in {"favorite", "check"}
         /\ step'[s] = "favorite" => pos'[s] = 1
  <1>1. pos[s] \in 1..Len(Manifest)
    BY ManifestFacts DEF TypeOK, Located
  <1>2. Through(s) = pos[s] - 1
    BY DEF Through, VideoSteps
  <1>3. CASE pos[s] = Len(Manifest)
    <2>1. step'[s] = "favorite" /\ pos'[s] = 1
      BY <1>3 DEF NextVideo, Goto, TypeOK
    <2> QED
      BY <1>1, <1>2, <1>3, <2>1 DEF Through
  <1>4. CASE pos[s] # Len(Manifest)
    <2>1. step'[s] = "check" /\ pos'[s] = pos[s] + 1
      BY <1>4 DEF NextVideo, Goto, TypeOK
    <2>2. Through(s)' = pos'[s] - 1
      BY <2>1 DEF Through, VideoSteps
    <2> QED
      BY <1>1, <1>2, <2>1, <2>2
  <1> QED
    BY <1>3, <1>4

LEMMA SeededClean ==
  ASSUME TypeOK, NEW s \in Seeders, Clean(s), step[s] \in VideoSteps,
         NEW id \in Ids, Seeded(s, id), [id |-> id, title |-> Title(s)] \in rows',
         rows \subseteq rows'
  PROVE  Clean(s)'
  <1> SUFFICES ASSUME s \notin failed' PROVE Clean(s)'
    BY DEF Clean
  <1>1. /\ Through(s) = pos[s] - 1 /\ Through(s)' = pos[s]
        /\ pos[s] \in 1..Len(Manifest)
        /\ step'[s] \in {"favorite", "check"}
        /\ step'[s] = "favorite" => pos'[s] = 1
    BY NextThrough DEF Seeded
  <1>2. /\ wallpaperIDs[s] \in Seq(Ids)
        /\ Len(wallpaperIDs[s]) = pos[s] - 1
        /\ \A i \in 1..(pos[s] - 1) : HasTitle(wallpaperIDs[s][i], Manifest[i])
    BY <1>1 DEF Clean, Seeded, VideoSteps, TypeOK
  <1>3. wallpaperIDs'[s] = Append(wallpaperIDs[s], id)
    BY DEF Seeded, TypeOK
  <1>4. /\ Len(wallpaperIDs'[s]) = pos[s]
        /\ wallpaperIDs'[s][pos[s]] = id
        /\ \A i \in 1..(pos[s] - 1) : wallpaperIDs'[s][i] = wallpaperIDs[s][i]
    BY <1>1, <1>2, <1>3, ManifestFacts
  <1>5. ASSUME NEW i \in 1..pos[s] PROVE HasTitle(wallpaperIDs[s][i], Manifest[i])'
    <2>1. CASE i = pos[s]
      BY <1>4, <2>1 DEF HasTitle, Title
    <2>2. CASE i # pos[s]
      <3>1. i \in 1..(pos[s] - 1)
        BY <1>1, <2>2
      <3> QED
        BY <1>2, <1>4, <3>1 DEF HasTitle
    <2> QED
      BY <2>1, <2>2
  <1>6. At(s, "favorite")' => \A i \in 1..(pos'[s] - 1) : wallpaperIDs'[s][i] \in favorites'
    <2>1. At(s, "favorite")' => 1..(pos'[s] - 1) = {}
      BY <1>1 DEF At
    <2> QED
      BY <2>1
  <1>7. ~At(s, "done")'
    BY <1>1 DEF At
  <1> QED
    BY <1>1, <1>4, <1>5, <1>6, <1>7 DEF Clean

\* A step that changes nothing but where s is and what it makes.
LEMMA StayClean ==
  ASSUME TypeOK, NEW s \in Seeders, Clean(s), step[s] \in Steps \ {"idle", "favorite", "done"},
         NEW to \in Steps \ {"favorite", "done"}, Goto(s, to),
         UNCHANGED <<pos, wallpaperIDs, failed>>, rows \subseteq rows',
         to # "idle" => Through(s)' = Through(s)
  PROVE  Clean(s)'
  <1>1. step'[s] = to
    BY DEF Goto, TypeOK
  <1> QED
    BY <1>1 DEF Clean, HasTitle, At

LEMMA CleanStep ==
  ASSUME TypeOK, IInv, NEW s \in Seeders, Start(s) \/ Run(s) \/ Killed(s)
  PROVE  Clean(s)'
  <1>c. Clean(s) /\ rows \subseteq rows' /\ favorites \subseteq favorites'
    BY Frame DEF IInv
  <1>i. ASSUME Ends(s) PROVE Clean(s)'
    BY <1>i DEF Ends, Goto, Clean, TypeOK
  <1>n. ASSUME NotSeeded(s) PROVE Clean(s)'
    BY <1>n DEF NotSeeded, Clean
  <1>1. CASE Start(s)
    <2>1. step'[s] = "find_admin" /\ wallpaperIDs'[s] = <<>>
      BY <1>1 DEF Start, Goto, TypeOK
    <2>2. Through(s)' = 0
      BY <2>1 DEF Through, VideoSteps
    <2> QED
      BY <2>1, <2>2 DEF Clean, At
  <1>2. CASE Killed(s)
    BY <1>2, <1>i DEF Killed
  <1>3. ASSUME NEW e \in Accounts, FindUser(s, e) \/ InsertUser(s, e), ~Ends(s) PROVE Clean(s)'
    <2>1. PICK to \in {"find_user", "check", "insert_admin", "insert_user"} :
            Goto(s, to) /\ UNCHANGED <<pos, wallpaperIDs, failed>>
      BY <1>3 DEF FindUser, InsertUser, AfterUser
    <2>2. step[s] \in {"find_admin", "find_user", "insert_admin", "insert_user"}
      BY <1>3 DEF FindUser, InsertUser, At
    <2>3. pos[s] = 1 /\ Through(s) = 0
      BY <2>2 DEF TypeOK, Located, Through, VideoSteps
    <2>4. step'[s] = to /\ pos'[s] = 1
      BY <2>1, <2>3 DEF Goto, TypeOK
    <2>5. Through(s)' = 0
      BY <2>1, <2>4 DEF Through, VideoSteps
    <2>6. /\ step[s] \in Steps \ {"idle", "favorite", "done"}
          /\ to \in Steps \ {"favorite", "done"}
      BY <2>1, <2>2 DEF Steps, VideoSteps
    <2> QED
      BY <1>c, <2>1, <2>3, <2>5, <2>6, StayClean
  <1>4. CASE Check(s)
    <2>1. step[s] \in VideoSteps
      BY <1>4 DEF Check, At, VideoSteps
    <2>2. ASSUME NEW row \in rows, row.title = Title(s), Seeded(s, row.id) PROVE Clean(s)'
      <3>1. row.id \in Ids /\ row = [id |-> row.id, title |-> Title(s)]
        BY <2>2 DEF TypeOK
      <3> QED
        BY <1>c, <2>1, <2>2, <3>1, SeededClean
    <2>3. ASSUME Goto(s, "prepare"), UNCHANGED <<pos, wpID, wallpaperIDs, failed>> PROVE Clean(s)'
      <3>1. Through(s)' = Through(s)
        BY <2>1, <2>3 DEF Goto, TypeOK, Through, VideoSteps
      <3>2. /\ step[s] \in Steps \ {"idle", "favorite", "done"}
            /\ "prepare" \in Steps \ {"favorite", "done"}
        BY <2>1 DEF Steps, VideoSteps
      <3> QED
        BY <1>c, <2>3, <3>1, <3>2, StayClean
    <2> QED
      BY <1>4, <1>n, <2>2, <2>3 DEF Check
  <1>5. ASSUME NEW to \in VideoSteps, step[s] \in VideoSteps, Goto(s, to),
               UNCHANGED <<pos, wallpaperIDs, failed>>
        PROVE Clean(s)'
    <2>1. Through(s)' = Through(s)
      BY <1>5 DEF Goto, TypeOK, Through, VideoSteps
    <2>2. /\ step[s] \in Steps \ {"idle", "favorite", "done"}
          /\ to \in Steps \ {"favorite", "done"}
      BY <1>5 DEF Steps, VideoSteps
    <2> QED
      BY <1>c, <1>5, <2>1, <2>2, StayClean
  <1>6. CASE Prepare(s)
    <2>1. step[s] \in VideoSteps /\ "put_original" \in VideoSteps
      BY <1>6 DEF Prepare, At, VideoSteps
    <2> QED
      BY <1>6, <1>5, <1>n, <2>1 DEF Prepare
  <1>7. ASSUME NEW kind, NEW from \in {"put_original", "put_thumb", "put_preview"},
               NEW to \in {"put_thumb", "put_preview", "insert"}, Put(s, kind, from, to)
        PROVE Clean(s)'
    <2>1. step[s] \in VideoSteps /\ to \in VideoSteps
      BY <1>7 DEF Put, At, VideoSteps
    <2> QED
      BY <1>7, <1>5, <1>n, <2>1 DEF Put
  <1>8. CASE Insert(s)
    <2>1. step[s] \in VideoSteps /\ wpID[s] \in Ids
      BY <1>8 DEF Insert, At, VideoSteps, TypeOK, Located
    <2>2. ASSUME rows' = rows \cup {[id |-> wpID[s], title |-> Title(s)]}, Seeded(s, wpID[s])
          PROVE Clean(s)'
      BY <1>c, <2>1, <2>2, SeededClean
    <2> QED
      BY <1>8, <1>n, <2>2 DEF Insert
  <1>9. CASE AddFavorite(s)
    <2> SUFFICES ASSUME s \notin failed' PROVE Clean(s)'
      BY DEF Clean
    <2>1. /\ step[s] = "favorite" /\ step' = step /\ wallpaperIDs' = wallpaperIDs
          /\ pos[s] \in Nat \ {0} /\ pos'[s] = pos[s] + 1 /\ s \notin failed
          /\ wallpaperIDs[s][pos[s]] \in favorites'
      BY <1>9 DEF AddFavorite, At, TypeOK
    <2>2. Through(s)' = Through(s)
      BY <2>1 DEF Through
    <2>3. \A i \in 1..(pos[s] - 1) : wallpaperIDs[s][i] \in favorites'
      BY <1>c, <2>1 DEF Clean, At
    <2>4. \A i \in 1..(pos'[s] - 1) : wallpaperIDs'[s][i] \in favorites'
      <3>1. ASSUME NEW i \in 1..pos[s] PROVE wallpaperIDs[s][i] \in favorites'
        <4>1. CASE i = pos[s]
          BY <2>1, <4>1
        <4>2. CASE i # pos[s]
          <5>1. i \in 1..(pos[s] - 1)
            BY <2>1, <4>2
          <5> QED
            BY <2>3, <5>1
        <4> QED
          BY <4>1, <4>2
      <3>2. pos'[s] - 1 = pos[s]
        BY <2>1
      <3> QED
        BY <2>1, <3>1, <3>2
    <2>5. /\ Len(wallpaperIDs[s]) = Through(s)
          /\ \A i \in 1..Through(s) : HasTitle(wallpaperIDs[s][i], Manifest[i])
      BY <1>c, <2>1 DEF Clean
    <2> QED
      BY <1>c, <2>1, <2>2, <2>4, <2>5 DEF Clean, HasTitle, At
  <1>10. CASE Done(s)
    <2> SUFFICES ASSUME s \notin failed' PROVE Clean(s)'
      BY DEF Clean
    <2>1. /\ step[s] = "favorite" /\ step'[s] = "done" /\ wallpaperIDs' = wallpaperIDs
          /\ pos[s] \in Nat \ {0} /\ s \notin failed
          /\ pos[s] > Favored \/ pos[s] > Len(wallpaperIDs[s])
      BY <1>10 DEF Done, At, Goto, TypeOK
    <2>2. Through(s) = Len(Manifest) /\ Through(s)' = Len(Manifest)
      BY <2>1 DEF Through
    <2>3. /\ Len(wallpaperIDs[s]) = Len(Manifest)
          /\ \A i \in 1..Len(Manifest) : HasTitle(wallpaperIDs[s][i], Manifest[i])
          /\ \A i \in 1..(pos[s] - 1) : wallpaperIDs[s][i] \in favorites
      BY <1>c, <2>1, <2>2 DEF Clean, At
    <2>4. ASSUME NEW i \in 1..Len(Manifest), i <= Favored PROVE wallpaperIDs[s][i] \in favorites'
      <3>1. i \in 1..(pos[s] - 1)
        BY <2>1, <2>3, <2>4, ManifestFacts, SeederAssumption
      <3> QED
        BY <1>c, <2>3, <3>1
    <2> QED
      BY <1>c, <2>1, <2>2, <2>3, <2>4 DEF Clean, HasTitle, At
  <1> QED
    BY <1>1, <1>2, <1>3, <1>i, <1>4, <1>6, <1>7, <1>8, <1>9, <1>10 DEF Run

-----------------------------------------------------------------------------
(* The theorems.                                                           *)

\* The inductive invariant holds.
THEOREM Invariant == Spec => []IInv
  <1>1. Init => IInv
    BY DEF Init, IInv, SeedsServable, HasStored, StoredBefore, Clean
  <1>2. TypeOK /\ IInv /\ [Next]_vars => IInv'
    <2> SUFFICES ASSUME TypeOK, IInv, [Next]_vars PROVE IInv'
      OBVIOUS
    <2>1. ASSUME NEW s \in Seeders, Start(s) \/ Run(s) \/ Killed(s) PROVE IInv'
      BY <2>1, OthersKept, ServableStep, StoredStep, CleanStep DEF IInv
    <2>2. CASE UNCHANGED vars
      BY <2>2 DEF vars, progress, IInv, SeedsServable, Stored, HasStored, Clean, Through,
                  HasTitle, At
    <2> QED
      BY <2>1, <2>2 DEF Next
  <1> QED
    BY <1>1, <1>2, TypeCorrect, PTL DEF Spec

\* There is never a row without the objects it names (seed.go:154-185).
THEOREM AlwaysServable == Spec => []SeedsServable
  <1>1. IInv => SeedsServable
    BY DEF IInv
  <1> QED
    BY <1>1, Invariant, PTL

\* A run without error leaves nothing out (seed.go:31-70).
THEOREM CleanRunsComplete == Spec => []CleanRunCompletes
  <1>1. ASSUME IInv PROVE CleanRunCompletes
    <2> SUFFICES ASSUME NEW s \in Seeders, At(s, "done"), s \notin failed,
                        NEW i \in DOMAIN Manifest
                 PROVE \E row \in rows :
                         row.title = Manifest[i] /\ (i <= Favored => row.id \in favorites)
      BY DEF CleanRunCompletes
    <2>1. i \in 1..Len(Manifest) /\ Through(s) = Len(Manifest)
      BY ManifestFacts DEF Through, At
    <2>2. /\ HasTitle(wallpaperIDs[s][i], Manifest[i])
          /\ i <= Favored => wallpaperIDs[s][i] \in favorites
      BY <1>1, <2>1 DEF IInv, Clean, At
    <2> DEFINE row == [id |-> wallpaperIDs[s][i], title |-> Manifest[i]]
    <2>3. row \in rows /\ row.title = Manifest[i] /\ row.id = wallpaperIDs[s][i]
      BY <2>2 DEF HasTitle
    <2> QED
      BY <2>2, <2>3
  <1> QED
    BY <1>1, Invariant, PTL

-----------------------------------------------------------------------------
(* Copies.                                                                 *)

\* What a step of s does to the rows and to who makes a wallpaper: it lets no
\* one in, or lets in s where there is no row, or turns s into a row.
LEMMA MakingStep ==
  ASSUME TypeOK, NEW s \in Seeders, Start(s) \/ Run(s) \/ Killed(s)
  PROVE  \/ rows' = rows /\ \A title \in Titles : Making(title)' \subseteq Making(title)
         \/ /\ rows' = rows /\ Copies(Title(s)) = {}
            /\ \A title \in Titles : title # Title(s) => Making(title)' \subseteq Making(title)
         \/ /\ rows' \in {rows, rows \cup {[id |-> wpID[s], title |-> Title(s)]}}
            /\ s \in Making(Title(s))
            /\ \A title \in Titles : Making(title)' \subseteq Making(title) \ {s}
  <1>o. \A t \in Seeders \ {s} : step'[t] = step[t] /\ pos'[t] = pos[t]
    BY Frame
  <1>a. ASSUME step'[s] \notin VideoSteps \ {"check"}, NEW title \in Titles
        PROVE  Making(title)' \subseteq Making(title) \ {s}
    BY <1>o, <1>a DEF Making, Title
  <1>b. ASSUME step[s] \in VideoSteps \ {"check"}, pos'[s] = pos[s], NEW title \in Titles
        PROVE  Making(title)' \subseteq Making(title)
    BY <1>o, <1>b DEF Making, Title
  <1>n. ASSUME NextVideo(s) PROVE step'[s] \notin VideoSteps \ {"check"}
    BY <1>n DEF NextVideo, Goto, TypeOK, VideoSteps
  <1>1. CASE Start(s) \/ Killed(s) \/ AddFavorite(s) \/ Done(s) \/ \E e \in Accounts : FindUser(s, e) \/ InsertUser(s, e)
    <2>1. rows' = rows
      BY <1>1 DEF Start, Killed, FindUser, InsertUser, AddFavorite, Done
    <2>2. step'[s] \notin VideoSteps \ {"check"}
      BY <1>1 DEF Start, Killed, Ends, FindUser, InsertUser, AfterUser, AddFavorite, Done, Goto, At,
                  TypeOK, VideoSteps
    <2> QED
      BY <1>a, <2>1, <2>2
  <1>2. CASE Check(s)
    <2>1. rows' = rows
      BY <1>2 DEF Check
    <2>2. ASSUME NextVideo(s)
          PROVE  \A title \in Titles : Making(title)' \subseteq Making(title)
      BY <1>a, <1>n, <2>2
    <2>3. ASSUME \A row \in rows : row.title # Title(s), UNCHANGED pos
          PROVE  /\ Copies(Title(s)) = {}
                 /\ \A title \in Titles : title # Title(s) => Making(title)' \subseteq Making(title)
      BY <1>o, <2>3 DEF Copies, Making, Title
    <2>4. \/ NextVideo(s)
          \/ (\A row \in rows : row.title # Title(s)) /\ UNCHANGED pos
      BY <1>2 DEF Check, Seeded, NotSeeded
    <2> QED
      BY <2>1, <2>2, <2>3, <2>4
  <1>3. CASE \/ Prepare(s)
             \/ Put(s, "original", "put_original", "put_thumb")
             \/ Put(s, "thumb", "put_thumb", "put_preview")
             \/ Put(s, "preview", "put_preview", "insert")
    <2>1. rows' = rows
      BY <1>3 DEF Prepare, Put
    <2>2. step[s] \in VideoSteps \ {"check"}
      BY <1>3 DEF Prepare, Put, At, VideoSteps
    <2>3. NextVideo(s) \/ pos' = pos
      BY <1>3 DEF Prepare, Put, NotSeeded
    <2> QED
      BY <1>a, <1>b, <1>n, <2>1, <2>2, <2>3
  <1>4. CASE Insert(s)
    <2>1. s \in Making(Title(s))
      BY <1>4 DEF Insert, At, Making, VideoSteps
    <2>2. NextVideo(s)
      BY <1>4 DEF Insert, Seeded, NotSeeded
    <2>3. rows' \in {rows, rows \cup {[id |-> wpID[s], title |-> Title(s)]}}
      BY <1>4 DEF Insert
    <2> QED
      BY <1>a, <1>n, <2>1, <2>2, <2>3
  <1> QED
    BY <1>1, <1>2, <1>3, <1>4 DEF Run

LEMMA RoomStep ==
  ASSUME TypeOK, RoomForMaking, NEW s \in Seeders, Start(s) \/ Run(s) \/ Killed(s),
         NEW title \in Titles
  PROVE  /\ IsFiniteSet(Copies(title)')
         /\ Cardinality(Copies(title)') + Cardinality(Making(title)') <= Cardinality(Seeders)
  <1>1. /\ IsFiniteSet(Copies(title)) /\ Cardinality(Copies(title)) \in Nat
        /\ Cardinality(Copies(title)) + Cardinality(Making(title)) <= Cardinality(Seeders)
    BY FS_CardinalityType DEF RoomForMaking
  <1>2. /\ IsFiniteSet(Seeders) /\ Cardinality(Seeders) \in Nat
        /\ Making(title) \in SUBSET Seeders /\ Making(title)' \in SUBSET Seeders
    BY SeederAssumption, FS_CardinalityType DEF Making
  <1>3. /\ IsFiniteSet(Making(title)) /\ Cardinality(Making(title)) \in Nat
        /\ IsFiniteSet(Making(title)') /\ Cardinality(Making(title)') \in Nat
        /\ Cardinality(Making(title)') <= Cardinality(Seeders)
    BY <1>2, FS_Subset, FS_CardinalityType
  <1>a. ASSUME rows' = rows, Making(title)' \subseteq Making(title)
        PROVE  /\ IsFiniteSet(Copies(title)')
               /\ Cardinality(Copies(title)') + Cardinality(Making(title)') <= Cardinality(Seeders)
    <2>1. Cardinality(Making(title)') <= Cardinality(Making(title))
      BY <1>3, <1>a, FS_Subset
    <2>2. Copies(title)' = Copies(title)
      BY <1>a DEF Copies
    <2> QED
      BY <1>1, <1>2, <1>3, <2>1, <2>2
  <1>b. ASSUME rows' = rows, Copies(Title(s)) = {}, title = Title(s)
        PROVE  /\ IsFiniteSet(Copies(title)')
               /\ Cardinality(Copies(title)') + Cardinality(Making(title)') <= Cardinality(Seeders)
    <2>1. Copies(title)' = {}
      BY <1>b DEF Copies
    <2>2. IsFiniteSet({}) /\ Cardinality({}) = 0
      BY FS_EmptySet
    <2> QED
      BY <1>2, <1>3, <2>1, <2>2
  <1>c. ASSUME rows' \in {rows, rows \cup {[id |-> wpID[s], title |-> Title(s)]}},
               s \in Making(Title(s)), Making(title)' \subseteq Making(title) \ {s}
        PROVE  /\ IsFiniteSet(Copies(title)')
               /\ Cardinality(Copies(title)') + Cardinality(Making(title)') <= Cardinality(Seeders)
    <2>1. CASE rows' = rows \/ title # Title(s)
      <3>1. Copies(title)' = Copies(title)
        BY <1>c, <2>1 DEF Copies
      <3>2. Cardinality(Making(title)') <= Cardinality(Making(title))
        BY <1>3, <1>c, FS_Subset
      <3> QED
        BY <1>1, <1>2, <1>3, <3>1, <3>2
    <2>2. CASE rows' # rows /\ title = Title(s)
      <3> DEFINE row == [id |-> wpID[s], title |-> Title(s)]
      <3>1. Copies(title)' = Copies(title) \cup {row}
        BY <1>c, <2>2 DEF Copies
      <3> HIDE DEF row
      <3>2. /\ IsFiniteSet(Copies(title) \cup {row})
            /\ \/ Cardinality(Copies(title) \cup {row}) = Cardinality(Copies(title))
               \/ Cardinality(Copies(title) \cup {row}) = Cardinality(Copies(title)) + 1
        BY <1>1, FS_AddElement
      <3>3. /\ IsFiniteSet(Making(title) \ {s})
            /\ Cardinality(Making(title) \ {s}) = Cardinality(Making(title)) - 1
        BY <1>3, <1>c, <2>2, FS_RemoveElement
      <3>4. Cardinality(Making(title)') <= Cardinality(Making(title) \ {s})
        BY <1>c, <3>3, FS_Subset
      <3> QED
        BY <1>1, <1>2, <1>3, <3>1, <3>2, <3>3, <3>4
    <2> QED
      BY <1>c, <2>1, <2>2
  <1> QED
    BY <1>a, <1>b, <1>c, MakingStep

\* Whoever makes a wallpaper has room for its row.
THEOREM RoomAlways == Spec => []RoomForMaking
  <1>1. Init => RoomForMaking
    <2> SUFFICES ASSUME Init, NEW title \in Titles
                 PROVE  /\ IsFiniteSet(Copies(title))
                        /\ Cardinality(Copies(title)) + Cardinality(Making(title)) <= Cardinality(Seeders)
      BY DEF RoomForMaking
    <2>1. Copies(title) = {} /\ Making(title) = {}
      BY DEF Init, Copies, Making, VideoSteps
    <2>2. IsFiniteSet({}) /\ Cardinality({}) = 0
      BY FS_EmptySet
    <2>3. Cardinality(Seeders) \in Nat
      BY SeederAssumption, FS_CardinalityType
    <2> QED
      BY <2>1, <2>2, <2>3
  <1>2. TypeOK /\ RoomForMaking /\ [Next]_vars => RoomForMaking'
    <2> SUFFICES ASSUME TypeOK, RoomForMaking, [Next]_vars PROVE RoomForMaking'
      OBVIOUS
    <2>1. ASSUME NEW s \in Seeders, Start(s) \/ Run(s) \/ Killed(s) PROVE RoomForMaking'
      BY <2>1, RoomStep DEF RoomForMaking
    <2>2. CASE UNCHANGED vars
      BY <2>2 DEF vars, progress, RoomForMaking, Copies, Making, Title
    <2> QED
      BY <2>1, <2>2 DEF Next
  <1> QED
    BY <1>1, <1>2, TypeCorrect, PTL DEF Spec

\* However often the command is repeated, there are at most as many wallpapers
\* of a title as seeders at work (seed.go:99-111).
THEOREM CopiesBounded == Spec => []NoMoreCopiesThanSeeders
  <1>1. ASSUME RoomForMaking, NEW title \in Titles
        PROVE  Cardinality(Copies(title)) <= Cardinality(Seeders)
    <2>1. Making(title) \in SUBSET Seeders
      BY DEF Making
    <2>2. /\ IsFiniteSet(Making(title)) /\ Cardinality(Making(title)) \in Nat
          /\ Cardinality(Copies(title)) \in Nat /\ Cardinality(Seeders) \in Nat
      BY <1>1, <2>1, SeederAssumption, FS_Subset, FS_CardinalityType DEF RoomForMaking
    <2> QED
      BY <1>1, <2>2 DEF RoomForMaking
  <1>2. RoomForMaking => NoMoreCopiesThanSeeders
    BY <1>1 DEF NoMoreCopiesThanSeeders
  <1> QED
    BY <1>2, RoomAlways, PTL

=============================================================================
