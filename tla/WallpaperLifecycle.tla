------------------------- MODULE WallpaperLifecycle -------------------------
(***************************************************************************)
(* The life of a wallpaper as its status column tells it.                  *)
(*                                                                         *)
(* Each service method of src/server/internal/service/wallpaper.go checks  *)
(* the status it starts from and writes the status it ends in.  Taken one  *)
(* at a time they draw this diagram, and nothing else:                     *)
(*                                                                         *)
(*   absent -> pending -> pending_review -> approved | rejected            *)
(*                                                                         *)
(* Moderation.tla says how far the server, with its requests overlapping,  *)
(* keeps to it.                                                            *)
(***************************************************************************)

CONSTANT Wallpapers      \* the ids the database can hand out

VARIABLE status          \* Wallpapers -> Statuses

Statuses == {"absent", "pending", "pending_review", "approved", "rejected"}

-----------------------------------------------------------------------------

Move(w, from, to) ==
  /\ status[w] = from
  /\ status' = [status EXCEPT ![w] = to]

Create(w)   == Move(w, "absent", "pending")
Finalize(w) == Move(w, "pending", "pending_review")
Approve(w)  == Move(w, "pending_review", "approved")
Reject(w)   == Move(w, "pending_review", "rejected")

Init == status = [w \in Wallpapers |-> "absent"]

Next == \E w \in Wallpapers : Create(w) \/ Finalize(w) \/ Approve(w) \/ Reject(w)

Spec == Init /\ [][Next]_status

=============================================================================
