-------------------------- MODULE Moderation_proofs --------------------------
(***************************************************************************)
(* Proofs about Moderation, for any number of wallpapers, requests, files, *)
(* downloads and crashes.                                                  *)
(***************************************************************************)
EXTENDS Moderation, TLAPS

-----------------------------------------------------------------------------
(* Records: what writing a field keeps.  The proofs below use these and    *)
(* never open Row, Objects or Request again.                               *)

LEMMA NoValues == NoVideo \notin Videos /\ NoWallpaper \notin Wallpapers
BY ModerationAssumption

LEMMA Bounds == MaxDownloads \in Nat /\ MaxCrashes \in Nat
BY ModerationAssumption

LEMMA RowFields ==
  ASSUME NEW x \in Row
  PROVE  /\ \A s \in Statuses : [x EXCEPT !.status = s] \in Row
         /\ [x EXCEPT !.storageKey = "byId"] \in Row
         /\ [x EXCEPT !.status = "rejected", !.reason = "given"] \in Row
         /\ \A v \in MaybeVideo : [x EXCEPT !.status = "pending_review",
                                           !.probed = v, !.keys = "byId"] \in Row
         /\ x.downloads < MaxDownloads => [x EXCEPT !.downloads = @ + 1] \in Row
<1>1. x.downloads < MaxDownloads => x.downloads + 1 \in 0..MaxDownloads
  <2>1. x.downloads \in 0..MaxDownloads
    BY DEF Row
  <2> QED BY <2>1, Bounds
<1>2. x.downloads < MaxDownloads => [x EXCEPT !.downloads = @ + 1] \in Row
  BY <1>1 DEF Row
<1> QED BY <1>2 DEF Row, Statuses

LEMMA NewRowType == NoRow \in Row /\ NewRow \in Row
<1>1. 0 \in 0..MaxDownloads
  BY Bounds
<1> QED BY <1>1 DEF Row, NewRow, NoRow, Statuses, MaybeVideo

LEMMA ObjectsFields ==
  ASSUME NEW x \in Objects, NEW v \in MaybeVideo
  PROVE  /\ [x EXCEPT !.original = v] \in Objects
         /\ [x EXCEPT !.thumbnail = v] \in Objects
         /\ [x EXCEPT !.preview = v] \in Objects
         /\ x.original \in MaybeVideo
BY DEF Objects

LEMMA RequestFields ==
  ASSUME NEW x \in Request, NEW s \in Steps
  PROVE  /\ [x EXCEPT !.step = s] \in Request
         /\ \A w \in Wallpapers : [NoRequest EXCEPT !.step = s, !.wp = w] \in Request
         /\ \A v \in MaybeVideo :
              [x EXCEPT !.step = s, !.video = v, !.files = {"video"}] \in Request
         /\ [x EXCEPT !.step = s, !.files = TempFiles] \in Request
         /\ NoRequest \in Request
         /\ x.files \in SUBSET TempFiles
         /\ x.video \in MaybeVideo
         /\ x.wp # NoWallpaper => x.wp \in Wallpapers
BY DEF Request, NoRequest, Steps, TempFiles, MaybeVideo

\* The request after its download.
LEMMA DownloadedFields ==
  ASSUME NEW x \in Request, NEW v \in MaybeVideo
  PROVE  LET y == [x EXCEPT !.step = "finalize_probe", !.video = v, !.files = {"video"}]
         IN  y \in Request /\ y.wp = x.wp
BY DEF Request, Steps, FinalizeSteps, TempFiles, MaybeVideo

LEMMA StepNames ==
  /\ FinalizeSteps \subseteq Steps
  /\ {"idle", "create_key", "create_url", "approve_update", "reject_update",
      "download_count"} \subseteq Steps
BY DEF Steps, FinalizeSteps

-----------------------------------------------------------------------------
(* Type correctness.                                                       *)

LEMMA InitType == Init => TypeOK
<1>1. NoObjects \in Objects /\ NoRequest \in Request
  BY DEF NoObjects, Objects, NoRequest, Request, Steps, MaybeVideo, TempFiles
<1>2. 0 \in 0..MaxCrashes
  BY Bounds
<1> QED BY <1>1, <1>2, NewRowType DEF Init, TypeOK, NoRequest

LEMMA ClientType ==
  ASSUME TypeOK, NEW w \in Wallpapers, ClientStep(w)
  PROVE  TypeOK'
<1>1. CASE UploadUrlExpires(w)
  BY <1>1 DEF TypeOK, UploadUrlExpires
<1>2. ASSUME NEW v \in Videos, Upload(w, v)
      PROVE  TypeOK'
  <2>1. v \in MaybeVideo
    BY DEF MaybeVideo
  <2>2. [store[w] EXCEPT !.original = v] \in Objects
    BY <2>1, ObjectsFields DEF TypeOK
  <2> QED BY <1>2, <2>2 DEF TypeOK, Upload
<1> QED BY <1>1, <1>2 DEF ClientStep

\* A request that moves to another step.
LEMMA BeginType ==
  ASSUME TypeOK, NEW r \in Requests, NEW w \in Wallpapers, NEW s \in Steps,
         Begin(r, w, s)
  PROVE  /\ request' \in [Requests -> Request]
         /\ litter' \in SUBSET TempFiles
         /\ \A q \in Requests : request'[q].step # "idle" => request'[q].wp # NoWallpaper
BY ModerationAssumption, RequestFields DEF TypeOK, Begin, NoRequest

LEMMA GotoType ==
  ASSUME TypeOK, NEW r \in Requests, ~At(r, "idle"), NEW s \in Steps, Goto(r, s)
  PROVE  /\ request' \in [Requests -> Request]
         /\ litter' \in SUBSET TempFiles
         /\ \A q \in Requests : request'[q].step # "idle" => request'[q].wp # NoWallpaper
<1>1. /\ request[r] \in Request
      /\ request[r].wp # NoWallpaper
  BY DEF TypeOK, At
<1>2. [request[r] EXCEPT !.step = s] \in Request
  BY <1>1, RequestFields
<1>3. [request[r] EXCEPT !.step = s].wp = request[r].wp
  BY <1>1 DEF Request
<1> QED BY <1>1, <1>2, <1>3 DEF TypeOK, Goto

LEMMA EndType ==
  ASSUME TypeOK, NEW r \in Requests, NEW left \in SUBSET TempFiles, End(r, left)
  PROVE  /\ request' \in [Requests -> Request]
         /\ litter' \in SUBSET TempFiles
         /\ \A q \in Requests : request'[q].step # "idle" => request'[q].wp # NoWallpaper
<1>1. NoRequest \in Request
  BY RequestFields, StepNames DEF TypeOK, Request
<1> QED BY <1>1 DEF TypeOK, End, NoRequest

LEMMA ArriveType ==
  ASSUME TypeOK, NEW r \in Requests, NEW w \in Wallpapers, Arrive(r, w)
  PROVE  TypeOK'
<1> USE BeginType, StepNames DEF TypeOK
<1>1. CASE CreateInsert(r, w)
  BY <1>1, NewRowType DEF CreateInsert
<1>2. ASSUME NEW user \in Users, FinalizeRead(r, w, user)
      PROVE  TypeOK'
  <2>1. "finalize_download" \in Steps
    BY DEF Steps, FinalizeSteps
  <2> QED BY <1>2, <2>1 DEF FinalizeRead
<1>3. CASE ApproveRead(r, w)
  BY <1>3 DEF ApproveRead
<1>4. CASE RejectRead(r, w)
  BY <1>4 DEF RejectRead
<1>5. CASE DownloadRead(r, w)
  BY <1>5 DEF DownloadRead
<1> QED BY <1>1, <1>2, <1>3, <1>4, <1>5 DEF Arrive

LEMMA ProceedType ==
  ASSUME TypeOK, NEW r \in Requests, Proceed(r)
  PROVE  TypeOK'
<1>1. /\ request[r] \in Request
      /\ ~At(r, "idle") => request[r].wp \in Wallpapers
  BY RequestFields, StepNames DEF TypeOK, At
<1>2. /\ request[r].video \in MaybeVideo
      /\ ~At(r, "idle") => /\ row[request[r].wp] \in Row
                           /\ store[request[r].wp] \in Objects
  BY <1>1, RequestFields, StepNames DEF TypeOK
<1>3. /\ FinalizeSteps = {"finalize_download", "finalize_probe",
                          "finalize_generate", "finalize_thumbnail",
                          "finalize_preview", "finalize_update"}
      /\ {} \in SUBSET TempFiles
      /\ {"thumbnail"} \in SUBSET TempFiles
      /\ {"preview"} \in SUBSET TempFiles
  BY DEF FinalizeSteps, TempFiles
<1> USE <1>1, <1>2, <1>3, StepNames
<1>4. CASE CreateSetKey(r)
  BY <1>4, RowFields, GotoType, EndType DEF CreateSetKey, TypeOK, At
<1>5. CASE CreatePresign(r)
  BY <1>5, EndType DEF CreatePresign, TypeOK, At
<1>6. CASE FinalizeDownload(r)
  <2> DEFINE v == store[request[r].wp].original
             x == [request[r] EXCEPT !.step = "finalize_probe", !.video = v,
                                     !.files = {"video"}]
  <2>1. v \in MaybeVideo
    BY <1>6, ObjectsFields DEF FinalizeDownload, At
  <2>2. x \in Request /\ x.wp = request[r].wp
    BY Zenon, <2>1, DownloadedFields DEF TypeOK
  <2>3. request' = [request EXCEPT ![r] = x]
    BY <1>6 DEF FinalizeDownload, TypeOK
  <2>4. request' \in [Requests -> Request]
        /\ \A q \in Requests : request'[q].step # "idle" => request'[q].wp # NoWallpaper
    <3> HIDE DEF x
    <3>1. request[r].wp # NoWallpaper
      BY <1>6 DEF FinalizeDownload, TypeOK, At
    <3> QED
      BY <2>2, <2>3, <3>1 DEF TypeOK
  <2> QED BY <1>6, <2>4 DEF FinalizeDownload, TypeOK
<1>7. CASE FinalizeProbe(r)
  BY <1>7, GotoType, EndType DEF FinalizeProbe, TypeOK, At
<1>8. CASE FinalizeGenerate(r)
  <2>1. CASE \E left \in SUBSET TempFiles : End(r, left)
    BY <1>8, <2>1, EndType DEF FinalizeGenerate, TypeOK
  <2>2. CASE ~\E left \in SUBSET TempFiles : End(r, left)
    <3> DEFINE x == [request[r] EXCEPT !.step = "finalize_thumbnail",
                                       !.files = TempFiles]
    <3>1. x \in Request /\ x.wp = request[r].wp
      BY RequestFields DEF Request
    <3>2. request' = [request EXCEPT ![r] = x] /\ UNCHANGED litter
      BY <1>8, <2>2 DEF FinalizeGenerate, TypeOK
    <3> QED BY <1>8, <3>1, <3>2, ModerationAssumption DEF FinalizeGenerate, TypeOK, At
  <2> QED BY <2>1, <2>2
<1>9. CASE FinalizePutThumbnail(r)
  BY <1>9, ObjectsFields, GotoType, EndType DEF FinalizePutThumbnail, TypeOK, At
<1>10. CASE FinalizePutPreview(r)
  BY <1>10, ObjectsFields, GotoType, EndType DEF FinalizePutPreview, TypeOK, At
<1>11. CASE FinalizeUpdate(r)
  BY <1>11, RowFields, EndType DEF FinalizeUpdate, TypeOK, At
<1>12. CASE ApproveUpdate(r)
  BY <1>12, RowFields, EndType DEF ApproveUpdate, TypeOK, At, Statuses
<1>13. CASE RejectUpdate(r)
  BY <1>13, RowFields, EndType DEF RejectUpdate, TypeOK, At
<1>14. CASE DownloadCount(r)
  BY <1>14, RowFields, EndType DEF DownloadCount, TypeOK, At
<1>15. CASE RequestFails(r)
  BY <1>15, EndType DEF RequestFails, TypeOK
<1> QED BY <1>4, <1>5, <1>6, <1>7, <1>8, <1>9, <1>10, <1>11, <1>12, <1>13,
           <1>14, <1>15 DEF Proceed

LEMMA CrashType ==
  ASSUME TypeOK, Crash
  PROVE  TypeOK'
<1>1. crashes' \in 0..MaxCrashes
  BY Bounds DEF TypeOK, Crash
<1>2. NoRequest \in Request
  BY DEF NoRequest, Request, Steps, MaybeVideo, TempFiles
<1>3. \A r \in Requests : request[r].files \in SUBSET TempFiles
  BY RequestFields, StepNames DEF TypeOK
<1> QED BY <1>1, <1>2, <1>3 DEF TypeOK, Crash, NoRequest

LEMMA NextType == TypeOK /\ [Next]_vars => TypeOK'
<1>1. CASE UNCHANGED vars
  BY <1>1 DEF vars, TypeOK
<1> QED BY <1>1, ClientType, ArriveType, ProceedType, CrashType DEF Next

\* Rows, objects, requests and temp files keep their shape, and a request in
\* flight always has a wallpaper it is about.
THEOREM TypeCorrect == Spec => []TypeOK
<1> QED BY InitType, NextType, PTL DEF Spec

-----------------------------------------------------------------------------
(* What no step of anybody undoes.  A request relies on these between its  *)
(* calls, and they are all it can rely on.                                 *)

Kept ==
  \A w \in Wallpapers :
    /\ row[w].status # "absent" => row'[w].status # "absent"
    /\ row[w].status \in Reviewed => row'[w].status \in Reviewed
    /\ row[w].storageKey = "byId" /\ row[w].status # "absent"
         => row'[w].storageKey = "byId"
    /\ uploadUrl[w] # "none" => uploadUrl'[w] # "none"
    /\ \A object \in {"original", "thumbnail", "preview"} :
         store[w][object] # NoVideo => store'[w][object] # NoVideo

LEMMA KeptNext ==
  ASSUME TypeOK, IInv, [Next]_vars
  PROVE  Kept
<1> USE DEF TypeOK, Kept, Row, Objects, Reviewed
<1>1. ASSUME NEW w \in Wallpapers, ClientStep(w)
      PROVE  Kept
  <2>1. CASE UploadUrlExpires(w)
    BY <2>1 DEF UploadUrlExpires
  <2>2. ASSUME NEW v \in Videos, Upload(w, v)
        PROVE  Kept
    BY <2>2, NoValues DEF Upload
  <2> QED BY <1>1, <2>1, <2>2 DEF ClientStep
<1>2. ASSUME NEW r \in Requests, NEW w \in Wallpapers, Arrive(r, w)
      PROVE  Kept
  <2>1. CASE CreateInsert(r, w)
    BY <2>1 DEF CreateInsert, NewRow, NoRow
  <2>2. CASE UNCHANGED <<row, store, uploadUrl>>
    BY <2>2
  <2> QED BY <1>2, <2>1, <2>2 DEF Arrive, FinalizeRead, ApproveRead, RejectRead, DownloadRead
<1>3. ASSUME NEW r \in Requests, Proceed(r)
      PROVE  Kept
  <2> DEFINE w == request[r].wp
  <2>1. /\ ~At(r, "idle") => w \in Wallpapers
        /\ request[r].video \in MaybeVideo
    BY RequestFields, StepNames DEF At
  <2>2. At(r, "finalize_thumbnail") \/ At(r, "finalize_preview") =>
          request[r].video # NoVideo
    BY DEF IInv, RequestInv, At, FinalizeSteps
  <2>3. At(r, "approve_update") \/ At(r, "reject_update") =>
          row[w].status # "absent"
    BY DEF IInv, RequestInv, At
  <2>4. CASE CreateSetKey(r)
    BY <2>4, <2>1, <2>2, <2>3 DEF CreateSetKey, At
  <2>5. CASE CreatePresign(r)
    BY <2>5, <2>1, <2>2, <2>3 DEF CreatePresign, At
  <2>6. CASE FinalizeDownload(r)
    BY <2>6, <2>1, <2>2, <2>3 DEF FinalizeDownload, At
  <2>7. CASE FinalizeProbe(r)
    BY <2>7, <2>1, <2>2, <2>3 DEF FinalizeProbe, At
  <2>8. CASE FinalizeGenerate(r)
    BY <2>8, <2>1, <2>2, <2>3 DEF FinalizeGenerate, At
  <2>9. CASE FinalizePutThumbnail(r)
    BY <2>9, <2>1, <2>2, <2>3 DEF FinalizePutThumbnail, At
  <2>10. CASE FinalizePutPreview(r)
    BY <2>10, <2>1, <2>2, <2>3 DEF FinalizePutPreview, At
  <2>11. CASE FinalizeUpdate(r)
    BY <2>11, <2>1, <2>2, <2>3 DEF FinalizeUpdate, At
  <2>12. CASE ApproveUpdate(r)
    BY <2>12, <2>1, <2>2, <2>3 DEF ApproveUpdate, At
  <2>13. CASE RejectUpdate(r)
    BY <2>13, <2>1, <2>2, <2>3 DEF RejectUpdate, At
  <2>14. CASE DownloadCount(r)
    BY <2>14, <2>1, <2>2, <2>3 DEF DownloadCount, At
  <2>15. CASE RequestFails(r)
    BY <2>15, <2>1, <2>2, <2>3 DEF RequestFails, At
  <2> QED BY <1>3, <2>4, <2>5, <2>6, <2>7, <2>8, <2>9, <2>10, <2>11, <2>12, <2>13, <2>14, <2>15 DEF Proceed
<1>4. CASE Crash
  BY <1>4 DEF Crash
<1>5. CASE UNCHANGED vars
  BY <1>5 DEF vars
<1> QED BY <1>1, <1>2, <1>3, <1>4, <1>5 DEF Next

\* The invariant of a request that is not the one that moves.
LEMMA RequestStays ==
  ASSUME TypeOK, IInv, Kept, NEW q \in Requests,
         request'[q] = request[q] \/ request'[q] = NoRequest
  PROVE  RequestInv(q)'
<1>1. CASE request'[q] = NoRequest
  BY <1>1 DEF RequestInv, NoRequest, FinalizeSteps
<1>2. CASE request'[q] = request[q]
  <2>1. request[q].step # "idle" => request[q].wp \in Wallpapers
    BY RequestFields, StepNames DEF TypeOK
  <2>2. RequestInv(q)
    BY DEF IInv
  <2> QED BY <1>2, <2>1, <2>2 DEF RequestInv, Kept, FinalizeSteps
<1> QED BY <1>1, <1>2

LEMMA RowInvNext ==
  ASSUME TypeOK, IInv, [Next]_vars
  PROVE  \A w \in Wallpapers : RowInv(w)'
<1> USE DEF TypeOK, IInv, RowInv, Row, Objects, Reviewed
<1>1. ASSUME NEW w \in Wallpapers, ClientStep(w)
      PROVE  \A x \in Wallpapers : RowInv(x)'
  <2>1. CASE UploadUrlExpires(w)
    BY <2>1 DEF UploadUrlExpires
  <2>2. ASSUME NEW v \in Videos, Upload(w, v)
        PROVE  \A x \in Wallpapers : RowInv(x)'
    BY <2>2, NoValues DEF Upload
  <2> QED BY <1>1, <2>1, <2>2 DEF ClientStep
<1>2. ASSUME NEW r \in Requests, NEW w \in Wallpapers, Arrive(r, w)
      PROVE  \A x \in Wallpapers : RowInv(x)'
  <2>1. CASE CreateInsert(r, w)
    BY <2>1 DEF CreateInsert, NewRow, NoRow
  <2>2. CASE UNCHANGED <<row, store, uploadUrl>>
    BY <2>2
  <2> QED BY <1>2, <2>1, <2>2 DEF Arrive, FinalizeRead, ApproveRead, RejectRead, DownloadRead
<1>3. ASSUME NEW r \in Requests, Proceed(r)
      PROVE  \A x \in Wallpapers : RowInv(x)'
  <2> DEFINE w == request[r].wp
  <2>1. /\ ~At(r, "idle") => w \in Wallpapers
        /\ request[r].video \in MaybeVideo
    BY RequestFields, StepNames DEF At
  <2>2. RequestInv(r)
    OBVIOUS
  <2>3. CASE CreateSetKey(r)
    BY <2>3, <2>1, <2>2 DEF CreateSetKey, At, RequestInv, FinalizeSteps
  <2>4. CASE CreatePresign(r)
    BY <2>4, <2>1, <2>2 DEF CreatePresign, At, RequestInv, FinalizeSteps
  <2>5. CASE FinalizeDownload(r)
    BY <2>5, <2>1, <2>2 DEF FinalizeDownload, At
  <2>6. CASE FinalizeProbe(r)
    BY <2>6, <2>1, <2>2 DEF FinalizeProbe, At
  <2>7. CASE FinalizeGenerate(r)
    BY <2>7, <2>1, <2>2 DEF FinalizeGenerate, At
  <2>8. CASE FinalizePutThumbnail(r)
    BY <2>8, <2>1, <2>2 DEF FinalizePutThumbnail, At, RequestInv, FinalizeSteps
  <2>9. CASE FinalizePutPreview(r)
    BY <2>9, <2>1, <2>2 DEF FinalizePutPreview, At, RequestInv, FinalizeSteps
  <2>10. CASE FinalizeUpdate(r)
    <3> SUFFICES ASSUME NEW x \in Wallpapers
                 PROVE  RowInv(x)'
      OBVIOUS
    <3>1. UNCHANGED store /\ UNCHANGED uploadUrl
      BY <2>10 DEF FinalizeUpdate
    <3>2. CASE x # w
      <4>1. row'[x] = row[x]
        BY <2>10, <3>2 DEF FinalizeUpdate
      <4> QED
        BY <3>1, <4>1 DEF RowInv
    <3>3. CASE x = w
      <4>1. row'[x] = [row[x] EXCEPT !.status = "pending_review",
                                     !.probed = request[r].video, !.keys = "byId"]
        BY <2>10, <3>3 DEF FinalizeUpdate, At
      <4>2. /\ row'[x].status = "pending_review" /\ row'[x].keys = "byId"
            /\ row'[x].probed = request[r].video
            /\ row'[x].storageKey = row[x].storageKey
        BY <4>1
      <4>3. /\ store[x].original # NoVideo /\ store[x].thumbnail # NoVideo
            /\ store[x].preview # NoVideo
            /\ request[r].video # NoVideo /\ Accepted(request[r].video)
        BY <2>10, <2>2, <3>3 DEF FinalizeUpdate, At, RequestInv, FinalizeSteps
      <4>4. /\ uploadUrl[x] # "none" /\ row[x].storageKey = "byId"
        BY <4>3 DEF RowInv
      <4> QED
        BY <3>1, <4>2, <4>3, <4>4 DEF RowInv
    <3> QED
      BY <3>2, <3>3
  <2>11. CASE ApproveUpdate(r)
    BY <2>11, <2>1, <2>2 DEF ApproveUpdate, At, RequestInv, FinalizeSteps
  <2>12. CASE RejectUpdate(r)
    BY <2>12, <2>1, <2>2 DEF RejectUpdate, At, RequestInv, FinalizeSteps
  <2>13. CASE DownloadCount(r)
    BY <2>13, <2>1, <2>2 DEF DownloadCount, At, RequestInv, FinalizeSteps
  <2>14. CASE RequestFails(r)
    BY <2>14, <2>1, <2>2 DEF RequestFails, At
  <2> QED BY <1>3, <2>3, <2>4, <2>5, <2>6, <2>7, <2>8, <2>9, <2>10, <2>11, <2>12, <2>13, <2>14 DEF Proceed
<1>4. CASE Crash
  BY <1>4 DEF Crash
<1>5. CASE UNCHANGED vars
  BY <1>5 DEF vars
<1> QED BY <1>1, <1>2, <1>3, <1>4, <1>5 DEF Next

LEMMA RequestInvNext ==
  ASSUME TypeOK, IInv, [Next]_vars
  PROVE  \A q \in Requests : RequestInv(q)'
<1>1. Kept
  BY KeptNext
<1>2. \A q \in Requests :
        request'[q] = request[q] \/ request'[q] = NoRequest => RequestInv(q)'
  BY <1>1, RequestStays
<1>3. ASSUME NEW w \in Wallpapers, ClientStep(w)
      PROVE  \A q \in Requests : RequestInv(q)'
  BY <1>2, <1>3 DEF ClientStep, Upload, UploadUrlExpires
<1>4. ASSUME NEW r \in Requests, NEW w \in Wallpapers, Arrive(r, w)
      PROVE  \A q \in Requests : RequestInv(q)'
  <2>1. \A q \in Requests \ {r} : request'[q] = request[q]
    BY <1>4 DEF Arrive, CreateInsert, FinalizeRead, ApproveRead, RejectRead,
                DownloadRead, Begin, TypeOK
  <2> SUFFICES RequestInv(r)'
    BY <1>2, <2>1
  <2>2. ASSUME NEW s \in Steps, Begin(r, w, s), row'[w].status # "absent",
               s \in {"approve_update", "reject_update", "download_count"}
                 => row'[w].status \in Reviewed,
               s \in {"create_key", "finalize_download", "approve_update",
                      "reject_update", "download_count"}
        PROVE  RequestInv(r)'
    <3>1. request'[r].step = s /\ request'[r].wp = w
      BY <2>2 DEF Begin, NoRequest, TypeOK
    <3> QED BY <2>2, <3>1 DEF RequestInv, FinalizeSteps
  <2> USE StepNames
  <2>3. CASE CreateInsert(r, w)
    BY <2>2, <2>3 DEF CreateInsert, NewRow, NoRow, TypeOK
  <2>4. ASSUME NEW user \in Users, FinalizeRead(r, w, user)
        PROVE  RequestInv(r)'
    BY <2>2, <2>4 DEF FinalizeRead, FinalizeSteps
  <2>5. CASE ApproveRead(r, w)
    BY <2>2, <2>5 DEF ApproveRead, Reviewed
  <2>6. CASE RejectRead(r, w)
    BY <2>2, <2>6 DEF RejectRead, Reviewed
  <2>7. CASE DownloadRead(r, w)
    BY <2>2, <2>7 DEF DownloadRead, GetApproved, Reviewed
  <2> QED BY <1>4, <2>3, <2>4, <2>5, <2>6, <2>7 DEF Arrive
<1>5. ASSUME NEW r \in Requests, Proceed(r)
      PROVE  \A q \in Requests : RequestInv(q)'
  <2> DEFINE w == request[r].wp
  <2>1. \A q \in Requests \ {r} : request'[q] = request[q]
    BY <1>5 DEF Proceed, CreateSetKey, CreatePresign, FinalizeDownload,
         FinalizeProbe, FinalizeGenerate, FinalizePutThumbnail, FinalizePutPreview,
         FinalizeUpdate, ApproveUpdate, RejectUpdate, DownloadCount, RequestFails,
         Goto, End, TypeOK
  <2> SUFFICES RequestInv(r)'
    BY <1>2, <2>1
  <2>2. ASSUME NEW left, End(r, left)
        PROVE  RequestInv(r)'
    BY <1>2, <2>2 DEF End, TypeOK
  <2>3. ASSUME NEW s \in Steps, Goto(r, s)
        PROVE  /\ request'[r].step = s
               /\ request'[r].wp = w
               /\ request'[r].video = request[r].video
    BY <2>3 DEF Goto, TypeOK, Request
  <2>4. /\ ~At(r, "idle") => w \in Wallpapers /\ row[w].status # "absent"
        /\ RequestInv(r)
    BY RequestFields, StepNames DEF TypeOK, IInv, RequestInv, At
  <2>5. CASE CreateSetKey(r)
    <3>1. CASE Goto(r, "create_url")
      <4>1. row'[w].storageKey = "byId" /\ row'[w].status # "absent"
        BY <2>4, <2>5 DEF CreateSetKey, At, TypeOK, Row
      <4> QED BY <2>3, <3>1, <4>1, StepNames DEF RequestInv, FinalizeSteps
    <3> QED BY <2>2, <2>5, <3>1 DEF CreateSetKey
  <2>6. CASE CreatePresign(r)
    BY <2>2, <2>6 DEF CreatePresign
  <2>7. CASE FinalizeDownload(r)
    <3>1. /\ request'[r].step = "finalize_probe"
          /\ request'[r].wp = w
          /\ request'[r].video = store[w].original
      BY <2>7 DEF FinalizeDownload, TypeOK, Request
    <3> QED BY <2>4, <2>7, <3>1 DEF FinalizeDownload, At, RequestInv, FinalizeSteps
  <2>8. CASE FinalizeProbe(r)
    <3>1. CASE Goto(r, "finalize_generate") /\ Accepted(request[r].video)
      <4>1. "finalize_generate" \in Steps
        BY DEF Steps, FinalizeSteps
      <4> QED BY <2>3, <2>4, <2>8, <3>1, <4>1
               DEF FinalizeProbe, At, RequestInv, FinalizeSteps, Accepted, ProbedSize
    <3> QED BY <2>2, <2>8, <3>1 DEF FinalizeProbe
  <2>9. CASE FinalizeGenerate(r)
    <3>1. CASE request' = [request EXCEPT ![r].step = "finalize_thumbnail",
                                          ![r].files = TempFiles]
      <4>1. /\ request'[r].step = "finalize_thumbnail"
            /\ request'[r].wp = w
            /\ request'[r].video = request[r].video
        BY <3>1 DEF TypeOK, Request
      <4> QED BY <2>4, <2>9, <4>1
               DEF FinalizeGenerate, At, RequestInv, FinalizeSteps, Accepted, ProbedSize
    <3> QED BY <2>2, <2>9, <3>1 DEF FinalizeGenerate
  <2>10. CASE FinalizePutThumbnail(r)
    <3>1. CASE Goto(r, "finalize_preview")
      <4>1. "finalize_preview" \in Steps
        BY DEF Steps, FinalizeSteps
      <4>2. /\ store'[w].thumbnail = request[r].video
            /\ store'[w].original = store[w].original
        BY <2>4, <2>10 DEF FinalizePutThumbnail, At, TypeOK, Objects
      <4> QED BY <2>3, <2>4, <2>10, <3>1, <4>1, <4>2
               DEF FinalizePutThumbnail, At, RequestInv, FinalizeSteps, Accepted, ProbedSize
    <3> QED BY <2>2, <2>10, <3>1 DEF FinalizePutThumbnail
  <2>11. CASE FinalizePutPreview(r)
    <3>1. CASE Goto(r, "finalize_update")
      <4>1. "finalize_update" \in Steps
        BY DEF Steps, FinalizeSteps
      <4>2. /\ store'[w].preview = request[r].video
            /\ store'[w].original = store[w].original
            /\ store'[w].thumbnail = store[w].thumbnail
        BY <2>4, <2>11 DEF FinalizePutPreview, At, TypeOK, Objects
      <4> QED BY <2>3, <2>4, <2>11, <3>1, <4>1, <4>2
               DEF FinalizePutPreview, At, RequestInv, FinalizeSteps, Accepted, ProbedSize
    <3> QED BY <2>2, <2>11, <3>1 DEF FinalizePutPreview
  <2>12. CASE \E left : End(r, left)
    BY <2>2, <2>12
  <2> QED
    BY <1>5, <2>5, <2>6, <2>7, <2>8, <2>9, <2>10, <2>11, <2>12
       DEF Proceed, FinalizeUpdate, ApproveUpdate, RejectUpdate, DownloadCount, RequestFails
<1>6. CASE Crash
  BY <1>2, <1>6 DEF Crash
<1>7. CASE UNCHANGED vars
  BY <1>2, <1>7 DEF vars
<1> QED BY <1>3, <1>4, <1>5, <1>6, <1>7 DEF Next

LEMMA InitIInv == Init => IInv
BY DEF Init, IInv, RowInv, RequestInv, NoRow, NoObjects, NoRequest, Reviewed, FinalizeSteps

LEMMA Inductive == Spec => [](TypeOK /\ IInv)
<1>1. TypeOK /\ IInv /\ [Next]_vars => TypeOK' /\ IInv'
  BY NextType, RowInvNext, RequestInvNext DEF IInv
<1> QED BY <1>1, InitType, InitIInv, PTL DEF Spec

-----------------------------------------------------------------------------
(* What follows from it.                                                   *)

\* Every wallpaper in review, approved or rejected resolves: final key,
\* original, thumbnail and preview are in the bucket.
THEOREM AlwaysServable == Spec => []ReviewedServable
<1>1. TypeOK /\ IInv => ReviewedServable
  <2> SUFFICES ASSUME TypeOK, IInv, NEW w \in Wallpapers, row[w].status \in Reviewed
               PROVE  /\ row[w].storageKey = "byId"
                      /\ row[w].keys = "byId"
                      /\ \A object \in {"original", "thumbnail", "preview"} :
                           store[w][object] # NoVideo
    BY DEF ReviewedServable
  <2>1. RowInv(w)
    BY DEF IInv
  <2> QED BY <2>1 DEF RowInv
<1> QED BY <1>1, Inductive, PTL

LEMMA AcceptedWithinLimits ==
  ASSUME NEW v \in Videos, Accepted(v)
  PROVE  VideoInfo[v].size <= MaxFileSize
<1>1. VideoInfo[v] \in [size : Nat, duration : Nat, height : Nat, format : STRING]
  BY ModerationAssumption
<1>2. VideoInfo[v].size \in Nat /\ MaxFileSize \in Nat
  BY <1>1, ModerationAssumption
<1>3. ProbedSize(v) <= MaxFileSize
  BY DEF Accepted
<1> QED BY <1>2, <1>3 DEF ProbedSize

\* Every wallpaper in review, approved or rejected was probed, and what was
\* uploaded met every limit.
THEOREM AlwaysWithinLimits == Spec => []ReviewedWithinLimits
<1>1. TypeOK /\ IInv => ReviewedWithinLimits
  <2> SUFFICES ASSUME TypeOK, IInv, NEW w \in Wallpapers, row[w].status \in Reviewed
               PROVE  LET v == row[w].probed IN
                      /\ v \in Videos
                      /\ VideoInfo[v].size <= MaxFileSize
                      /\ VideoInfo[v].duration <= MaxDuration
                      /\ VideoInfo[v].height >= MinHeight
                      /\ VideoInfo[v].format \in {"h264", "h265"}
    BY DEF ReviewedWithinLimits
  <2>1. row[w].probed # NoVideo /\ Accepted(row[w].probed)
    BY DEF IInv, RowInv
  <2>2. row[w].probed \in Videos
    BY <2>1 DEF TypeOK, Row, MaybeVideo
  <2> QED BY <2>1, <2>2, AcceptedWithinLimits DEF Accepted
<1> QED BY <1>1, Inductive, PTL

LEMMA OrderNext ==
  ASSUME TypeOK, IInv, Next, NEW w \in Wallpapers
  PROVE  /\ row[w].status = "absent" => row'[w].status \in {"absent", "pending"}
         /\ row[w].status = "pending"
              => row'[w].status \in {"pending", "pending_review"}
         /\ row[w].status \in Reviewed => row'[w].status \in Reviewed
<1> USE DEF TypeOK, Row, Reviewed
<1>1. CASE row' = row
  BY <1>1
<1>2. ASSUME NEW r \in Requests, NEW x \in Wallpapers, CreateInsert(r, x)
      PROVE  row' = [row EXCEPT ![x] = NewRow] /\ row[x].status = "absent"
  BY <1>2 DEF CreateInsert
<1>3. ASSUME NEW r \in Requests, ~At(r, "idle")
      PROVE  request[r].wp \in Wallpapers /\ RequestInv(r)
  BY <1>3, RequestFields, StepNames DEF At, IInv
<1>4. ASSUME NEW r \in Requests, CreateSetKey(r) \/ DownloadCount(r)
      PROVE  row'[w].status = row[w].status
  BY <1>3, <1>4 DEF CreateSetKey, DownloadCount, At
<1>5. ASSUME NEW r \in Requests, FinalizeUpdate(r)
      PROVE  row'[w].status \in {row[w].status, "pending_review"}
             /\ (row[w].status = "absent" => row'[w].status = "absent")
  BY <1>3, <1>5 DEF FinalizeUpdate, At, RequestInv
<1>6. ASSUME NEW r \in Requests, ApproveUpdate(r) \/ RejectUpdate(r)
      PROVE  \/ row'[w].status = row[w].status
             \/ row[w].status \in Reviewed /\ row'[w].status \in Reviewed
  BY <1>3, <1>6 DEF ApproveUpdate, RejectUpdate, At, RequestInv
<1>7. \/ row' = row
      \/ \E r \in Requests : \/ \E x \in Wallpapers : CreateInsert(r, x)
                            \/ CreateSetKey(r) \/ DownloadCount(r)
                            \/ FinalizeUpdate(r)
                            \/ ApproveUpdate(r) \/ RejectUpdate(r)
  BY DEF Next, ClientStep, Upload, UploadUrlExpires, Arrive, FinalizeRead,
         ApproveRead, RejectRead, DownloadRead, Proceed, CreatePresign,
         FinalizeDownload, FinalizeProbe, FinalizeGenerate, FinalizePutThumbnail,
         FinalizePutPreview, RequestFails, Crash
<1>8. NewRow.status = "pending"
  BY DEF NewRow, NoRow
<1> QED BY <1>1, <1>2, <1>4, <1>5, <1>6, <1>7, <1>8

\* No step, of overlapping requests or not, leads out of review, into it
\* other than from pending, or back.
THEOREM AlwaysInOrder == Spec => ReviewOrder
<1>1. TypeOK /\ IInv /\ [Next]_vars =>
        [\A w \in Wallpapers :
           LET before == row[w].status
               after  == row'[w].status
           IN  /\ before = "absent" => after \in {"absent", "pending"}
               /\ before = "pending" => after \in {"pending", "pending_review"}
               /\ before \in Reviewed => after \in Reviewed]_row
  BY OrderNext DEF vars
<1> QED BY <1>1, Inductive, PTL DEF ReviewOrder, Spec

LEMMA PendingNext ==
  ASSUME TypeOK, IInv, PendingUntouched, Next
  PROVE  PendingUntouched'
<1> USE DEF TypeOK, Row, Reviewed, PendingUntouched
<1>1. CASE row' = row
  BY <1>1
<1>2. ASSUME NEW r \in Requests, NEW x \in Wallpapers, CreateInsert(r, x)
      PROVE  PendingUntouched'
  BY <1>2 DEF CreateInsert, NewRow, NoRow
<1>3. ASSUME NEW r \in Requests, ~At(r, "idle")
      PROVE  request[r].wp \in Wallpapers /\ RequestInv(r)
  BY <1>3, RequestFields, StepNames DEF At, IInv
<1>4. ASSUME NEW r \in Requests, CreateSetKey(r) \/ FinalizeUpdate(r)
      PROVE  PendingUntouched'
  BY <1>3, <1>4 DEF CreateSetKey, FinalizeUpdate, At
<1>5. ASSUME NEW r \in Requests,
             ApproveUpdate(r) \/ RejectUpdate(r) \/ DownloadCount(r)
      PROVE  PendingUntouched'
  <2> DEFINE w == request[r].wp
  <2>1. w \in Wallpapers /\ row[w].status \in Reviewed
    BY <1>3, <1>5 DEF ApproveUpdate, RejectUpdate, DownloadCount, At, RequestInv
  <2>2. /\ \A x \in Wallpapers \ {w} : row'[x] = row[x]
        /\ row'[w].status \in {row[w].status, "approved", "rejected"}
    BY <1>5, <2>1 DEF ApproveUpdate, RejectUpdate, DownloadCount
  <2> QED BY <2>1, <2>2
<1>6. \/ row' = row
      \/ \E r \in Requests : \/ \E x \in Wallpapers : CreateInsert(r, x)
                            \/ CreateSetKey(r) \/ FinalizeUpdate(r)
                            \/ ApproveUpdate(r) \/ RejectUpdate(r) \/ DownloadCount(r)
  BY DEF Next, ClientStep, Upload, UploadUrlExpires, Arrive, FinalizeRead,
         ApproveRead, RejectRead, DownloadRead, Proceed, CreatePresign,
         FinalizeDownload, FinalizeProbe, FinalizeGenerate, FinalizePutThumbnail,
         FinalizePutPreview, RequestFails, Crash
<1> QED BY <1>1, <1>2, <1>4, <1>5, <1>6

\* A Finalize that did not reach its UPDATE left the row as it found it, so
\* that the uploader can call it again.
THEOREM AlwaysRetriable == Spec => []PendingUntouched
<1>1. Init => PendingUntouched
  BY DEF Init, PendingUntouched, NoRow
<1>2. TypeOK /\ IInv /\ PendingUntouched /\ [Next]_vars => PendingUntouched'
  BY PendingNext DEF vars, PendingUntouched
<1> QED BY <1>1, <1>2, Inductive, PTL DEF Spec

LEMMA ReclaimedNext ==
  ASSUME TypeOK, VideoFileReclaimed, Next
  PROVE  VideoFileReclaimed'
<1> USE DEF VideoFileReclaimed
<1>1. ASSUME NEW r \in Requests, NEW left, End(r, left), "video" \notin left,
             UNCHANGED crashes
      PROVE  VideoFileReclaimed'
  BY <1>1 DEF End
<1>2. CASE Crash
  <2>1. crashes' > 0
    BY <1>2, Bounds DEF Crash, TypeOK
  <2> QED BY <2>1
<1>3. CASE UNCHANGED <<litter, crashes>>
  BY <1>3
<1>4. ASSUME NEW w \in Wallpapers, ClientStep(w)
      PROVE  UNCHANGED <<litter, crashes>>
  BY <1>4 DEF ClientStep, Upload, UploadUrlExpires
<1>5. ASSUME NEW r \in Requests, NEW w \in Wallpapers, Arrive(r, w)
      PROVE  UNCHANGED <<litter, crashes>>
  BY <1>5 DEF Arrive, Begin, CreateInsert, FinalizeRead, ApproveRead, RejectRead, DownloadRead
<1>6. ASSUME NEW r \in Requests, Proceed(r)
      PROVE  /\ UNCHANGED crashes
             /\ \/ UNCHANGED litter
                \/ \E left : End(r, left) /\ "video" \notin left
  <2>1. CASE UNCHANGED crashes /\ (End(r, {}) \/ End(r, {"thumbnail"}) \/ End(r, {"preview"}))
    BY <2>1
  <2>2. CASE UNCHANGED <<litter, crashes>>
    BY <2>2
  <2> QED
    BY <1>6, <2>1, <2>2
       DEF Proceed, Goto, CreateSetKey, CreatePresign, FinalizeDownload, FinalizeProbe,
           FinalizeGenerate, FinalizePutThumbnail, FinalizePutPreview, FinalizeUpdate,
           ApproveUpdate, RejectUpdate, DownloadCount, RequestFails
<1> QED BY <1>1, <1>2, <1>3, <1>4, <1>5, <1>6 DEF Next

\* Unless the process was killed, no copy of an upload is ever left in the
\* temp directory, whichever of Finalize's calls fails.
THEOREM AlwaysReclaimed == Spec => []VideoFileReclaimed
<1>1. Init => VideoFileReclaimed
  BY DEF Init, VideoFileReclaimed
<1>2. TypeOK /\ VideoFileReclaimed /\ [Next]_vars => VideoFileReclaimed'
  BY ReclaimedNext DEF vars, VideoFileReclaimed
<1> QED BY <1>1, <1>2, TypeCorrect, PTL DEF Spec

-----------------------------------------------------------------------------
(* One request at a time.                                                  *)

LEMMA SerialNext ==
  ASSUME OneRequest, TypeOK, IInv, SerialInv, [Next]_vars
  PROVE  SerialInv'
<1> USE DEF TypeOK, SerialInv, FinalizeSteps
<1>1. ASSUME NEW w \in Wallpapers, ClientStep(w)
      PROVE  SerialInv'
  <2>1. /\ row' = row /\ request' = request
        /\ \A x \in Wallpapers : /\ store'[x].thumbnail = store[x].thumbnail
                               /\ store'[x].preview = store[x].preview
    BY <1>1 DEF ClientStep, Upload, UploadUrlExpires, Objects
  <2>2. \A q \in Requests : request[q].step # "idle" => request[q].wp \in Wallpapers
    BY RequestFields, StepNames
  <2> QED BY <2>1, <2>2
<1>2. ASSUME NEW r \in Requests, NEW w \in Wallpapers, Arrive(r, w)
      PROVE  SerialInv'
  <2>1. \A q \in Requests : q = r
    BY DEF OneRequest
  <2>2. ASSUME NEW s, Begin(r, w, s)
        PROVE  request'[r].step = s /\ request'[r].wp = w
    BY <2>2 DEF Begin, NoRequest
  <2>3. CASE CreateInsert(r, w)
    BY <2>1, <2>2, <2>3 DEF CreateInsert, NewRow, NoRow
  <2>4. ASSUME NEW user \in Users, FinalizeRead(r, w, user)
        PROVE  SerialInv'
    BY <2>1, <2>2, <2>4 DEF FinalizeRead
  <2>5. CASE ApproveRead(r, w)
    BY <2>1, <2>2, <2>5 DEF ApproveRead
  <2>6. CASE RejectRead(r, w)
    BY <2>1, <2>2, <2>6 DEF RejectRead
  <2>7. CASE DownloadRead(r, w)
    BY <2>1, <2>2, <2>7 DEF DownloadRead
  <2> QED BY <1>2, <2>3, <2>4, <2>5, <2>6, <2>7 DEF Arrive
<1>3. ASSUME NEW r \in Requests, Proceed(r)
      PROVE  SerialInv'
  <2> DEFINE w == request[r].wp
  <2>1. \A q \in Requests : q = r
    BY DEF OneRequest
  <2>2. ASSUME NEW left, End(r, left)
        PROVE  SerialInv'
    BY <2>1, <2>2 DEF End, NoRequest
  <2>3. ASSUME NEW s, Goto(r, s)
        PROVE  /\ request'[r].step = s
               /\ request'[r].wp = w
               /\ request'[r].video = request[r].video
    BY <2>3 DEF Goto, Request
  <2>4. ~At(r, "idle") => w \in Wallpapers
    BY RequestFields, StepNames DEF At
  <2>5. CASE CreateSetKey(r)
    <3>1. row'[w].status = row[w].status
      BY <2>4, <2>5 DEF CreateSetKey, At, Row
    <3> QED BY <2>1, <2>2, <2>3, <2>5, <3>1 DEF CreateSetKey, At
  <2>6. CASE FinalizeDownload(r)
    <3>1. request'[r].step = "finalize_probe" /\ request'[r].wp = w
      BY <2>6 DEF FinalizeDownload, Request
    <3> QED BY <2>1, <2>6, <3>1 DEF FinalizeDownload, At
  <2>7. CASE FinalizeProbe(r)
    BY <2>1, <2>2, <2>3, <2>7 DEF FinalizeProbe, At
  <2>8. CASE FinalizeGenerate(r)
    <3>1. CASE \E left : End(r, left)
      BY <2>2, <3>1
    <3>2. CASE request' = [request EXCEPT ![r].step = "finalize_thumbnail",
                                          ![r].files = TempFiles]
      <4>1. request'[r].step = "finalize_thumbnail" /\ request'[r].wp = w
        BY <3>2 DEF Request
      <4> QED BY <2>1, <2>8, <4>1 DEF FinalizeGenerate, At
    <3> QED BY <2>8, <3>1, <3>2 DEF FinalizeGenerate
  <2>9. CASE FinalizePutThumbnail(r)
    <3>1. store'[w].thumbnail = request[r].video
      BY <2>4, <2>9 DEF FinalizePutThumbnail, At, Objects
    <3> QED BY <2>1, <2>2, <2>3, <2>9, <3>1 DEF FinalizePutThumbnail, At
  <2>10. CASE FinalizePutPreview(r)
    <3>1. /\ store'[w].preview = request[r].video
          /\ store'[w].thumbnail = store[w].thumbnail
      BY <2>4, <2>10 DEF FinalizePutPreview, At, Objects
    <3> QED BY <2>1, <2>2, <2>3, <2>10, <3>1 DEF FinalizePutPreview, At
  <2>11. CASE \E left : End(r, left)
    BY <2>2, <2>11
  <2> QED
    BY <1>3, <2>5, <2>6, <2>7, <2>8, <2>9, <2>10, <2>11
       DEF Proceed, CreatePresign, FinalizeUpdate, ApproveUpdate, RejectUpdate,
           DownloadCount, RequestFails
<1>4. CASE Crash
  BY <1>4 DEF Crash, NoRequest
<1>5. CASE UNCHANGED vars
  BY <1>5 DEF vars
<1> QED BY <1>1, <1>2, <1>3, <1>4, <1>5 DEF Next

LEMMA SerialInductive ==
  ASSUME OneRequest
  PROVE  Spec => [](TypeOK /\ IInv /\ SerialInv)
<1>1. Init => SerialInv
  BY DEF Init, SerialInv, NoRequest, FinalizeSteps
<1>2. TypeOK /\ IInv /\ SerialInv /\ [Next]_vars => SerialInv'
  BY SerialNext, OneRequest
<1> QED BY <1>1, <1>2, Inductive, PTL DEF Spec

LEMMA LifecycleNext ==
  ASSUME OneRequest, TypeOK, IInv, SerialInv, Next
  PROVE  \/ row' = row
         \/ \E w \in Wallpapers :
              /\ \A x \in Wallpapers \ {w} : row'[x].status = row[x].status
              /\ \/ row'[w].status = row[w].status
                 \/ row[w].status = "absent" /\ row'[w].status = "pending"
                 \/ row[w].status = "pending" /\ row'[w].status = "pending_review"
                 \/ /\ row[w].status = "pending_review"
                    /\ row'[w].status \in {"approved", "rejected"}
<1> USE DEF TypeOK, Row
<1>1. ASSUME NEW r \in Requests, ~At(r, "idle")
      PROVE  request[r].wp \in Wallpapers
  BY <1>1, RequestFields, StepNames DEF At
<1>2. ASSUME NEW r \in Requests, NEW w \in Wallpapers, CreateInsert(r, w)
      PROVE  /\ \A x \in Wallpapers \ {w} : row'[x] = row[x]
             /\ row[w].status = "absent" /\ row'[w].status = "pending"
  BY <1>2 DEF CreateInsert, NewRow, NoRow
<1>3. ASSUME NEW r \in Requests, CreateSetKey(r) \/ DownloadCount(r)
      PROVE  /\ request[r].wp \in Wallpapers
             /\ \A x \in Wallpapers : row'[x].status = row[x].status
  <2>1. CASE CreateSetKey(r)
    BY <1>1, <2>1 DEF CreateSetKey, At
  <2>2. CASE DownloadCount(r)
    BY <1>1, <2>2 DEF DownloadCount, At
  <2> QED BY <1>3, <2>1, <2>2
<1>4. ASSUME NEW r \in Requests, FinalizeUpdate(r)
      PROVE  LET w == request[r].wp IN
             /\ w \in Wallpapers
             /\ \A x \in Wallpapers \ {w} : row'[x] = row[x]
             /\ row[w].status = "pending" /\ row'[w].status = "pending_review"
  BY <1>1, <1>4 DEF FinalizeUpdate, At, SerialInv, FinalizeSteps
<1>5. ASSUME NEW r \in Requests, ApproveUpdate(r) \/ RejectUpdate(r)
      PROVE  LET w == request[r].wp IN
             /\ w \in Wallpapers
             /\ \A x \in Wallpapers \ {w} : row'[x] = row[x]
             /\ row[w].status = "pending_review"
             /\ row'[w].status \in {"approved", "rejected"}
  BY <1>1, <1>5 DEF ApproveUpdate, RejectUpdate, At, SerialInv
<1>6. \/ row' = row
      \/ \E r \in Requests : \/ \E x \in Wallpapers : CreateInsert(r, x)
                            \/ CreateSetKey(r) \/ DownloadCount(r)
                            \/ FinalizeUpdate(r)
                            \/ ApproveUpdate(r) \/ RejectUpdate(r)
  BY DEF Next, ClientStep, Upload, UploadUrlExpires, Arrive, FinalizeRead,
         ApproveRead, RejectRead, DownloadRead, Proceed, CreatePresign,
         FinalizeDownload, FinalizeProbe, FinalizeGenerate, FinalizePutThumbnail,
         FinalizePutPreview, RequestFails, Crash
<1> QED BY <1>2, <1>3, <1>4, <1>5, <1>6

\* With one request at a time the server implements the diagram of
\* WallpaperLifecycle, whatever fails and whenever it is killed: every step
\* is one of the diagram's, or leaves all statuses alone.
THEOREM ImplementsLifecycle ==
  ASSUME OneRequest
  PROVE  Spec => FollowsLifecycle
<1> DEFINE status == [w \in Wallpapers |-> row[w].status]
<1>1. Init => Lifecycle!Init
  BY DEF Init, Lifecycle!Init, NoRow
<1>2. TypeOK /\ IInv /\ SerialInv /\ [Next]_vars => [Lifecycle!Next]_status
  <2> SUFFICES ASSUME TypeOK, IInv, SerialInv, [Next]_vars, row' # row
               PROVE  [Lifecycle!Next]_status
    OBVIOUS
  <2>1. Next
    BY DEF vars
  <2>2. PICK w \in Wallpapers :
          /\ \A x \in Wallpapers \ {w} : row'[x].status = row[x].status
          /\ \/ row'[w].status = row[w].status
             \/ row[w].status = "absent" /\ row'[w].status = "pending"
             \/ row[w].status = "pending" /\ row'[w].status = "pending_review"
             \/ /\ row[w].status = "pending_review"
                /\ row'[w].status \in {"approved", "rejected"}
    BY <2>1, LifecycleNext, OneRequest
  <2>3. \A to : row'[w].status = to => status' = [status EXCEPT ![w] = to]
    BY <2>2
  <2> QED
    BY <2>2, <2>3 DEF Lifecycle!Next, Lifecycle!Create, Lifecycle!Finalize,
       Lifecycle!Approve, Lifecycle!Reject, Lifecycle!Move
<1> QED BY <1>1, <1>2, SerialInductive, OneRequest, PTL
        DEF Spec, FollowsLifecycle, Lifecycle!Spec

-----------------------------------------------------------------------------
(* What else holds of rows and objects as long as requests do not overlap. *)

LEMMA ReasonNext ==
  ASSUME OneRequest, TypeOK, IInv, SerialInv, ReasonMeansRejected, Next
  PROVE  ReasonMeansRejected'
<1> USE DEF TypeOK, Row, ReasonMeansRejected
<1>1. ASSUME NEW r \in Requests, ~At(r, "idle")
      PROVE  request[r].wp \in Wallpapers
  BY <1>1, RequestFields, StepNames DEF At
<1>2. ASSUME NEW r \in Requests, NEW w \in Wallpapers, CreateInsert(r, w)
      PROVE  ReasonMeansRejected'
  BY <1>2 DEF CreateInsert, NewRow, NoRow
<1>3. ASSUME NEW r \in Requests, CreateSetKey(r) \/ DownloadCount(r)
      PROVE  ReasonMeansRejected'
  BY <1>1, <1>3 DEF CreateSetKey, DownloadCount, At
<1>4. ASSUME NEW r \in Requests, FinalizeUpdate(r)
      PROVE  ReasonMeansRejected'
  <2>1. row[request[r].wp].status = "pending"
    BY <1>4 DEF FinalizeUpdate, At, SerialInv, FinalizeSteps
  <2> QED BY <1>1, <1>4, <2>1 DEF FinalizeUpdate, At
<1>5. ASSUME NEW r \in Requests, ApproveUpdate(r) \/ RejectUpdate(r)
      PROVE  ReasonMeansRejected'
  <2>1. row[request[r].wp].status = "pending_review"
    BY <1>5 DEF ApproveUpdate, RejectUpdate, At, SerialInv
  <2> QED BY <1>1, <1>5, <2>1 DEF ApproveUpdate, RejectUpdate, At
<1>6. CASE row' = row
  BY <1>6
<1>7. \/ row' = row
      \/ \E r \in Requests : \/ \E x \in Wallpapers : CreateInsert(r, x)
                            \/ CreateSetKey(r) \/ DownloadCount(r)
                            \/ FinalizeUpdate(r)
                            \/ ApproveUpdate(r) \/ RejectUpdate(r)
  BY DEF Next, ClientStep, Upload, UploadUrlExpires, Arrive, FinalizeRead,
         ApproveRead, RejectRead, DownloadRead, Proceed, CreatePresign,
         FinalizeDownload, FinalizeProbe, FinalizeGenerate, FinalizePutThumbnail,
         FinalizePutPreview, RequestFails, Crash
<1> QED BY <1>2, <1>3, <1>4, <1>5, <1>6, <1>7

\* With one request at a time a reason is on the rejected wallpapers and on
\* no others.
THEOREM ReasonsOnRejected ==
  ASSUME OneRequest
  PROVE  Spec => []ReasonMeansRejected
<1>1. Init => ReasonMeansRejected
  <2>1. NoRow.reason = "null" /\ NoRow.status = "absent"
    BY DEF NoRow
  <2>2. Init => \A w \in Wallpapers : row[w] = NoRow
    BY DEF Init
  <2> QED BY <2>1, <2>2 DEF ReasonMeansRejected
<1>2. TypeOK /\ IInv /\ SerialInv /\ ReasonMeansRejected /\ [Next]_vars => ReasonMeansRejected'
  BY ReasonNext, OneRequest DEF vars, ReasonMeansRejected
<1> QED BY <1>1, <1>2, SerialInductive, OneRequest, PTL DEF Spec

LEMMA AssetsNext ==
  ASSUME OneRequest, TypeOK, IInv, SerialInv, AssetsAgree, Next
  PROVE  AssetsAgree'
<1> USE DEF TypeOK, Row, Objects, AssetsAgree, Reviewed
<1>1. ASSUME NEW r \in Requests, ~At(r, "idle")
      PROVE  request[r].wp \in Wallpapers
  BY <1>1, RequestFields, StepNames DEF At
<1>2. ASSUME NEW w \in Wallpapers, ClientStep(w)
      PROVE  AssetsAgree'
  BY <1>2 DEF ClientStep, Upload, UploadUrlExpires
<1>3. ASSUME NEW r \in Requests, NEW w \in Wallpapers, CreateInsert(r, w)
      PROVE  AssetsAgree'
  BY <1>3 DEF CreateInsert, NewRow, NoRow
<1>4. ASSUME NEW r \in Requests, CreateSetKey(r) \/ DownloadCount(r)
      PROVE  AssetsAgree'
  <2>1. CASE CreateSetKey(r)
    BY <1>1, <2>1 DEF CreateSetKey, At
  <2>2. CASE DownloadCount(r)
    <3>1. /\ store' = store
          /\ \A w \in Wallpapers : /\ row'[w].status = row[w].status
                                  /\ row'[w].probed = row[w].probed
      BY <1>1, <2>2 DEF DownloadCount, At
    <3> QED BY <3>1
  <2> QED BY <1>4, <2>1, <2>2
<1>5. ASSUME NEW r \in Requests, FinalizePutThumbnail(r) \/ FinalizePutPreview(r)
      PROVE  AssetsAgree'
  <2>1. row[request[r].wp].status = "pending"
    BY <1>5 DEF FinalizePutThumbnail, FinalizePutPreview, At, SerialInv, FinalizeSteps
  <2> QED BY <1>1, <1>5, <2>1 DEF FinalizePutThumbnail, FinalizePutPreview, At
<1>6. ASSUME NEW r \in Requests, FinalizeUpdate(r)
      PROVE  AssetsAgree'
  <2>1. /\ store[request[r].wp].thumbnail = request[r].video
        /\ store[request[r].wp].preview = request[r].video
    BY <1>6 DEF FinalizeUpdate, At, SerialInv
  <2> QED BY <1>1, <1>6, <2>1 DEF FinalizeUpdate, At
<1>7. ASSUME NEW r \in Requests, ApproveUpdate(r) \/ RejectUpdate(r)
      PROVE  AssetsAgree'
  <2>1. row[request[r].wp].status = "pending_review"
    BY <1>7 DEF ApproveUpdate, RejectUpdate, At, SerialInv
  <2> QED BY <1>1, <1>7, <2>1 DEF ApproveUpdate, RejectUpdate, At
<1>8. CASE UNCHANGED <<row, store>>
  BY <1>8
<1>9. \/ UNCHANGED <<row, store>>
      \/ \E w \in Wallpapers : ClientStep(w)
      \/ \E r \in Requests : \/ \E x \in Wallpapers : CreateInsert(r, x)
                            \/ CreateSetKey(r) \/ DownloadCount(r)
                            \/ FinalizePutThumbnail(r) \/ FinalizePutPreview(r)
                            \/ FinalizeUpdate(r)
                            \/ ApproveUpdate(r) \/ RejectUpdate(r)
  BY DEF Next, Arrive, FinalizeRead, ApproveRead, RejectRead, DownloadRead, Proceed,
         CreatePresign, FinalizeDownload, FinalizeProbe, FinalizeGenerate, RequestFails, Crash
<1> QED BY <1>2, <1>3, <1>4, <1>5, <1>6, <1>7, <1>8, <1>9

\* With one request at a time the thumbnail, the preview and the metadata of a
\* reviewed wallpaper are of one file, after any failures and new uploads.
THEOREM AssetsOfOneFile ==
  ASSUME OneRequest
  PROVE  Spec => []AssetsAgree
<1>1. Init => AssetsAgree
  BY DEF Init, AssetsAgree, NoRow, Reviewed
<1>2. TypeOK /\ IInv /\ SerialInv /\ AssetsAgree /\ [Next]_vars => AssetsAgree'
  BY AssetsNext, OneRequest DEF vars, AssetsAgree
<1> QED BY <1>1, <1>2, SerialInductive, OneRequest, PTL DEF Spec

=============================================================================
