----------------------------- MODULE Moderation -----------------------------
(***************************************************************************)
(* The path of a wallpaper through the server: created by its uploader,    *)
(* uploaded to object storage, finalized, approved or rejected by an       *)
(* admin, downloaded.                                                      *)
(*                                                                         *)
(* Every HTTP request runs in a goroutine of its own and talks to          *)
(* PostgreSQL and to S3 one call at a time; an action is one such call     *)
(* with the local work around it, so requests interleave between calls as  *)
(* they do in the server.  No call is in a transaction and no UPDATE looks *)
(* at the status it overwrites.  Any call may fail (or the client may go   *)
(* away, which cancels the request's context), a failed call may still     *)
(* have taken effect, and the process may be killed.                       *)
(*                                                                         *)
(* An uploaded file is a member of Videos; VideoInfo is what ffprobe says  *)
(* of it.  Titles, categories and the bytes themselves are left out.       *)
(***************************************************************************)
EXTENDS Integers

CONSTANTS
  Wallpapers,        \* ids the database can hand out
  Users,
  Uploader,          \* Uploader[w]: the user whose Create call is given id w
  Requests,          \* the requests the server can have in flight at once
  Videos,            \* the files a client may upload
  VideoInfo,         \* VideoInfo[v]: size, duration, height, codec of v
  MaxFileSize, MaxDuration, MinHeight,   \* limits of config.go
  NoVideo, NoWallpaper,
  MaxDownloads,      \* bound on the download counter of a row
  MaxCrashes         \* bound on how often the process is killed

ASSUME ModerationAssumption ==
  /\ Uploader \in [Wallpapers -> Users]
  /\ VideoInfo \in [Videos -> [size : Nat, duration : Nat, height : Nat,
                               format : STRING]]
  /\ MaxFileSize \in Nat /\ MaxDuration \in Nat /\ MinHeight \in Nat
  /\ NoVideo \notin Videos
  /\ NoWallpaper \notin Wallpapers
  /\ MaxDownloads \in Nat /\ MaxCrashes \in Nat

VARIABLES
  row,         \* the wallpapers table: one record per id
  store,       \* the bucket: what the three objects of an id were made from
  uploadUrl,   \* what the uploader knows: no URL, a live one, an expired one
  request,     \* the requests in flight: next step, and what they carry
  litter,      \* kinds of temp files no one will remove any more
  crashes      \* how often the process has been killed

vars == <<row, store, uploadUrl, request, litter, crashes>>

-----------------------------------------------------------------------------
(* State.                                                                  *)

MaybeVideo == Videos \cup {NoVideo}

TempFiles == {"video", "thumbnail", "preview"}

Statuses == {"absent", "pending", "pending_review", "approved", "rejected"}

\* Statuses only a finished Finalize leads to.
Reviewed == {"pending_review", "approved", "rejected"}

\* Columns of a row that matter here.  probed is the file the metadata
\* columns (width .. resolution) describe; keys is what thumbnail_key and
\* preview_key hold: nothing, or the keys made from the id; storageKey is the placeholder or
\* the key made from the id; reason is rejection_reason.
Row == [status : Statuses, storageKey : {"none", "placeholder", "byId"},
        probed : MaybeVideo, keys : {"empty", "byId"}, reason : {"null", "given"},
        downloads : 0..MaxDownloads]

NoRow == [status |-> "absent", storageKey |-> "none", probed |-> NoVideo,
          keys |-> "empty", reason |-> "null", downloads |-> 0]

NewRow == [NoRow EXCEPT !.status = "pending", !.storageKey = "placeholder"]

\* The objects wallpapers/<id>/{original.mp4,thumbnail.jpg,preview.mp4}, each
\* given by the upload it holds or was derived from.
Objects == [original : MaybeVideo, thumbnail : MaybeVideo, preview : MaybeVideo]

NoObjects == [original |-> NoVideo, thumbnail |-> NoVideo, preview |-> NoVideo]

\* The call a request makes next.
FinalizeSteps == {"finalize_download", "finalize_probe", "finalize_generate",
                  "finalize_thumbnail", "finalize_preview", "finalize_update"}

Steps == {"idle", "create_key", "create_url", "approve_update",
          "reject_update", "download_count"} \cup FinalizeSteps

Request == [step : Steps, wp : Wallpapers \cup {NoWallpaper},
            video : MaybeVideo, files : SUBSET TempFiles]

NoRequest == [step |-> "idle", wp |-> NoWallpaper, video |-> NoVideo, files |-> {}]

TypeOK ==
  /\ row \in [Wallpapers -> Row]
  /\ store \in [Wallpapers -> Objects]
  /\ uploadUrl \in [Wallpapers -> {"none", "live", "expired"}]
  /\ request \in [Requests -> Request]
  /\ \A r \in Requests : request[r].step # "idle" => request[r].wp # NoWallpaper
  /\ litter \in SUBSET TempFiles
  /\ crashes \in 0..MaxCrashes

Init ==
  /\ row = [w \in Wallpapers |-> NoRow]
  /\ store = [w \in Wallpapers |-> NoObjects]
  /\ uploadUrl = [w \in Wallpapers |-> "none"]
  /\ request = [r \in Requests |-> NoRequest]
  /\ litter = {}
  /\ crashes = 0

-----------------------------------------------------------------------------
(* Requests.                                                               *)

At(r, step) == request[r].step = step

\* Mutant: the id of the path is not handed on.
BeginWithoutId(r, w, step) ==
  /\ At(r, "idle")
  /\ request' = [request EXCEPT ![r] = [NoRequest EXCEPT !.step = step]]
  /\ UNCHANGED litter

\* A request on w arrives and will next do step.
Begin(r, w, step) ==
  /\ At(r, "idle")
  /\ request' = [request EXCEPT ![r] = [NoRequest EXCEPT !.step = step, !.wp = w]]
  /\ UNCHANGED litter

Goto(r, step) ==
  /\ request' = [request EXCEPT ![r].step = step]
  /\ UNCHANGED litter

\* The handler returns.  Its deferred calls remove the files it registered;
\* those in left were never registered and stay behind.
End(r, left) ==
  /\ request' = [request EXCEPT ![r] = NoRequest]
  /\ litter' = litter \cup left

\* A call fails before it does anything, or the client is gone and the
\* context is cancelled: the handler returns the error.
RequestFails(r) ==
  /\ ~At(r, "idle")
  /\ End(r, {})
  /\ UNCHANGED <<row, store, uploadUrl, crashes>>

-----------------------------------------------------------------------------
(* POST /wallpapers: handler Create.                                       *)

\* The row is inserted under a placeholder key, for the id is only known
\* afterwards.
CreateInsert(r, w) ==
  /\ row[w].status = "absent"
  /\ row' = [row EXCEPT ![w] = NewRow]
  /\ Begin(r, w, "create_key")
  /\ UNCHANGED <<store, uploadUrl, crashes>>

\* UpdateWallpaperStorageKey; its reply may be lost after it took effect.
CreateSetKey(r) ==
  /\ At(r, "create_key")
  /\ row' = [row EXCEPT ![request[r].wp].storageKey = "byId"]
  /\ Goto(r, "create_url") \/ End(r, {})
  /\ UNCHANGED <<store, uploadUrl, crashes>>

\* The upload URL is signed and the response reaches the client.  (When it
\* does not, RequestFails: nobody ever learns id or URL.)
CreatePresign(r) ==
  /\ At(r, "create_url")
  /\ uploadUrl' = [uploadUrl EXCEPT ![request[r].wp] = "live"]
  /\ End(r, {})
  /\ UNCHANGED <<row, store, crashes>>

\* The client PUTs a file to the URL: once, again after a lost reply, or
\* late, while the URL lasts.
Upload(w, v) ==
  /\ uploadUrl[w] = "live"
  /\ store' = [store EXCEPT ![w].original = v]
  /\ UNCHANGED <<row, uploadUrl, request, litter, crashes>>

\* PresignedUploadExpiry passes.
UploadUrlExpires(w) ==
  /\ uploadUrl[w] = "live"
  /\ uploadUrl' = [uploadUrl EXCEPT ![w] = "expired"]
  /\ UNCHANGED <<row, store, request, litter, crashes>>

-----------------------------------------------------------------------------
(* POST /wallpapers/{id}/finalize: service Finalize.                       *)

\* Mutant: io.LimitReader(reader, MaxFileSize), one byte short.
ProbedSizeOffByOne(v) ==
  LET size == VideoInfo[v].size
  IN  IF size > MaxFileSize THEN MaxFileSize ELSE size

\* The size ffprobe reports: of the temp file, which io.LimitReader cuts one
\* byte above the limit.
ProbedSize(v) ==
  LET size == VideoInfo[v].size
  IN  IF size > MaxFileSize + 1 THEN MaxFileSize + 1 ELSE size

\* validateVideo.
Accepted(v) ==
  /\ ProbedSize(v) <= MaxFileSize
  /\ VideoInfo[v].duration <= MaxDuration
  /\ VideoInfo[v].height >= MinHeight
  /\ VideoInfo[v].format \in {"h264", "h265"}

\* GetWallpaperByID, the owner check, the status check.  Nothing asks whether
\* Create has answered: an id can also be read off an admin's listing.
FinalizeRead(r, w, user) ==
  /\ row[w].status = "pending"
  /\ user = Uploader[w]
  /\ Begin(r, w, "finalize_download")
  /\ UNCHANGED <<row, store, uploadUrl, crashes>>

\* store.Get and the copy into a temp file.
FinalizeDownload(r) ==
  LET original == store[request[r].wp].original IN
  /\ At(r, "finalize_download")
  /\ original # NoVideo
  /\ request' = [request EXCEPT ![r].step = "finalize_probe",
                                ![r].video = original,
                                ![r].files = {"video"}]
  /\ UNCHANGED <<row, store, uploadUrl, litter, crashes>>

\* Mutant: the early return of validateVideo comes before the deferred Remove.
FinalizeProbeNoRemove(r) ==
  /\ At(r, "finalize_probe")
  /\ IF Accepted(request[r].video) THEN Goto(r, "finalize_generate")
                                   ELSE End(r, {"video"})
  /\ UNCHANGED <<row, store, uploadUrl, crashes>>

\* ffprobe on the temp file, then validateVideo.
FinalizeProbe(r) ==
  /\ At(r, "finalize_probe")
  /\ IF Accepted(request[r].video) THEN Goto(r, "finalize_generate") ELSE End(r, {})
  /\ UNCHANGED <<row, store, uploadUrl, crashes>>

\* ffmpeg writes the thumbnail, then the preview.  An output's removal is
\* deferred only after its ffmpeg succeeded, so a failing one may leave a
\* partial file.
FinalizeGenerate(r) ==
  /\ At(r, "finalize_generate")
  /\ \/ /\ request' = [request EXCEPT ![r].step = "finalize_thumbnail",
                                      ![r].files = TempFiles]
        /\ UNCHANGED litter
     \/ End(r, {"thumbnail"})
     \/ End(r, {"preview"})
  /\ UNCHANGED <<row, store, uploadUrl, crashes>>

\* Mutant: the error of Put is ignored.
FinalizePutThumbnailUnchecked(r) ==
  /\ At(r, "finalize_thumbnail")
  /\ \/ store' = [store EXCEPT ![request[r].wp].thumbnail = request[r].video]
     \/ UNCHANGED store
  /\ Goto(r, "finalize_preview") \/ End(r, {})
  /\ UNCHANGED <<row, uploadUrl, crashes>>

\* Mutant: a thumbnail that is already there is not uploaded again.
FinalizePutThumbnailOnce(r) ==
  /\ At(r, "finalize_thumbnail")
  /\ IF store[request[r].wp].thumbnail = NoVideo
       THEN store' = [store EXCEPT ![request[r].wp].thumbnail = request[r].video]
       ELSE UNCHANGED store
  /\ Goto(r, "finalize_preview") \/ End(r, {})
  /\ UNCHANGED <<row, uploadUrl, crashes>>

\* store.Put of the thumbnail; a Put that reports an error may have stored.
FinalizePutThumbnail(r) ==
  /\ At(r, "finalize_thumbnail")
  /\ store' = [store EXCEPT ![request[r].wp].thumbnail = request[r].video]
  /\ Goto(r, "finalize_preview") \/ End(r, {})
  /\ UNCHANGED <<row, uploadUrl, crashes>>

FinalizePutPreview(r) ==
  /\ At(r, "finalize_preview")
  /\ store' = [store EXCEPT ![request[r].wp].preview = request[r].video]
  /\ Goto(r, "finalize_update") \/ End(r, {})
  /\ UNCHANGED <<row, uploadUrl, crashes>>

\* Mutant: the UPDATE leaves the status alone.
FinalizeUpdateNoStatus(r) ==
  /\ At(r, "finalize_update")
  /\ row' = [row EXCEPT ![request[r].wp].probed = request[r].video,
                        ![request[r].wp].keys = "byId"]
  /\ End(r, {})
  /\ UNCHANGED <<store, uploadUrl, crashes>>

\* UpdateWallpaperAfterFinalize: WHERE id = $10, whatever the status is now.
FinalizeUpdate(r) ==
  /\ At(r, "finalize_update")
  /\ row' = [row EXCEPT ![request[r].wp].status = "pending_review",
                        ![request[r].wp].probed = request[r].video,
                        ![request[r].wp].keys = "byId"]
  /\ End(r, {})
  /\ UNCHANGED <<store, uploadUrl, crashes>>

-----------------------------------------------------------------------------
(* POST /admin/queue/{id}/approve and /reject: services Approve, Reject.   *)

\* Mutant: any status but approved will do.
ApproveReadAnyStatus(r, w) ==
  /\ row[w].status \notin {"absent", "approved"}
  /\ Begin(r, w, "approve_update")
  /\ UNCHANGED <<row, store, uploadUrl, crashes>>

ApproveRead(r, w) ==
  /\ row[w].status = "pending_review"
  /\ Begin(r, w, "approve_update")
  /\ UNCHANGED <<row, store, uploadUrl, crashes>>

\* UpdateWallpaperStatus: WHERE id = $2.
ApproveUpdate(r) ==
  /\ At(r, "approve_update")
  /\ row' = [row EXCEPT ![request[r].wp].status = "approved"]
  /\ End(r, {})
  /\ UNCHANGED <<store, uploadUrl, crashes>>

RejectRead(r, w) ==
  /\ row[w].status = "pending_review"
  /\ Begin(r, w, "reject_update")
  /\ UNCHANGED <<row, store, uploadUrl, crashes>>

\* Mutant: a rejected wallpaper goes back to its uploader.
RejectUpdateToPending(r) ==
  /\ At(r, "reject_update")
  /\ row' = [row EXCEPT ![request[r].wp].status = "pending",
                        ![request[r].wp].reason = "given"]
  /\ End(r, {})
  /\ UNCHANGED <<store, uploadUrl, crashes>>

\* Mutant: UpdateWallpaperStatus is used, and the reason is lost.
RejectUpdateNoReason(r) ==
  /\ At(r, "reject_update")
  /\ row' = [row EXCEPT ![request[r].wp].status = "rejected"]
  /\ End(r, {})
  /\ UNCHANGED <<store, uploadUrl, crashes>>

\* UpdateWallpaperStatusWithReason: WHERE id = $3.
RejectUpdate(r) ==
  /\ At(r, "reject_update")
  /\ row' = [row EXCEPT ![request[r].wp].status = "rejected",
                        ![request[r].wp].reason = "given"]
  /\ End(r, {})
  /\ UNCHANGED <<store, uploadUrl, crashes>>

-----------------------------------------------------------------------------
(* POST /wallpapers/{id}/download: handler Download, service GetApproved.  *)

\* What the public may see.
GetApproved(w) == row[w].status = "approved"

\* The row is read and a URL for its storage_key signed.
DownloadRead(r, w) ==
  /\ GetApproved(w)
  /\ Begin(r, w, "download_count")
  /\ UNCHANGED <<row, store, uploadUrl, crashes>>

\* IncrementDownloadCount; its failure is only logged.
DownloadCount(r) ==
  /\ At(r, "download_count")
  /\ row[request[r].wp].downloads < MaxDownloads
  /\ row' = [row EXCEPT ![request[r].wp].downloads = @ + 1]
  /\ End(r, {})
  /\ UNCHANGED <<store, uploadUrl, crashes>>

-----------------------------------------------------------------------------
(* The process is killed and started again: requests vanish, their temp    *)
(* files stay, the database and the bucket keep what they have.            *)

Crash ==
  /\ crashes < MaxCrashes
  /\ crashes' = crashes + 1
  /\ request' = [r \in Requests |-> NoRequest]
  /\ litter' = litter \cup UNION {request[r].files : r \in Requests}
  /\ UNCHANGED <<row, store, uploadUrl>>

-----------------------------------------------------------------------------

ClientStep(w) == UploadUrlExpires(w) \/ \E v \in Videos : Upload(w, v)

\* A request arrives for w.
Arrive(r, w) ==
  \/ CreateInsert(r, w)
  \/ \E user \in Users : FinalizeRead(r, w, user)
  \/ ApproveRead(r, w)
  \/ RejectRead(r, w)
  \/ DownloadRead(r, w)

\* A request in flight makes its next call.
Proceed(r) ==
  \/ CreateSetKey(r) \/ CreatePresign(r)
  \/ FinalizeDownload(r) \/ FinalizeProbe(r) \/ FinalizeGenerate(r)
  \/ FinalizePutThumbnail(r) \/ FinalizePutPreview(r) \/ FinalizeUpdate(r)
  \/ ApproveUpdate(r) \/ RejectUpdate(r) \/ DownloadCount(r)
  \/ RequestFails(r)

Next ==
  \/ \E w \in Wallpapers : ClientStep(w)
  \/ \E r \in Requests, w \in Wallpapers : Arrive(r, w)
  \/ \E r \in Requests : Proceed(r)
  \/ Crash

Spec == Init /\ [][Next]_vars

-----------------------------------------------------------------------------
(* Properties.                                                             *)

\* Whatever the interleaving of retried, overlapping and failed Finalize
\* calls with uploads and reviews: a wallpaper that reached review has its
\* final storage key, its original, and both derived objects in the bucket,
\* so that the queue, the gallery and a download URL all resolve.  (The keys
\* are written at service/wallpaper.go:65, two calls after the Puts.)
ReviewedServable ==
  \A w \in Wallpapers : row[w].status \in Reviewed =>
    /\ row[w].storageKey = "byId"
    /\ row[w].keys = "byId"
    /\ \A object \in {"original", "thumbnail", "preview"} :
         store[w][object] # NoVideo

\* A wallpaper that reached review was probed, and the file the probe read
\* was, as uploaded and not as cut by io.LimitReader, within the limits of
\* config.go (service/wallpaper.go:107, 125-139).
ReviewedWithinLimits ==
  \A w \in Wallpapers : row[w].status \in Reviewed =>
    LET v == row[w].probed IN
    /\ v \in Videos
    /\ VideoInfo[v].size <= MaxFileSize
    /\ VideoInfo[v].duration <= MaxDuration
    /\ VideoInfo[v].height >= MinHeight
    /\ VideoInfo[v].format \in {"h264", "h265"}

\* A Finalize that failed at any call, or died with the process, left the
\* row as Create made it, so that it can be retried from the start: a pending
\* row has no metadata, no derived keys, no reason, no downloads.
PendingUntouched ==
  \A w \in Wallpapers : row[w].status = "pending" =>
    /\ row[w].probed = NoVideo
    /\ row[w].keys = "empty" /\ row[w].reason = "null"
    /\ row[w].downloads = 0

\* The copy of the upload (up to MaxFileSize bytes of disk) is removed on
\* every way out of Finalize; only a killed process leaves one behind
\* (service/wallpaper.go:53, 110, 117).
VideoFileReclaimed == "video" \in litter => crashes > 0

\* Statuses change in one direction only, overlapping requests or not: into
\* the table as pending, out of pending through review, and never from a
\* reviewed status back to pending.
ReviewOrder ==
  [][\A w \in Wallpapers :
       LET before == row[w].status
           after  == row'[w].status
       IN  /\ before = "absent" => after \in {"absent", "pending"}
           /\ before = "pending" => after \in {"pending", "pending_review"}
           /\ before \in Reviewed => after \in Reviewed]_row

-----------------------------------------------------------------------------
(* The inductive invariant behind the properties above.                    *)

\* What is known about the row and the objects of w, apart from requests: an
\* original is only there once a URL was handed out, and by then the row has
\* its final key.
RowInv(w) ==
  /\ row[w].status = "absent" => row[w] = NoRow
  /\ store[w].original # NoVideo => uploadUrl[w] # "none"
  /\ uploadUrl[w] # "none" => row[w].status # "absent" /\ row[w].storageKey = "byId"
  /\ row[w].status \in Reviewed =>
       /\ row[w].keys = "byId"
       /\ store[w].original # NoVideo
       /\ store[w].thumbnail # NoVideo
       /\ store[w].preview # NoVideo
       /\ row[w].probed # NoVideo
       /\ Accepted(row[w].probed)

\* What a request in flight can rely on when it makes its next call, however
\* long ago it read the row.
RequestInv(r) ==
  LET q == request[r] IN
  /\ q.step # "idle" => row[q.wp].status # "absent"
  /\ q.step = "create_url" => row[q.wp].storageKey = "byId"
  /\ q.step \in FinalizeSteps \ {"finalize_download"} =>
       q.video # NoVideo /\ store[q.wp].original # NoVideo
  /\ q.step \in FinalizeSteps \ {"finalize_download", "finalize_probe"} =>
       Accepted(q.video)
  /\ q.step \in {"finalize_preview", "finalize_update"} =>
       store[q.wp].thumbnail # NoVideo
  /\ q.step = "finalize_update" => store[q.wp].preview # NoVideo
  /\ q.step \in {"approve_update", "reject_update", "download_count"} =>
       row[q.wp].status \in Reviewed

\* The promise of the steps of this module, inductively: it implies
\* ReviewedServable and ReviewedWithinLimits.
IInv ==
  /\ \A w \in Wallpapers : RowInv(w)
  /\ \A r \in Requests : RequestInv(r)

-----------------------------------------------------------------------------
(* Properties the server has only while requests do not overlap            *)
(* (OneRequest), checked and proved for that case.                         *)

OneRequest == \A r, q \in Requests : r = q

\* The server implements the diagram of WallpaperLifecycle.tla.
Lifecycle == INSTANCE WallpaperLifecycle
               WITH status <- [w \in Wallpapers |-> row[w].status]

FollowsLifecycle == Lifecycle!Spec

\* A wallpaper carries a rejection reason exactly while it is rejected
\* (Reject sets the column, service/wallpaper.go:218; nothing clears it).
ReasonMeansRejected ==
  \A w \in Wallpapers : row[w].reason = "given" <=> row[w].status = "rejected"

\* After any number of failed attempts and new uploads in between, the
\* metadata, the thumbnail and the preview of a reviewed wallpaper describe
\* one and the same upload.
AssetsAgree ==
  \A w \in Wallpapers : row[w].status \in Reviewed =>
    /\ store[w].thumbnail = row[w].probed
    /\ store[w].preview = row[w].probed

\* The inductive invariant of that case: the status a request has read is
\* still the status of the row, and the objects a Finalize has put are still
\* those of its own video.
SerialInv ==
  \A r \in Requests :
    LET q == request[r] IN
    /\ q.step \in FinalizeSteps \cup {"create_key", "create_url"} =>
         row[q.wp].status = "pending"
    /\ q.step \in {"approve_update", "reject_update"} =>
         row[q.wp].status = "pending_review"
    /\ q.step \in {"finalize_preview", "finalize_update"} =>
         store[q.wp].thumbnail = q.video
    /\ q.step = "finalize_update" => store[q.wp].preview = q.video

-----------------------------------------------------------------------------
(* Properties the repository states and the server does not have.          *)

\* service/wallpaper.go:36: "Status transition enforced: pending ->
\* pending_review only."
FinalizeOnlyFromPending ==
  [][\A w \in Wallpapers :
       row'[w].status = "pending_review"
         => row[w].status \in {"pending", "pending_review"}]_row

=============================================================================
