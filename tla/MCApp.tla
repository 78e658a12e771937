-------------------------------- MODULE MCApp --------------------------------
(***************************************************************************)
(* Instances of Browse and LocalData for TLC: the views of the application  *)
(* and its files.  They share no variable, and a behaviour looks at one    *)
(* view or uses one part of the files.                                     *)
(***************************************************************************)
EXTENDS Browse, LocalData, TLC

CONSTANTS c1, c2

Row(status, category, title) ==
  [status |-> status, category |-> category, title |-> title,
   downloads |-> 0, thumbnail |-> status # "pending"]

\* Two approved wallpapers, one of them without a category, and one that
\* waits for a review; favorites of all three or of none.
MCWallpapers ==
  <<Row("approved", "nature", "lake"), Row("pending_review", "nature", "hill"),
    Row("approved", NoCategory, "hill")>>

MCTables ==
  {[wallpapers |-> MCWallpapers, favorites |-> <<3, 1, 0>>, users |-> <<"ann">>,
    reports |-> <<[wallpaper |-> 1, status |-> "pending"], [wallpaper |-> 2, status |-> "pending"]>>],
   [wallpapers |-> <<Row("approved", "city", "lake"), Row("pending", "nature", "hill")>>,
    favorites |-> <<0, 0, 0>>, users |-> <<"ann", "bob">>, reports |-> <<>>]}

\* The standard values, a maximum below the page that views ask for, and a
\* maximum below the default.
MCEnvs ==
  {[default |-> Unset, max |-> Unset], [default |-> 0, max |-> 0], [default |-> 2, max |-> 1]}

\* Without a view the server's tables do not matter: one choice of them will do.
AppInit ==
  /\ Init /\ LocalInit
  /\ view = "none" <=> part # "none"
  /\ view = "none" => /\ Len(users) = 1
                      /\ cfg = Load([default |-> Unset, max |-> Unset])

AppNext == \/ Next /\ UNCHANGED localVars
           \/ LocalNext /\ UNCHANGED vars

AppSpec == AppInit /\ [][AppNext]_<<vars, localVars>>

CallSymmetry == Permutations({c1, c2})

=============================================================================
