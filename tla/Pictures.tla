------------------------------- MODULE Pictures -------------------------------
(***************************************************************************)
(* The picture of a user and the file behind it: the avatar in his row, or *)
(* the cover in the row of his preferences (app/admin/utils/avatar.py,     *)
(* user_service.py, user_preference_service.py).  A picture that a client  *)
(* sends is written to a file of its own before the row names it, and the  *)
(* file of the picture before it is removed before the row is committed.   *)
(***************************************************************************)
EXTENDS FiniteSets

CONSTANTS
  Savers,    \* requests; the file that one writes has its name
  First,     \* the file of the picture there is at the start
  Elsewhere, \* a URL that is not a file here
  Blank,     \* no picture
  NoUser     \* no row

ASSUME PicturesAssumption ==
  /\ First \notin Savers /\ Blank # NoUser /\ Elsewhere # NoUser
  /\ {Elsewhere, Blank, NoUser, "new", "empty", "null"} \cap (Savers \cup {First}) = {}
  /\ {Elsewhere, Blank, NoUser} \cap {"new", "empty", "null"} = {}

VARIABLES
  kind,    \* which of the two columns this is about; never changes
  column,  \* the column, as committed
  onDisk,  \* the files there are
  saving,  \* saving[v]: the step of request v, its operation, what the client sent, the
           \* picture before it, whether it found a row, and what it puts into the column
  undone,  \* history: a request failed that had removed a file
  misled,  \* history: a client sent back the URL of a picture others were changing
  picturesCrowded, \* history: two requests overlapped
  litter   \* history: a file may have been left: a failure, a deletion, an edit to null

pictureVars == <<kind, column, onDisk, saving, undone, misled, picturesCrowded, litter>>

Files == Savers \cup {First}
IdleJob == [step |-> "new", op |-> "none", sent |-> Blank, old |-> Blank, found |-> FALSE,
            put |-> Blank]

\* What a client may send: a new picture, the URL of one there is or of one
\* elsewhere, an empty string, or for an edit and the preferences null.
Sent == Files \cup {"new", Elsewhere, "empty", "null"}
Operations(k) ==
  IF k = "avatar" THEN {"me", "edit", "create", "deluser"} ELSE {"prefs"}

PictureTypeOK ==
  /\ kind \in {"avatar", "cover"} /\ column \in Files \cup {Elsewhere, Blank, NoUser}
  /\ onDisk \subseteq Files
  /\ \A v \in Savers :
       /\ saving[v].step \in {"new", "save", "find", "write", "remove", "commit", "done", "failed"}
       /\ saving[v].sent \in Sent \cup {Blank} /\ saving[v].old \in Files \cup {Elsewhere, Blank, NoUser}
       /\ saving[v].put \in Files \cup {Elsewhere, Blank, NoUser}
  /\ {undone, misled, picturesCrowded, litter} \subseteq BOOLEAN

PictureInit ==
  /\ kind \in {"avatar", "cover"} /\ column \in {First, Blank, NoUser}
  /\ onDisk = {column} \cap {First}
  /\ saving = [v \in Savers |-> IdleJob]
  /\ undone = FALSE /\ misled = FALSE /\ picturesCrowded = FALSE /\ litter = FALSE

Pending == {v \in Savers : saving[v].step \notin {"new", "done", "failed"}}
JobIs(v, w) ==
  saving' = [saving EXCEPT ![v] =
            IF w.step \in {"done", "failed"} THEN [IdleJob EXCEPT !.step = w.step] ELSE w]
SameHistory == UNCHANGED <<kind, undone, misled, picturesCrowded>>

\* process_avatar_input: a new picture becomes a file; a URL is kept.
Processed(v, sent) ==
  CASE sent = "new"               -> v
    [] sent \in {"empty", "null"} -> Blank
    [] OTHER                      -> sent
Written(v, sent) == IF sent = "new" THEN {v} ELSE {}

-----------------------------------------------------------------------------

\* The picture before is read.  update_avatar and save_preferences process the
\* input at once; update looks for the name and the roles first, and does not
\* find a user without a row.  A picture that is none is refused.
AskPicture(v, op, sent) ==
  LET w == [step |-> IF op = "prefs" THEN "find" ELSE "write", op |-> op, sent |-> sent,
            old |-> column, found |-> column # NoUser, put |-> Processed(v, sent)]
  IN  /\ saving[v].step = "new" /\ op \in Operations(kind) /\ (sent \in Files => sent \in onDisk)
      /\ picturesCrowded' = (picturesCrowded \/ Pending # {})
      /\ misled' = (misled \/ (sent \in Files /\ (sent # column \/ Pending # {}))
                           \/ \E q \in Pending : saving[q].sent \in Files)
      /\ \/ op = "edit" /\ column = NoUser /\ JobIs(v, [w EXCEPT !.step = "failed"])
            /\ UNCHANGED <<onDisk, litter>>
         \/ op = "edit" /\ column # NoUser /\ JobIs(v, [w EXCEPT !.step = "save"])
            /\ UNCHANGED <<onDisk, litter>>
         \/ op # "edit" /\ JobIs(v, w) /\ onDisk' = onDisk \cup Written(v, sent)
            /\ litter' = (litter \/ op = "deluser")
      /\ UNCHANGED <<kind, column, undone>>

\* The picture of an edit is written.
SavePicture(v) ==
  LET w == saving[v]
  IN  /\ w.step = "save"
      /\ JobIs(v, [w EXCEPT !.step = "write"])
      /\ onDisk' = onDisk \cup Written(v, w.sent)
      /\ litter' = (litter \/ w.sent = "null")
      /\ SameHistory /\ UNCHANGED column

\* upsert reads the row again: one that the session has already stays as it was
\* read.  Without a cover, or with the same one, the column is not written.
FindPreferences(v) ==
  LET w == saving[v]
      seen == IF w.found THEN w.old ELSE column
      put == IF w.sent = "null" \/ w.put = seen THEN NoUser ELSE w.put
  IN  /\ w.step = "find"
      /\ JobIs(v, [w EXCEPT !.step = "write", !.found = seen # NoUser,
                            !.put = IF w.found \/ seen # NoUser THEN put ELSE w.put])
      /\ SameHistory /\ UNCHANGED <<column, onDisk, litter>>

LockedRow == \E v \in Savers : saving[v].step \in {"remove", "commit"} /\ saving[v].put # NoUser

\* UPDATE, INSERT or DELETE, once nobody else holds the row.  An INSERT fails when
\* there is one by then, an UPDATE without a row changes none.
WritePicture(v) ==
  LET w == saving[v]
      inserts == w.op = "create" \/ (w.op = "prefs" /\ ~w.found)
      gone == ~inserts /\ column = NoUser
  IN  /\ w.step = "write" /\ ~LockedRow
      /\ JobIs(v, CASE inserts /\ column # NoUser -> [w EXCEPT !.step = "failed"]
                    [] inserts /\ column = NoUser -> [w EXCEPT !.step = "commit"]
                    [] gone                       -> [w EXCEPT !.step = "failed"]
                    [] w.op = "deluser" /\ ~gone  -> [w EXCEPT !.step = "commit"]
                    [] OTHER                      -> [w EXCEPT !.step = "remove"])
      /\ litter' = (litter \/ gone \/ (inserts /\ column # NoUser))
      /\ SameHistory /\ UNCHANGED <<column, onDisk>>

\* What the column has for this request: what it put there, or what it reads.
Shown(w) == IF w.put = NoUser THEN column ELSE w.put

\* remove_upload_file_if_local: the file of the picture before goes, when it is a
\* file here and another one than the column has.  An edit to null does not look.
RemoveOld(v) ==
  LET w == saving[v]
  IN  /\ w.step = "remove"
      /\ JobIs(v, [w EXCEPT !.step = "commit"])
      /\ onDisk' = IF w.old # Shown(w) /\ ~(w.op = "edit" /\ w.sent = "null")
                 THEN onDisk \ {w.old} ELSE onDisk
      /\ SameHistory /\ UNCHANGED <<column, litter>>

CommitPicture(v) ==
  LET w == saving[v]
  IN  /\ w.step = "commit"
      /\ column' = CASE w.op = "deluser" -> NoUser
                     [] w.put = NoUser   -> column
                     [] OTHER            -> w.put
      /\ JobIs(v, [w EXCEPT !.step = "done"])
      /\ SameHistory /\ UNCHANGED <<onDisk, litter>>

\* The database or the process fails: nothing is committed.
JobFails(v) ==
  /\ v \in Pending /\ JobIs(v, [saving[v] EXCEPT !.step = "failed"])
  /\ undone' = (undone \/ saving[v].step = "commit") /\ litter' = TRUE
  /\ UNCHANGED <<kind, column, onDisk, misled, picturesCrowded>>

PictureNext ==
  \E v \in Savers :
    \/ \E sent \in Sent : AskPicture(v, "prefs", sent) \/ AskPicture(v, "edit", sent)
    \/ \E sent \in Sent \ {"null"} :
         AskPicture(v, "me", sent) \/ (column = NoUser /\ AskPicture(v, "create", sent))
    \/ column # NoUser /\ AskPicture(v, "deluser", "empty")
    \/ SavePicture(v) \/ FindPreferences(v) \/ WritePicture(v) \/ RemoveOld(v)
    \/ CommitPicture(v) \/ JobFails(v)

PictureSpec == PictureInit /\ [][PictureNext]_pictureVars

-----------------------------------------------------------------------------
(* Properties.                                                              *)

\* The column names a file there is, however changes overlap, while nobody is
\* about to replace it: unless a request failed that had removed a file, or a
\* client sent back the URL of a picture that was being changed.
NamesAFile == column \in Files /\ ~LockedRow /\ ~undone /\ ~misled => column \in onDisk

\* Requests that neither overlap nor fail leave no file but the one that the
\* column names; deletions of users and edits to null may.
NoLeftovers == Pending = {} /\ ~picturesCrowded /\ ~litter /\ ~misled => onDisk \subseteq {column}

PicturesKept == NamesAFile /\ NoLeftovers

=============================================================================
