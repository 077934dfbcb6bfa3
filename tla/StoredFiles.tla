----------------------------- MODULE StoredFiles -----------------------------
(* Files of one account in Uploadthing's storage against the rows that name  *)
(* them: uploads that are listed (lib/uploadthing.ts imageUploader,          *)
(* actions/uploads.ts), the avatar (avatarUploader, actions/avatar.ts), and  *)
(* the purge that follows the deletion of the account (packages/auth         *)
(* deleteUser, the delete-uploads job). Storage and database fail apart, and *)
(* Uploadthing calls back until it is answered.                              *)
EXTENDS Naturals, FiniteSets

CONSTANTS File, None, MaxFaults     \* faults of storage, network and process (bound)

VARIABLES
  stored,      \* files in storage
  kind,        \* what a file was uploaded as
  callback,    \* Uploadthing's completion callback of a file
  row,         \* files with a row in uploads
  image,       \* the file user.image names
  swap,        \* per file, its avatar callback between its steps
  removal,     \* removeUserAvatar between its steps
  deletion,    \* per file, deleteUpload between its steps
  account,     \* "live", "closing" between the two hooks, "deleted"
  keys,        \* pendingUploadKeys of the account
  owed,        \* keys in the delete-uploads job; None when there is no job
  faults,
  excused      \* files whose callback came again or too late, or whose deletion was cut short (ghost)

avatar == <<image, swap, removal>>
closing == <<account, keys, owed>>
vars == <<stored, kind, callback, row, image, swap, removal, deletion, account, keys, owed, faults, excused>>

Idle == [at |-> "idle", prev |-> None]
At(step, prev) == [at |-> step, prev |-> prev]

Init ==
  /\ stored = {} /\ row = {} /\ image = None
  /\ kind = [f \in File |-> "new"] /\ callback = [f \in File |-> "none"]
  /\ swap = [f \in File |-> Idle] /\ removal = Idle
  /\ deletion = [f \in File |-> "idle"]
  /\ account = "live" /\ keys = {} /\ owed = {}
  /\ faults = 0 /\ excused = {}

Fault == faults < MaxFaults /\ faults' = faults + 1

\* The middleware lets a signed-in user upload; the browser sends the file.
Upload(f, as) ==
  /\ account = "live" /\ kind[f] = "new"
  /\ kind' = [kind EXCEPT ![f] = as]
  /\ stored' = stored \cup {f}
  /\ callback' = [callback EXCEPT ![f] = "due"]
  /\ UNCHANGED <<row, avatar, deletion, closing, faults, excused>>

\* Between the hooks of a deletion a row is too late for the capture.
Late(f) == IF account = "closing" /\ kind[f] = "upload" THEN {f} ELSE {}

\* A callback is over, or its answer is lost and it will come again.
Answered(f) ==
  \/ /\ callback' = [callback EXCEPT ![f] = "answered"]
     /\ excused' = excused \cup Late(f) /\ UNCHANGED faults
  \/ Fault /\ excused' = excused \cup {f} /\ UNCHANGED callback

\* imageUploader.onUploadComplete: an upsert by key. Without its user it is
\* refused, and the callback stays due.
ImageUploaded(f) ==
  /\ callback[f] = "due" /\ kind[f] = "upload" /\ account # "deleted"
  /\ row' = row \cup {f}
  /\ Answered(f)
  /\ UNCHANGED <<stored, kind, avatar, deletion, closing>>

\* avatarUploader.onUploadComplete, first query.
AvatarRead(f) ==
  /\ callback[f] = "due" /\ kind[f] = "avatar" /\ swap[f] = Idle
  /\ swap' = [swap EXCEPT ![f] = At("write", image)]
  /\ UNCHANGED <<stored, kind, callback, row, image, removal, deletion, closing, faults, excused>>

\* The update, of no row once the account is gone.
AvatarWrite(f) ==
  /\ swap[f].at = "write"
  /\ image' = IF account = "deleted" THEN None ELSE f
  /\ swap' = [swap EXCEPT ![f].at = "clean"]
  /\ UNCHANGED <<stored, kind, callback, row, removal, deletion, closing, faults, excused>>

\* The replaced file is deleted; a failure is logged and left.
AvatarClean(f) ==
  /\ swap[f].at = "clean"
  /\ swap' = [swap EXCEPT ![f] = Idle]
  /\ \/ stored' = stored \ ({swap[f].prev} \ {f}) /\ Answered(f)
     \/ Fault /\ callback' = [callback EXCEPT ![f] = "answered"] /\ UNCHANGED <<stored, excused>>
  /\ UNCHANGED <<kind, row, image, removal, deletion, closing>>

\* removeUserAvatar: nothing to do without one.
RemoveRead ==
  /\ account = "live" /\ removal = Idle /\ image # None
  /\ removal' = At("write", image)
  /\ UNCHANGED <<stored, kind, callback, row, image, swap, deletion, closing, faults, excused>>

RemoveWrite ==
  /\ removal.at = "write"
  /\ image' = None
  /\ removal' = [removal EXCEPT !.at = "clean"]
  /\ UNCHANGED <<stored, kind, callback, row, swap, deletion, closing, faults, excused>>

RemoveClean ==
  /\ removal.at = "clean"
  /\ removal' = Idle
  /\ \/ stored' = stored \ {removal.prev} /\ UNCHANGED faults
     \/ Fault /\ UNCHANGED stored
  /\ UNCHANGED <<kind, callback, row, image, swap, deletion, closing, excused>>

DeleteRead(f) ==
  /\ account = "live" /\ f \in row /\ deletion[f] = "idle"
  /\ deletion' = [deletion EXCEPT ![f] = "remote"]
  /\ UNCHANGED <<stored, kind, callback, row, avatar, closing, faults, excused>>

\* A variation: a failed remote deletion does not stop the local one.
DeleteRemoteAnyway(f) ==
  /\ deletion[f] = "remote"
  /\ deletion' = [deletion EXCEPT ![f] = "row"]
  /\ \/ stored' = stored \ {f} /\ UNCHANGED faults
     \/ Fault /\ UNCHANGED stored
  /\ UNCHANGED <<kind, callback, row, avatar, closing, excused>>

\* deleteUpload: the file first; when that fails the row stays.
DeleteRemote(f) ==
  /\ deletion[f] = "remote"
  /\ \/ stored' = stored \ {f} /\ deletion' = [deletion EXCEPT ![f] = "row"] /\ UNCHANGED faults
     \/ Fault /\ deletion' = [deletion EXCEPT ![f] = "idle"] /\ UNCHANGED stored
  /\ UNCHANGED <<kind, callback, row, avatar, closing, excused>>

DeleteRow(f) ==
  /\ deletion[f] = "row"
  /\ deletion' = [deletion EXCEPT ![f] = "idle"]
  /\ \/ row' = row \ {f} /\ UNCHANGED <<faults, excused>>
     \/ Fault /\ excused' = excused \cup {f} /\ UNCHANGED row
  /\ UNCHANGED <<stored, kind, callback, avatar, closing>>

\* beforeDelete: the keys are read while the rows exist. A read that fails, or
\* finds nothing, leaves what an earlier attempt has captured.
Capture ==
  /\ account = "live"
  /\ account' = "closing"
  /\ \/ keys' = (IF row = {} THEN keys ELSE row) /\ UNCHANGED <<faults, excused>>
     \/ Fault /\ excused' = excused \cup row /\ UNCHANGED keys
  /\ UNCHANGED <<stored, kind, callback, row, avatar, deletion, owed>>

DeletionFails ==
  /\ account = "closing" /\ Fault
  /\ account' = "live"
  /\ UNCHANGED <<stored, kind, callback, row, avatar, deletion, keys, owed, excused>>

\* The user row goes, its uploads with it; afterDelete enqueues the job, and an
\* enqueue that fails is logged and forgotten.
AccountDeleted ==
  /\ account = "closing"
  /\ account' = "deleted"
  /\ row' = {} /\ image' = None /\ keys' = {}
  /\ \/ owed' = keys /\ UNCHANGED <<faults, excused>>
     \/ Fault /\ owed' = {} /\ excused' = excused \cup keys
  /\ UNCHANGED <<stored, kind, callback, swap, removal, deletion>>

\* handleDeleteUploads, retried by the queue until it is done.
PurgeFiles ==
  /\ owed # {}
  /\ stored' = stored \ owed /\ owed' = {}
  /\ UNCHANGED <<kind, callback, row, avatar, deletion, account, keys, faults, excused>>

Next ==
  \/ \E f \in File, as \in {"upload", "avatar"} : Upload(f, as)
  \/ \E f \in File : \/ ImageUploaded(f) \/ AvatarRead(f) \/ AvatarWrite(f) \/ AvatarClean(f)
                     \/ DeleteRead(f) \/ DeleteRemote(f) \/ DeleteRow(f)
  \/ RemoveRead \/ RemoveWrite \/ RemoveClean
  \/ Capture \/ DeletionFails \/ AccountDeleted \/ PurgeFiles

Spec == Init /\ [][Next]_vars

-----------------------------------------------------------------------------
(* Every variable stays in its domain.                                       *)
TypeOK ==
  /\ stored \subseteq File /\ row \subseteq File /\ excused \subseteq File
  /\ kind \in [File -> {"new", "upload", "avatar"}]
  /\ callback \in [File -> {"none", "due", "answered"}]
  /\ image \in File \cup {None}
  /\ \A f \in File : deletion[f] \in {"idle", "remote", "row"} /\ swap[f].at \in {"idle", "write", "clean"}
  /\ account \in {"live", "closing", "deleted"} /\ keys \subseteq File /\ owed \subseteq File
  /\ faults \in 0..MaxFaults

(* actions/uploads.ts:22-24, "no silently orphaned files": while the account *)
(* lives, an upload whose callback was answered is in storage only with a    *)
(* row that lets its owner delete it.                                        *)
ServedIsListed ==
  \A f \in stored : kind[f] = "upload" /\ callback[f] = "answered" /\ account = "live" => f \in row

(* And a row names a file that is there, unless its owner is deleting it, a  *)
(* deletion stopped halfway or a callback came again after it. Above all, a  *)
(* deletion of the account that fails between its hooks purges nothing.      *)
ListedIsServed == \A f \in row : f \in stored \/ deletion[f] = "row" \/ f \in excused

(* The avatar shown is a file that is there, whatever uploads and removals   *)
(* overlap, as long as no callback is repeated.                              *)
AvatarIsServed == image = None \/ image \in stored \/ excused # {}

(* Once the job of a deleted account has run, storage holds no file it       *)
(* listed: what stays came too late for the capture or escaped it.           *)
PurgedWithTheAccount ==
  account = "deleted" /\ owed = {} =>
    \A f \in stored : kind[f] = "upload" => callback[f] = "due" \/ f \in excused
-----------------------------------------------------------------------------
(* Why these hold: the parts of the invariant every step keeps.              *)
Bounds == None \notin File /\ MaxFaults \in Nat

StepsAreTyped ==
  /\ swap \in [File -> [at : {"idle", "write", "clean"}, prev : File \cup {None}]]
  /\ removal \in [at : {"idle", "write", "clean"}, prev : File \cup {None}]
  /\ deletion \in [File -> {"idle", "remote", "row"}]

\* The avatar, or one an upload or a removal has read as the avatar.
BeenAvatar(f) == image = f \/ removal.prev = f \/ \E g \in File : swap[g].prev = f

\* What a file was uploaded as decides where it can turn up.
KindsAreApart ==
  \A f \in File :
    /\ kind[f] = "new" <=> callback[f] = "none"
    /\ f \in stored => kind[f] # "new"
    /\ f \in row \cup keys \cup owed \/ deletion[f] # "idle" => kind[f] = "upload"
    /\ BeenAvatar(f) => kind[f] = "avatar"
    /\ swap[f].at # "idle" => kind[f] = "avatar" /\ callback[f] = "due"

\* Only a deleted account owes a purge, and then nothing of it is left.
DeletedOwes ==
  /\ account # "deleted" => owed = {}
  /\ account = "deleted" => row = {} /\ image = None

\* A callback that is due has not been here before, or is excused.
DueIsFirst ==
  \A f \in File :
    kind[f] = "upload" /\ callback[f] = "due"
      /\ (f \notin stored \/ f \in row \cup keys \cup owed \/ deletion[f] # "idle") => f \in excused

\* A file served after its callback is listed, captured or owed, as the deletion of the
\* account goes on.
ServedIsKnown ==
  \A f \in stored :
    kind[f] = "upload" /\ callback[f] = "answered" =>
      /\ account # "deleted" => f \in row
      /\ account = "closing" => f \in keys \cup excused
      /\ account = "deleted" => f \in owed \cup excused

\* No file that was replaced is, or becomes, the avatar again.
AvatarsMoveOn ==
  excused = {} =>
    /\ image # None => image \in stored
    /\ \A f \in File : kind[f] = "avatar" /\ callback[f] = "due" /\ swap[f].at # "clean"
                       => f \in stored /\ ~BeenAvatar(f)
    /\ \A f \in File : swap[f].at = "clean" /\ image # None => image # swap[f].prev
    /\ removal.at = "clean" /\ image # None => image # removal.prev

FilesInv ==
  /\ TypeOK /\ StepsAreTyped /\ KindsAreApart /\ DeletedOwes /\ DueIsFirst
  /\ \A f \in File : deletion[f] = "row" => f \notin stored
  /\ ListedIsServed /\ ServedIsKnown /\ AvatarsMoveOn
=============================================================================
