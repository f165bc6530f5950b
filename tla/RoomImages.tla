------------------------------- MODULE RoomImages -------------------------------
(***************************************************************************)
(* Room photos: the imageUrl column of Room and the files on the uploads   *)
(* volume.  Three handlers touch both, setRoomImage, removeRoomImage and   *)
(* deleteRoom: each reads the row, changes it in a later statement and     *)
(* then unlinks the file it read at first.  No transaction spans a row and *)
(* a file.                                                                 *)
(***************************************************************************)
EXTENDS FiniteSets

CONSTANTS
    Rooms,   \* the room ids clients send, of rows that exist or not
    Files,   \* the file names randomUUID may give
    Reqs,    \* request slots
    Faults   \* whether queries and unlinks fail and the process crashes

CONSTANTS NoPhoto, NoRow   \* a row without imageUrl, and no row at all

ASSUME RoomImagesAssumption ==
    /\ Faults \in BOOLEAN
    /\ NoPhoto \notin Files
    /\ NoRow \notin Files
    /\ NoPhoto # NoRow

VARIABLES
    photo,   \* imageUrl of each room
    disk,    \* the files in ROOM_IMAGES_DIR
    audit,   \* the AuditLog rows of these operations
    pc,      \* what each request waits for
    job,     \* the locals of each request
    used,    \* history: the names given out so far
    shown,   \* history: the files that were some room's photo
    trouble  \* history: "race" once two requests for one room were in
             \* flight, "fault" once a query or an unlink failed or a crash

vars == <<photo, disk, audit, pc, job, used, shown, trouble>>

ImageOps == {"setImage", "removeImage"}
RoomImageOps == ImageOps \cup {"deleteRoom"}

\* `mine' is the uploaded file, `old' is existing.imageUrl.
Job == [op : RoomImageOps, room : Rooms, mine : Files \cup {NoPhoto},
        old : Files \cup {NoPhoto}]
NoJob == [op |-> "none"]

QueryLabels == {"find", "count", "update", "unlink", "audit"}

RowExists(m) == photo[m] # NoRow

AuditOf(op) ==
    CASE op = "setImage" -> "ROOM_IMAGE_UPDATED"
      [] op = "removeImage" -> "ROOM_IMAGE_REMOVED"
      [] op = "deleteRoom" -> "ROOM_DELETED"

Init ==
    /\ photo \in [Rooms -> {NoPhoto, NoRow}]
    /\ disk = {}
    /\ audit = {}
    /\ pc = [r \in Reqs |-> "idle"]
    /\ job = [r \in Reqs |-> NoJob]
    /\ used = {}
    /\ shown = {}
    /\ trouble = {}

-------------------------------------------------------------------------------
Goto(r, label) == pc' = [pc EXCEPT ![r] = label] /\ UNCHANGED job

InFlight(r, m) == pc[r] # "idle" /\ job[r].room = m

Done(r) ==
    /\ pc' = [pc EXCEPT ![r] = "idle"]
    /\ job' = [job EXCEPT ![r] = NoJob]

Begin(r, label, op, m, file) ==
    /\ pc[r] = "idle"
    /\ trouble' = trouble \cup {"race" : q \in {p \in Reqs : InFlight(p, m)}}
    /\ pc' = [pc EXCEPT ![r] = label]
    /\ job' = [job EXCEPT ![r] = [op |-> op, room |-> m, mine |-> file, old |-> NoPhoto]]

\* Mutant of StartUpload: a name that was given out before may come again.
StartUploadNamesake(r) ==
    /\ \E m \in Rooms, f \in Files :
          /\ Begin(r, "upload", "setImage", m, f)
          /\ disk' = disk \cup {f}
          /\ used' = used \cup {f}
    /\ UNCHANGED <<photo, audit, shown>>

\* multer opens a file under a fresh name before any handler runs.
StartUpload(r) ==
    /\ \E m \in Rooms, f \in Files \ used :
          /\ Begin(r, "upload", "setImage", m, f)
          /\ disk' = disk \cup {f}
          /\ used' = used \cup {f}
    /\ UNCHANGED <<photo, audit, shown>>

\* The upload is complete, or over 5MB and multer removes it again.
EndUpload(r) ==
    /\ pc[r] = "upload"
    /\ \/ Goto(r, "find") /\ UNCHANGED disk
       \/ Done(r) /\ disk' = disk \ {job[r].mine}
    /\ UNCHANGED <<photo, audit, used, shown, trouble>>

StartOther(r) ==
    /\ \E m \in Rooms, op \in {"removeImage", "deleteRoom"} :
          Begin(r, "find", op, m, NoPhoto)
    /\ UNCHANGED <<photo, disk, audit, used, shown>>

\* getRoomById.  A 404 leaves the uploaded file where it is.
FindRow(r) ==
    /\ pc[r] = "find"
    /\ LET m == job[r].room
       IN  \/ /\ RowExists(m)
              /\ job' = [job EXCEPT ![r].old = photo[m]]
              /\ pc' = [pc EXCEPT ![r] =
                    IF job[r].op = "deleteRoom" THEN "count" ELSE "update"]
           \/ ~ RowExists(m) /\ Done(r)
    /\ UNCHANGED <<photo, disk, audit, used, shown, trouble>>

\* deleteRoom asks whether reservations stand in the way (Booking models
\* them; here either answer is possible).
CountReservations(r) ==
    /\ pc[r] = "count"
    /\ Goto(r, "update") \/ Done(r)
    /\ UNCHANGED <<photo, disk, audit, used, shown, trouble>>

\* room.update of imageUrl: an error when the row is gone.
UpdateRow(r) ==
    /\ pc[r] = "update"
    /\ job[r].op \in ImageOps
    /\ LET m == job[r].room
       IN  \/ /\ RowExists(m)
              /\ photo' = [photo EXCEPT ![m] = job[r].mine]
              /\ shown' = shown \cup (Files \cap {job[r].mine})
              /\ Goto(r, "unlink")
           \/ ~ RowExists(m) /\ Done(r) /\ UNCHANGED <<photo, shown>>
    /\ UNCHANGED <<disk, audit, used, trouble>>

\* room.delete: an error when the row is gone or the foreign key holds it.
DeleteRow(r) ==
    /\ pc[r] = "update"
    /\ job[r].op = "deleteRoom"
    /\ LET m == job[r].room
       IN  \/ /\ RowExists(m)
              /\ photo' = [photo EXCEPT ![m] = NoRow]
              /\ Goto(r, "unlink")
           \/ Done(r) /\ UNCHANGED photo
    /\ UNCHANGED <<disk, audit, used, shown, trouble>>

\* Mutant of Stale: the row is asked again which file to delete.
StaleNow(r) == photo[job[r].room]

\* Mutant of Stale: only a replaced file is deleted, not a removed one.
StaleOnReplace(r) == IF job[r].op = "setImage" THEN job[r].old ELSE NoPhoto

\* The file deleteRoomImageFile is called with: the one FindRow read.
Stale(r) == job[r].old

\* deleteRoomImageFile, best effort.
Unlink(r) ==
    /\ pc[r] = "unlink"
    /\ \/ disk' = disk \ {Stale(r)} /\ UNCHANGED trouble
       \/ Faults /\ trouble' = trouble \cup {"fault"} /\ UNCHANGED disk
    /\ Goto(r, "audit")
    /\ UNCHANGED <<photo, audit, used, shown>>

\* Mutant of Recorded: only the operations that leave a room are recorded.
RecordedUnlessDeleted(r) ==
    IF RowExists(job[r].room)
    THEN {[action |-> AuditOf(job[r].op), room |-> job[r].room]} ELSE {}

Recorded(r) == {[action |-> AuditOf(job[r].op), room |-> job[r].room]}

WriteAudit(r) ==
    /\ pc[r] = "audit"
    /\ audit' = audit \cup Recorded(r)
    /\ Done(r)
    /\ UNCHANGED <<photo, disk, used, shown, trouble>>

\* A query throws; at "unlink", the answer to a committed change is lost.
DbFails(r) ==
    /\ Faults
    /\ pc[r] \in QueryLabels
    /\ Done(r)
    /\ trouble' = trouble \cup {"fault"}
    /\ UNCHANGED <<photo, disk, audit, used, shown>>

\* The container restarts: the volume and the tables stay.
Crash ==
    /\ Faults
    /\ pc' = [r \in Reqs |-> "idle"]
    /\ job' = [r \in Reqs |-> NoJob]
    /\ trouble' = trouble \cup {"fault"}
    /\ UNCHANGED <<photo, disk, audit, used, shown>>

Next ==
    \/ \E r \in Reqs :
          \/ StartUpload(r) \/ EndUpload(r) \/ StartOther(r)
          \/ FindRow(r) \/ CountReservations(r) \/ UpdateRow(r) \/ DeleteRow(r)
          \/ Unlink(r) \/ WriteAudit(r) \/ DbFails(r)
    \/ Crash

Spec == Init /\ [][Next]_vars

-------------------------------------------------------------------------------
\* TYPE INVARIANT.  Rows hold a photo, none or are absent; a request in
\* flight has its locals, and an upload has its file.
TypeOK ==
    /\ photo \in [Rooms -> Files \cup {NoPhoto, NoRow}]
    /\ disk \subseteq used
    /\ used \subseteq Files
    /\ shown \subseteq Files
    /\ trouble \subseteq {"race", "fault"}
    /\ audit \subseteq [action : {AuditOf(op) : op \in RoomImageOps}, room : Rooms]
    /\ pc \in [Reqs -> QueryLabels \cup {"idle", "upload"}]
    /\ job \in [Reqs -> Job \cup {NoJob}]
    /\ \A r \in Reqs :
          /\ pc[r] = "idle" <=> job[r] = NoJob
          /\ pc[r] # "idle" => (job[r].mine \in Files <=> job[r].op = "setImage")
          /\ pc[r] = "upload" => job[r].op = "setImage"
          /\ pc[r] = "count" => job[r].op = "deleteRoom"

\* SAFETY.  No room shows a photo whose file is gone, although every handler
\* unlinks the file it read before its own change, while other handlers
\* replace, remove and delete, and whatever fails or crashes in between.
NoDanglingPhoto == \A m \in Rooms : photo[m] \in Files => photo[m] \in disk

\* Why it holds.  An upload on its way to its row is nobody's photo and
\* nobody's to unlink; photos are on disk and of one room each; and a file
\* that was read to be unlinked is never some other room's photo.
Uploading(r) == pc[r] \in {"upload", "find", "update"} /\ job[r].op = "setImage"

UploadsOK ==
    \A r \in Reqs : Uploading(r) =>
        /\ job[r].mine \in disk
        /\ \A m \in Rooms : photo[m] # job[r].mine
        /\ \A q \in Reqs : pc[q] # "idle" => job[q].old # job[r].mine
        /\ \A q \in Reqs \ {r} : Uploading(q) => job[q].mine # job[r].mine

PhotosOK ==
    /\ NoDanglingPhoto
    /\ \A m, n \in Rooms : m # n /\ photo[m] \in Files => photo[n] # photo[m]

OldFilesOK ==
    \A r \in Reqs : pc[r] # "idle" =>
        /\ {job[r].mine, job[r].old} \subseteq used \cup {NoPhoto}
        /\ pc[r] \in {"count", "update"} /\ job[r].old \in Files
              => \A m \in Rooms \ {job[r].room} : photo[m] # job[r].old
        /\ pc[r] = "unlink" /\ job[r].old \in Files
              => \A m \in Rooms : photo[m] # job[r].old

Quiet == \A r \in Reqs : pc[r] = "idle"

\* Once no request is in flight, a file that was a photo and is none is gone.
ReplacedFilesGone ==
    Quiet => \A f \in shown \cap disk : \E m \in Rooms : photo[m] = f

\* SAFETY.  "Replaces any existing image (old file is deleted)", as far as it
\* holds: a file is left over only if a fault got in the way or two requests
\* for one room were in flight, whatever goes on in other rooms.
LeftOverTakesTrouble == trouble = {} => ReplacedFilesGone

\* SAFETY.  Rule 6 for photos, however requests interleave: without a fault,
\* once no request is in flight a room with a photo has its
\* ROOM_IMAGE_UPDATED row and one that lost its photo has the row of the
\* request that took it.
PhotoChangesAudited ==
    Quiet /\ "fault" \notin trouble =>
        \A m \in Rooms :
            LET logged == {e.action : e \in {x \in audit : x.room = m}}
            IN  "ROOM_IMAGE_UPDATED" \in logged \/ photo[m] \in Files =>
                    CASE photo[m] \in Files -> "ROOM_IMAGE_UPDATED" \in logged
                      [] photo[m] = NoPhoto -> "ROOM_IMAGE_REMOVED" \in logged
                      [] photo[m] = NoRow -> "ROOM_DELETED" \in logged

\* REFINEMENT.  Whatever the handlers read before, and whatever fails, the
\* rows and the files change only as a curator with one gallery changes them.
Wall == INSTANCE Gallery

ImplementsGallery == Wall!Spec

===============================================================================
