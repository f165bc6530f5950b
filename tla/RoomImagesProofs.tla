---------------------------- MODULE RoomImagesProofs ----------------------------
(***************************************************************************)
(* Proofs about RoomImages, for any set of rooms, files and requests: type *)
(* correctness, and that no room ever shows a photo whose file is gone.    *)
(***************************************************************************)
EXTENDS RoomImages, TLAPS

\* What the three ways to change a request's locals leave of TypeOK's last
\* three conjuncts.
RequestsOK ==
    /\ pc \in [Reqs -> QueryLabels \cup {"idle", "upload"}]
    /\ job \in [Reqs -> Job \cup {NoJob}]
    /\ \A r \in Reqs :
          /\ pc[r] = "idle" <=> job[r] = NoJob
          /\ pc[r] # "idle" => (job[r].mine \in Files <=> job[r].op = "setImage")
          /\ pc[r] = "upload" => job[r].op = "setImage"
          /\ pc[r] = "count" => job[r].op = "deleteRoom"

LEMMA NoJobIsNoJob == NoJob \notin Job
<1>1. \A j \in Job : j.op \in RoomImageOps
  BY DEF Job
<1>2. NoJob.op \notin RoomImageOps
  BY DEF NoJob, RoomImageOps, ImageOps
<1>3. QED BY <1>1, <1>2

LEMMA DoneTyped ==
    ASSUME RequestsOK, NEW r \in Reqs, Done(r)
    PROVE  RequestsOK'
  BY NoJobIsNoJob DEF RequestsOK, Done

LEMMA GotoTyped ==
    ASSUME RequestsOK, NEW r \in Reqs, NEW label \in QueryLabels, pc[r] # "idle",
           label # "count", Goto(r, label)
    PROVE  RequestsOK'
  BY DEF RequestsOK, Goto, QueryLabels

LEMMA BeginTyped ==
    ASSUME RequestsOK, RoomImagesAssumption, NEW r \in Reqs,
           NEW op \in RoomImageOps, NEW m \in Rooms, NEW file \in Files \cup {NoPhoto},
           NEW label \in {"upload", "find"},
           file \in Files <=> op = "setImage",
           label = "upload" => op = "setImage",
           Begin(r, label, op, m, file)
    PROVE  RequestsOK'
<1> DEFINE j == [op |-> op, room |-> m, mine |-> file, old |-> NoPhoto]
<1>1. j \in Job /\ j.op = op /\ j.mine = file
  BY DEF Job
<1>2. j # NoJob
  BY <1>1, NoJobIsNoJob
<1>3. job' = [job EXCEPT ![r] = j] /\ pc' = [pc EXCEPT ![r] = label]
  BY DEF Begin
<1>4. label # "idle" /\ label # "count" /\ label \in QueryLabels \cup {"idle", "upload"}
  BY DEF QueryLabels
<1> HIDE DEF j
<1>5. QED BY <1>1, <1>2, <1>3, <1>4 DEF RequestsOK

LEMMA TroubleTyped ==
    ASSUME TypeOK, [Next]_vars
    PROVE  trouble' \subseteq {"race", "fault"}
<1>1. trouble \subseteq {"race", "fault"}
  BY DEF TypeOK
<1>2. ASSUME NEW r \in Reqs, NEW label, NEW op, NEW m, NEW file, Begin(r, label, op, m, file)
      PROVE  trouble' \subseteq {"race", "fault"}
  <2>1. trouble' = trouble \cup {"race" : q \in {p \in Reqs : InFlight(p, m)}}
    BY <1>2 DEF Begin
  <2>2. \A x \in {"race" : q \in {p \in Reqs : InFlight(p, m)}} : x = "race"
    OBVIOUS
  <2>3. QED BY <1>1, <2>1, <2>2
<1>3. ASSUME NEW r \in Reqs, StartUpload(r) \/ StartOther(r)
      PROVE  trouble' \subseteq {"race", "fault"}
  BY <1>2, <1>3 DEF StartUpload, StartOther
<1>4. ASSUME NEW r \in Reqs, Unlink(r) \/ DbFails(r)
      PROVE  trouble' \subseteq {"race", "fault"}
  BY <1>1, <1>4 DEF Unlink, DbFails
<1>5. ASSUME NEW r \in Reqs,
             \/ EndUpload(r) \/ FindRow(r) \/ CountReservations(r)
             \/ UpdateRow(r) \/ DeleteRow(r) \/ WriteAudit(r)
      PROVE  trouble' \subseteq {"race", "fault"}
  BY <1>1, <1>5 DEF EndUpload, FindRow, CountReservations, UpdateRow, DeleteRow, WriteAudit
<1>6. CASE Crash
  BY <1>1, <1>6 DEF Crash
<1>7. CASE UNCHANGED vars
  BY <1>1, <1>7 DEF vars
<1>8. QED BY <1>3, <1>4, <1>5, <1>6, <1>7 DEF Next

\* Rows hold photos, and everything else has its type, whatever happens.
THEOREM TypeCorrect == Spec => []TypeOK
<1>1. Init => TypeOK
  BY NoJobIsNoJob DEF Init, TypeOK, QueryLabels
<1>2. TypeOK /\ [Next]_vars => TypeOK'
  <2> SUFFICES ASSUME TypeOK, [Next]_vars PROVE TypeOK'
    OBVIOUS
  <2>0. RequestsOK
    BY DEF TypeOK, RequestsOK
  <2> DEFINE Rest == /\ photo' \in [Rooms -> Files \cup {NoPhoto, NoRow}]
                     /\ disk' \subseteq used'
                     /\ used' \subseteq Files
                     /\ shown' \subseteq Files
                     /\ audit' \subseteq [action : {AuditOf(op) : op \in RoomImageOps},
                                          room : Rooms]
  <2> SUFFICES RequestsOK' /\ Rest
    BY TroubleTyped DEF TypeOK, RequestsOK
  <2>1. ASSUME NEW r \in Reqs, StartUpload(r) PROVE RequestsOK' /\ Rest
    <3>1. PICK m \in Rooms, f \in Files \ used :
                /\ Begin(r, "upload", "setImage", m, f)
                /\ disk' = disk \cup {f}
                /\ used' = used \cup {f}
      BY <2>1 DEF StartUpload
    <3>2. RequestsOK'
      BY <2>0, <3>1, BeginTyped, RoomImagesAssumption DEF RoomImageOps, ImageOps
    <3>3. QED BY <2>1, <3>1, <3>2 DEF StartUpload, TypeOK
  <2>2. ASSUME NEW r \in Reqs, EndUpload(r) PROVE RequestsOK' /\ Rest
    <3>1. RequestsOK'
      BY <2>0, <2>2, DoneTyped, GotoTyped DEF EndUpload, QueryLabels
    <3>2. QED BY <2>2, <3>1 DEF EndUpload, TypeOK
  <2>3. ASSUME NEW r \in Reqs, StartOther(r) PROVE RequestsOK' /\ Rest
    <3>1. PICK m \in Rooms, op \in {"removeImage", "deleteRoom"} :
                Begin(r, "find", op, m, NoPhoto)
      BY <2>3 DEF StartOther
    <3>2. RequestsOK'
      BY <2>0, <3>1, BeginTyped, RoomImagesAssumption DEF RoomImageOps, ImageOps
    <3>3. QED BY <2>3, <3>2 DEF StartOther, TypeOK
  <2>4. ASSUME NEW r \in Reqs, FindRow(r) PROVE RequestsOK' /\ Rest
    <3>1. CASE Done(r)
      BY <2>0, <2>4, <3>1, DoneTyped DEF FindRow, TypeOK
    <3>2. CASE ~ Done(r)
      <4> DEFINE m == job[r].room
                 j == [job[r] EXCEPT !.old = photo[m]]
                 label == IF job[r].op = "deleteRoom" THEN "count" ELSE "update"
      <4>1. pc[r] = "find" /\ job[r] \in Job
        BY <2>4 DEF FindRow, TypeOK
      <4>2. /\ RowExists(m)
            /\ job' = [job EXCEPT ![r] = j]
            /\ pc' = [pc EXCEPT ![r] = label]
        BY <2>4, <3>2 DEF FindRow
      <4>3. photo[m] \in Files \cup {NoPhoto}
        BY <4>1, <4>2 DEF TypeOK, Job, RowExists
      <4>4. j \in Job /\ j.op = job[r].op /\ j.mine = job[r].mine
        BY <4>1, <4>3 DEF Job
      <4>5. label \in QueryLabels /\ label # "idle" /\ label # "upload"
              /\ (label = "count" => job[r].op = "deleteRoom")
        BY DEF QueryLabels
      <4> HIDE DEF j, label
      <4>6. RequestsOK'
        BY <2>0, <4>1, <4>2, <4>4, <4>5, NoJobIsNoJob DEF RequestsOK
      <4>7. QED BY <2>4, <4>6 DEF FindRow, TypeOK
    <3>3. QED BY <3>1, <3>2
  <2>5. ASSUME NEW r \in Reqs, CountReservations(r) PROVE RequestsOK' /\ Rest
    <3>1. RequestsOK'
      BY <2>0, <2>5, DoneTyped, GotoTyped DEF CountReservations, QueryLabels
    <3>2. QED BY <2>5, <3>1 DEF CountReservations, TypeOK
  <2>6. ASSUME NEW r \in Reqs, UpdateRow(r) \/ DeleteRow(r) PROVE RequestsOK' /\ Rest
    <3>1. RequestsOK'
      BY <2>0, <2>6, DoneTyped, GotoTyped DEF UpdateRow, DeleteRow, QueryLabels
    <3>2. pc[r] # "idle" /\ job[r] \in Job
      BY <2>6 DEF UpdateRow, DeleteRow, TypeOK
    <3>3. job[r].mine \in Files \cup {NoPhoto}
      BY <3>2 DEF Job
    <3>4. QED
      BY <2>6, <3>1, <3>3 DEF UpdateRow, DeleteRow, TypeOK
  <2>7. ASSUME NEW r \in Reqs, Unlink(r) PROVE RequestsOK' /\ Rest
    <3>1. RequestsOK'
      BY <2>0, <2>7, GotoTyped DEF Unlink, QueryLabels
    <3>2. QED BY <2>7, <3>1 DEF Unlink, TypeOK
  <2>8. ASSUME NEW r \in Reqs, WriteAudit(r) PROVE RequestsOK' /\ Rest
    <3>1. RequestsOK'
      BY <2>0, <2>8, DoneTyped DEF WriteAudit
    <3>2. job[r] \in Job
      BY <2>8 DEF WriteAudit, TypeOK
    <3>3. Recorded(r) \subseteq [action : {AuditOf(op) : op \in RoomImageOps}, room : Rooms]
      BY <3>2 DEF Recorded, Job
    <3>4. QED BY <2>8, <3>1, <3>3 DEF WriteAudit, TypeOK
  <2>9. ASSUME NEW r \in Reqs, DbFails(r) PROVE RequestsOK' /\ Rest
    BY <2>0, <2>9, DoneTyped DEF DbFails, TypeOK
  <2>10. CASE Crash
    BY <2>0, <2>10 DEF Crash, RequestsOK, TypeOK
  <2>11. CASE UNCHANGED vars
    BY <2>0, <2>11 DEF vars, RequestsOK, TypeOK
  <2>12. QED
    BY <2>1, <2>2, <2>3, <2>4, <2>5, <2>6, <2>7, <2>8, <2>9, <2>10, <2>11 DEF Next
<1>3. QED BY <1>1, <1>2, PTL DEF Spec

-------------------------------------------------------------------------------
SafeInv == UploadsOK /\ PhotosOK /\ OldFilesOK

\* A request that ends leaves nothing to protect.
LEMMA DoneSafe ==
    ASSUME TypeOK, SafeInv, NEW r \in Reqs, Done(r), UNCHANGED <<photo, disk, used>>
    PROVE  SafeInv'
<1>1. /\ pc'[r] = "idle"
      /\ \A q \in Reqs \ {r} : pc'[q] = pc[q] /\ job'[q] = job[q]
  BY DEF Done, TypeOK
<1>2. \A q \in Reqs : Uploading(q)' => q # r /\ Uploading(q)
  BY <1>1 DEF Uploading
<1>3. UploadsOK'
  BY <1>1, <1>2 DEF SafeInv, UploadsOK
<1>4. PhotosOK'
  BY DEF SafeInv, PhotosOK, NoDanglingPhoto
<1>5. OldFilesOK'
  BY <1>1 DEF SafeInv, OldFilesOK
<1>6. QED BY <1>3, <1>4, <1>5 DEF SafeInv

\* A request that only moves on, not to the unlink, keeps what it had.
LEMMA GotoSafe ==
    ASSUME TypeOK, SafeInv, NEW r \in Reqs, NEW label, pc[r] # "idle",
           label # "unlink",
           label \in {"count", "update"} => pc[r] \in {"count", "update"},
           label \in {"upload", "find", "update"} =>
                pc[r] \in {"upload", "find", "update"} \/ job[r].op # "setImage",
           Goto(r, label), UNCHANGED <<photo, disk, used>>
    PROVE  SafeInv'
<1>1. /\ pc'[r] = label /\ job' = job
      /\ \A q \in Reqs \ {r} : pc'[q] = pc[q]
  BY DEF Goto, TypeOK
<1>2. \A q \in Reqs : Uploading(q)' => Uploading(q)
  BY <1>1 DEF Uploading
<1>3. \A q \in Reqs : pc'[q] # "idle" => pc[q] # "idle"
  BY <1>1
<1>4. UploadsOK'
  BY <1>1, <1>2, <1>3 DEF SafeInv, UploadsOK
<1>5. PhotosOK'
  BY DEF SafeInv, PhotosOK, NoDanglingPhoto
<1>6. OldFilesOK'
  BY <1>1, <1>3 DEF SafeInv, OldFilesOK
<1>7. QED BY <1>4, <1>5, <1>6 DEF SafeInv

\* A fresh name is nobody's photo, upload or old file.
LEMMA StartUploadSafe ==
    ASSUME RoomImagesAssumption, TypeOK, SafeInv, NEW r \in Reqs, StartUpload(r)
    PROVE  SafeInv'
<1>1. PICK m \in Rooms, f \in Files \ used :
            /\ Begin(r, "upload", "setImage", m, f)
            /\ disk' = disk \cup {f}
            /\ used' = used \cup {f}
  BY DEF StartUpload
<1>2. photo' = photo
  BY DEF StartUpload
<1>3. /\ pc[r] = "idle" /\ pc'[r] = "upload"
      /\ job'[r].op = "setImage" /\ job'[r].mine = f /\ job'[r].old = NoPhoto
      /\ \A q \in Reqs \ {r} : pc'[q] = pc[q] /\ job'[q] = job[q]
  BY <1>1 DEF Begin, TypeOK
<1>4. f # NoPhoto /\ \A n \in Rooms : photo[n] # f
  BY RoomImagesAssumption DEF SafeInv, PhotosOK, NoDanglingPhoto, TypeOK
<1>5. \A q \in Reqs \ {r} : pc[q] # "idle" => job[q].mine # f /\ job[q].old # f
  BY <1>4 DEF SafeInv, OldFilesOK
<1>6. \A q \in Reqs \ {r} : Uploading(q)' => Uploading(q) /\ pc[q] # "idle"
  BY <1>3 DEF Uploading
<1>7. UploadsOK'
  <2> SUFFICES ASSUME NEW p \in Reqs, Uploading(p)'
               PROVE  /\ job'[p].mine \in disk'
                      /\ \A n \in Rooms : photo'[n] # job'[p].mine
                      /\ \A q \in Reqs : pc'[q] # "idle" => job'[q].old # job'[p].mine
                      /\ \A q \in Reqs \ {p} :
                            Uploading(q)' => job'[q].mine # job'[p].mine
    BY DEF UploadsOK
  <2>1. CASE p = r
    BY <2>1, <1>1, <1>2, <1>3, <1>4, <1>5, <1>6
  <2>2. CASE p # r
    <3>1. Uploading(p) /\ job'[p] = job[p] /\ job[p].mine # f
      BY <2>2, <1>3, <1>5, <1>6
    <3>2. job[p].mine # NoPhoto
      BY <3>1, RoomImagesAssumption DEF Uploading, TypeOK
    <3>3. QED BY <2>2, <3>1, <3>2, <1>1, <1>2, <1>3, <1>6 DEF SafeInv, UploadsOK
  <2>3. QED BY <2>1, <2>2
<1>8. PhotosOK'
  BY <1>1, <1>2 DEF SafeInv, PhotosOK, NoDanglingPhoto
<1>9. OldFilesOK'
  BY <1>1, <1>2, <1>3 DEF SafeInv, OldFilesOK
<1>10. QED BY <1>7, <1>8, <1>9 DEF SafeInv

\* A request without a file begins.
LEMMA StartOtherSafe ==
    ASSUME RoomImagesAssumption, TypeOK, SafeInv, NEW r \in Reqs, StartOther(r)
    PROVE  SafeInv'
<1>1. PICK m \in Rooms, op \in {"removeImage", "deleteRoom"} :
            Begin(r, "find", op, m, NoPhoto)
  BY DEF StartOther
<1>2. UNCHANGED <<photo, disk, used>>
  BY DEF StartOther
<1>3. /\ pc'[r] = "find"
      /\ job'[r].op # "setImage" /\ job'[r].mine = NoPhoto /\ job'[r].old = NoPhoto
      /\ \A q \in Reqs \ {r} : pc'[q] = pc[q] /\ job'[q] = job[q]
  BY <1>1 DEF Begin, TypeOK
<1>4. \A q \in Reqs : Uploading(q)' => q # r /\ Uploading(q)
  BY <1>3 DEF Uploading
<1>5. \A q \in Reqs : Uploading(q) => job[q].mine # NoPhoto
  BY RoomImagesAssumption DEF Uploading, TypeOK
<1>6. UploadsOK'
  BY <1>2, <1>3, <1>4, <1>5 DEF SafeInv, UploadsOK
<1>7. PhotosOK'
  BY <1>2 DEF SafeInv, PhotosOK, NoDanglingPhoto
<1>8. OldFilesOK'
  BY <1>2, <1>3, RoomImagesAssumption DEF SafeInv, OldFilesOK
<1>9. QED BY <1>6, <1>7, <1>8 DEF SafeInv

\* An upload that is refused takes only its own file away.
LEMMA EndUploadSafe ==
    ASSUME TypeOK, SafeInv, NEW r \in Reqs, EndUpload(r)
    PROVE  SafeInv'
<1>1. CASE Goto(r, "find") /\ UNCHANGED disk
  BY <1>1, GotoSafe DEF EndUpload
<1>2. CASE Done(r) /\ disk' = disk \ {job[r].mine}
  <2>1. Uploading(r)
    BY DEF EndUpload, Uploading, TypeOK
  <2>2. UNCHANGED <<photo, used>>
    BY DEF EndUpload
  <2>3. /\ pc'[r] = "idle"
        /\ \A q \in Reqs \ {r} : pc'[q] = pc[q] /\ job'[q] = job[q]
    BY <1>2 DEF Done, TypeOK
  <2>4. \A q \in Reqs : Uploading(q)' => q # r /\ Uploading(q)
    BY <2>3 DEF Uploading
  <2>5. UploadsOK'
    BY <1>2, <2>1, <2>2, <2>3, <2>4 DEF SafeInv, UploadsOK
  <2>6. PhotosOK'
    BY <1>2, <2>1, <2>2 DEF SafeInv, PhotosOK, NoDanglingPhoto, UploadsOK
  <2>7. OldFilesOK'
    BY <2>2, <2>3 DEF SafeInv, OldFilesOK
  <2>8. QED BY <2>5, <2>6, <2>7 DEF SafeInv
<1>3. QED BY <1>1, <1>2 DEF EndUpload

\* The photo that is read is of this room only, and no upload's file.
LEMMA FindRowSafe ==
    ASSUME RoomImagesAssumption, TypeOK, SafeInv, NEW r \in Reqs, FindRow(r)
    PROVE  SafeInv'
<1>1. CASE Done(r)
  BY <1>1, DoneSafe DEF FindRow
<1>2. CASE ~ Done(r)
  <2> DEFINE m == job[r].room
  <2>1. /\ pc[r] = "find" /\ job[r] \in Job /\ RowExists(m)
        /\ job' = [job EXCEPT ![r].old = photo[m]]
        /\ pc' = [pc EXCEPT ![r] = IF job[r].op = "deleteRoom" THEN "count" ELSE "update"]
        /\ UNCHANGED <<photo, disk, used>>
    BY <1>2 DEF FindRow, TypeOK
  <2>2. m \in Rooms /\ photo[m] \in Files \cup {NoPhoto}
    BY <2>1 DEF Job, TypeOK, RowExists
  <2>3. /\ job'[r].old = photo[m] /\ job'[r].op = job[r].op
        /\ job'[r].mine = job[r].mine /\ job'[r].room = m
        /\ pc'[r] \in {"count", "update"}
        /\ pc'[r] = "update" => job[r].op # "deleteRoom"
        /\ \A q \in Reqs \ {r} : pc'[q] = pc[q] /\ job'[q] = job[q]
    BY <2>1 DEF Job, TypeOK
  <2>4. \A q \in Reqs : /\ Uploading(q)' => Uploading(q)
                        /\ job'[q].mine = job[q].mine
                        /\ pc'[q] # "idle" => pc[q] # "idle"
    BY <2>1, <2>3 DEF Uploading
  <2>5. UploadsOK'
    BY <2>1, <2>2, <2>3, <2>4 DEF SafeInv, UploadsOK
  <2>6. PhotosOK'
    BY <2>1 DEF SafeInv, PhotosOK, NoDanglingPhoto
  <2>7. photo[m] \in used \cup {NoPhoto}
    BY <2>2 DEF SafeInv, PhotosOK, NoDanglingPhoto, TypeOK
  <2>8. photo[m] \in Files => \A n \in Rooms \ {m} : photo[n] # photo[m]
    BY <2>2 DEF SafeInv, PhotosOK
  <2>9. OldFilesOK'
    <3> SUFFICES ASSUME NEW q \in Reqs, pc'[q] # "idle"
                 PROVE  /\ {job'[q].mine, job'[q].old} \subseteq used \cup {NoPhoto}
                        /\ pc'[q] \in {"count", "update"} /\ job'[q].old \in Files =>
                              \A n \in Rooms \ {job'[q].room} : photo[n] # job'[q].old
                        /\ pc'[q] = "unlink" /\ job'[q].old \in Files =>
                              \A n \in Rooms : photo[n] # job'[q].old
      BY <2>1 DEF OldFilesOK
    <3>1. CASE q = r
      BY <3>1, <2>1, <2>3, <2>7, <2>8 DEF SafeInv, OldFilesOK
    <3>2. CASE q # r
      BY <3>2, <2>3 DEF SafeInv, OldFilesOK
    <3>3. QED BY <3>1, <3>2
  <2>10. QED BY <2>5, <2>6, <2>9 DEF SafeInv
<1>3. QED BY <1>1, <1>2

\* The row takes a file of its own and lets go of the old one for good.
LEMMA UpdateRowSafe ==
    ASSUME RoomImagesAssumption, TypeOK, SafeInv, NEW r \in Reqs, UpdateRow(r)
    PROVE  SafeInv'
<1>1. CASE Done(r) /\ UNCHANGED photo
  BY <1>1, DoneSafe DEF UpdateRow
<1>2. CASE ~ (Done(r) /\ UNCHANGED photo)
  <2> DEFINE m == job[r].room
             f == job[r].mine
  <2>1. /\ pc[r] = "update" /\ job[r] \in Job /\ job[r].op \in ImageOps
        /\ photo' = [photo EXCEPT ![m] = f]
        /\ Goto(r, "unlink")
        /\ UNCHANGED <<disk, used>>
    BY <1>2 DEF UpdateRow, TypeOK
  <2>2. m \in Rooms /\ f \in Files \cup {NoPhoto} /\ (f \in Files => Uploading(r))
    BY <2>1 DEF Job, TypeOK, Uploading
  <2>3. /\ job' = job /\ pc'[r] = "unlink"
        /\ \A q \in Reqs \ {r} : pc'[q] = pc[q]
    BY <2>1 DEF Goto, TypeOK
  <2>4. photo'[m] = f /\ \A n \in Rooms \ {m} : photo'[n] = photo[n]
    BY <2>1, <2>2 DEF TypeOK
  <2>5. \A q \in Reqs : Uploading(q)' => q # r /\ Uploading(q)
    BY <2>3 DEF Uploading
  <2>6. \A q \in Reqs : pc'[q] # "idle" => pc[q] # "idle"
    BY <2>1, <2>3
  <2>7. \A q \in Reqs : Uploading(q) => job[q].mine \in Files
    BY DEF Uploading, TypeOK
  <2>8. UploadsOK'
    <3> SUFFICES ASSUME NEW p \in Reqs, Uploading(p)'
                 PROVE  \A n \in Rooms : photo'[n] # job[p].mine
      BY <2>1, <2>3, <2>5, <2>6 DEF SafeInv, UploadsOK
    <3>1. f # job[p].mine
      BY <2>2, <2>5, <2>7, RoomImagesAssumption DEF SafeInv, UploadsOK
    <3>2. QED BY <3>1, <2>4, <2>5 DEF SafeInv, UploadsOK
  <2>9. PhotosOK'
    BY <2>1, <2>2, <2>4 DEF SafeInv, PhotosOK, NoDanglingPhoto, UploadsOK
  <2>10. OldFilesOK'
    <3> SUFFICES ASSUME NEW q \in Reqs, pc'[q] # "idle"
                 PROVE  /\ {job[q].mine, job[q].old} \subseteq used \cup {NoPhoto}
                        /\ pc'[q] \in {"count", "update"} /\ job[q].old \in Files =>
                              \A n \in Rooms \ {job[q].room} : photo'[n] # job[q].old
                        /\ pc'[q] = "unlink" /\ job[q].old \in Files =>
                              \A n \in Rooms : photo'[n] # job[q].old
      BY <2>1, <2>3 DEF OldFilesOK
    <3>1. job[q].old \in Files => f # job[q].old
      BY <2>2, <2>6, RoomImagesAssumption DEF SafeInv, UploadsOK
    <3>2. CASE q = r
      BY <3>1, <3>2, <2>1, <2>3, <2>4, <2>6 DEF SafeInv, OldFilesOK
    <3>3. CASE q # r
      BY <3>1, <3>3, <2>3, <2>4, <2>6 DEF SafeInv, OldFilesOK
    <3>4. QED BY <3>2, <3>3
  <2>11. QED BY <2>8, <2>9, <2>10 DEF SafeInv
<1>3. QED BY <1>1, <1>2

\* A row that goes takes no file of another room with it.
LEMMA DeleteRowSafe ==
    ASSUME RoomImagesAssumption, TypeOK, SafeInv, NEW r \in Reqs, DeleteRow(r)
    PROVE  SafeInv'
<1>1. CASE Done(r) /\ UNCHANGED photo
  BY <1>1, DoneSafe DEF DeleteRow
<1>2. CASE ~ (Done(r) /\ UNCHANGED photo)
  <2> DEFINE m == job[r].room
  <2>1. /\ pc[r] = "update" /\ job[r] \in Job /\ job[r].op = "deleteRoom"
        /\ photo' = [photo EXCEPT ![m] = NoRow]
        /\ Goto(r, "unlink")
        /\ UNCHANGED <<disk, used>>
    BY <1>2 DEF DeleteRow, TypeOK
  <2>2. m \in Rooms
    BY <2>1 DEF Job
  <2>3. /\ job' = job /\ pc'[r] = "unlink"
        /\ \A q \in Reqs \ {r} : pc'[q] = pc[q]
    BY <2>1 DEF Goto, TypeOK
  <2>4. photo'[m] = NoRow /\ \A n \in Rooms \ {m} : photo'[n] = photo[n]
    BY <2>1, <2>2 DEF TypeOK
  <2>5. \A q \in Reqs : Uploading(q)' => Uploading(q) /\ job[q].mine \in Files
    BY <2>3 DEF Uploading, TypeOK
  <2>6. \A q \in Reqs : pc'[q] # "idle" => pc[q] # "idle"
    BY <2>1, <2>3
  <2>7. UploadsOK'
    BY <2>1, <2>3, <2>4, <2>5, <2>6, RoomImagesAssumption DEF SafeInv, UploadsOK
  <2>8. PhotosOK'
    BY <2>1, <2>4, RoomImagesAssumption DEF SafeInv, PhotosOK, NoDanglingPhoto
  <2>9. OldFilesOK'
    BY <2>1, <2>3, <2>4, <2>6, RoomImagesAssumption DEF SafeInv, OldFilesOK
  <2>10. QED BY <2>7, <2>8, <2>9 DEF SafeInv
<1>3. QED BY <1>1, <1>2

\* The file that is unlinked is nobody's photo and nobody's upload.
LEMMA UnlinkSafe ==
    ASSUME RoomImagesAssumption, TypeOK, SafeInv, NEW r \in Reqs, Unlink(r)
    PROVE  SafeInv'
<1>1. /\ pc[r] = "unlink" /\ Goto(r, "audit") /\ UNCHANGED <<photo, used>>
      /\ disk \ {job[r].old} \subseteq disk'
  BY DEF Unlink, Stale
<1>2. /\ job' = job /\ pc'[r] = "audit"
      /\ \A q \in Reqs \ {r} : pc'[q] = pc[q]
  BY <1>1 DEF Goto, TypeOK
<1>3. \A q \in Reqs : Uploading(q)' => Uploading(q)
  BY <1>2 DEF Uploading
<1>4. \A q \in Reqs : pc'[q] # "idle" => pc[q] # "idle"
  BY <1>1, <1>2
<1>5. UploadsOK'
  BY <1>1, <1>2, <1>3, <1>4 DEF SafeInv, UploadsOK
<1>6. PhotosOK'
  BY <1>1 DEF SafeInv, PhotosOK, NoDanglingPhoto, OldFilesOK
<1>7. OldFilesOK'
  BY <1>1, <1>2, <1>4 DEF SafeInv, OldFilesOK
<1>8. QED BY <1>5, <1>6, <1>7 DEF SafeInv

LEMMA Safe == Spec => []SafeInv
<1>1. Init => SafeInv
  BY RoomImagesAssumption
     DEF Init, SafeInv, UploadsOK, Uploading, PhotosOK, NoDanglingPhoto, OldFilesOK
<1>2. TypeOK /\ SafeInv /\ [Next]_vars => SafeInv'
  <2> SUFFICES ASSUME TypeOK, SafeInv, [Next]_vars PROVE SafeInv'
    OBVIOUS
  <2> USE RoomImagesAssumption
  <2>1. ASSUME NEW r \in Reqs, StartUpload(r) \/ EndUpload(r) \/ StartOther(r) PROVE SafeInv'
    BY <2>1, StartUploadSafe, EndUploadSafe, StartOtherSafe
  <2>2. ASSUME NEW r \in Reqs, FindRow(r) PROVE SafeInv'
    BY <2>2, FindRowSafe
  <2>3. ASSUME NEW r \in Reqs, CountReservations(r) PROVE SafeInv'
    BY <2>3, DoneSafe, GotoSafe DEF CountReservations, TypeOK
  <2>4. ASSUME NEW r \in Reqs, UpdateRow(r) \/ DeleteRow(r) PROVE SafeInv'
    BY <2>4, UpdateRowSafe, DeleteRowSafe
  <2>5. ASSUME NEW r \in Reqs, Unlink(r) PROVE SafeInv'
    BY <2>5, UnlinkSafe
  <2>6. ASSUME NEW r \in Reqs, WriteAudit(r) \/ DbFails(r) PROVE SafeInv'
    BY <2>6, DoneSafe DEF WriteAudit, DbFails
  <2>7. CASE Crash
    BY <2>7 DEF Crash, SafeInv, UploadsOK, Uploading, PhotosOK, NoDanglingPhoto, OldFilesOK
  <2>8. CASE UNCHANGED vars
    BY <2>8
       DEF vars, SafeInv, UploadsOK, Uploading, PhotosOK, NoDanglingPhoto, OldFilesOK
  <2>9. QED
    BY <2>1, <2>2, <2>3, <2>4, <2>5, <2>6, <2>7, <2>8 DEF Next
<1>3. QED BY <1>1, <1>2, TypeCorrect, PTL DEF Spec

\* No interleaving of uploads, removals, deletions, failures and crashes
\* leaves a room with a photo whose file is gone.
THEOREM PhotosStay == Spec => []NoDanglingPhoto
<1>1. SafeInv => NoDanglingPhoto
  BY DEF SafeInv, PhotosOK
<1>2. QED BY <1>1, Safe, PTL

-------------------------------------------------------------------------------
(* Files that are left over. *)

\* Without trouble there is one request for a room at a time, so the photo it
\* read is still the room's when it changes it, and a photo that was replaced
\* waits for its own request to unlink it.
OneEach ==
    \A q, r \in Reqs : pc[q] # "idle" /\ pc[r] # "idle" /\ q # r => job[q].room # job[r].room

StillOld ==
    \A r \in Reqs : pc[r] \in {"count", "update"} => job[r].old = photo[job[r].room]

ToUnlink ==
    \A f \in shown \cap disk :
        \/ \E m \in Rooms : photo[m] = f
        \/ \E r \in Reqs : pc[r] = "unlink" /\ job[r].old = f

Tidy == OneEach /\ StillOld /\ ToUnlink

LeftInv == shown \subseteq used /\ (trouble = {} => Tidy)

LEMMA BeginTidy ==
    ASSUME TypeOK, LeftInv, NEW r \in Reqs, NEW label \in {"upload", "find"},
           NEW op \in RoomImageOps, NEW m \in Rooms, NEW file,
           Begin(r, label, op, m, file), trouble' = {},
           UNCHANGED <<photo, shown>>, disk' \cap shown = disk \cap shown
    PROVE  Tidy'
<1>1. /\ pc[r] = "idle" /\ pc'[r] = label /\ job'[r].room = m
      /\ \A q \in Reqs \ {r} : pc'[q] = pc[q] /\ job'[q] = job[q]
  BY DEF Begin, TypeOK
<1>2. trouble = {} /\ \A q \in Reqs : ~ InFlight(q, m)
  BY DEF Begin
<1>3. Tidy
  BY <1>2 DEF LeftInv
<1>4. OneEach'
  BY <1>1, <1>2, <1>3 DEF Tidy, OneEach, InFlight
<1>5. StillOld'
  BY <1>1, <1>3 DEF Tidy, StillOld
<1>6. ToUnlink'
  <2> SUFFICES ASSUME NEW f \in shown \cap disk, \A n \in Rooms : photo[n] # f
               PROVE  \E q \in Reqs : pc'[q] = "unlink" /\ job'[q].old = f
    BY DEF ToUnlink
  <2>1. PICK q \in Reqs : pc[q] = "unlink" /\ job[q].old = f
    BY <1>3 DEF Tidy, ToUnlink
  <2>2. q # r
    BY <1>1, <2>1
  <2>3. QED BY <1>1, <2>1, <2>2
<1>7. QED BY <1>4, <1>5, <1>6 DEF Tidy

\* A request that ends, or goes on, without a change to row or file.
LEMMA QuietTidy ==
    ASSUME TypeOK, Tidy, NEW r \in Reqs, pc[r] \notin {"idle", "unlink"},
           \A q \in Reqs \ {r} : pc'[q] = pc[q] /\ job'[q] = job[q],
           pc'[r] # "idle" => job'[r].room = job[r].room,
           pc'[r] \in {"count", "update"} => job'[r].old = photo[job[r].room],
           UNCHANGED <<photo, shown>>, disk' \subseteq disk
    PROVE  Tidy'
<1>1. OneEach'
  BY DEF Tidy, OneEach
<1>2. StillOld'
  BY DEF Tidy, StillOld
<1>3. ToUnlink'
  <2> SUFFICES ASSUME NEW f \in shown \cap disk, \A n \in Rooms : photo[n] # f
               PROVE  \E q \in Reqs : pc'[q] = "unlink" /\ job'[q].old = f
    BY DEF ToUnlink
  <2>1. PICK q \in Reqs : pc[q] = "unlink" /\ job[q].old = f
    BY DEF Tidy, ToUnlink
  <2>2. QED BY <2>1
<1>4. QED BY <1>1, <1>2, <1>3 DEF Tidy

\* The row changes: the photo it had is on its way to be unlinked.
LEMMA ChangeTidy ==
    ASSUME TypeOK, Tidy, NEW r \in Reqs, pc[r] = "update", NEW new,
           RowExists(job[r].room),
           photo' = [photo EXCEPT ![job[r].room] = new], Goto(r, "unlink"),
           UNCHANGED disk, shown' \subseteq shown \cup {new}
    PROVE  Tidy'
<1> DEFINE m == job[r].room
<1>1. /\ pc'[r] = "unlink" /\ job' = job
      /\ \A q \in Reqs \ {r} : pc'[q] = pc[q]
  BY DEF Goto, TypeOK
<1>2. job[r].room \in Rooms /\ job[r].old = photo[job[r].room]
  BY DEF TypeOK, Job, Tidy, StillOld
<1>3. photo'[m] = new /\ \A n \in Rooms \ {m} : photo'[n] = photo[n]
  BY <1>2 DEF TypeOK
<1>4. OneEach'
  BY <1>1 DEF Tidy, OneEach
<1>5. StillOld'
  <2> SUFFICES ASSUME NEW q \in Reqs, pc'[q] \in {"count", "update"}
               PROVE  job[q].old = photo'[job[q].room]
    BY <1>1 DEF StillOld
  <2>1. q # r /\ pc[q] \in {"count", "update"}
    BY <1>1
  <2>2. job[q].room \in Rooms \ {m}
    BY <2>1 DEF Tidy, OneEach, TypeOK, Job
  <2>3. QED BY <1>3, <2>1, <2>2 DEF Tidy, StillOld
<1>6. ToUnlink'
  <2> SUFFICES ASSUME NEW f \in shown' \cap disk, \A n \in Rooms : photo'[n] # f
               PROVE  \E q \in Reqs : pc'[q] = "unlink" /\ job[q].old = f
    BY <1>1 DEF ToUnlink
  <2>1. f \in shown \cap disk
    BY <1>2, <1>3
  <2>2. CASE \E n \in Rooms : photo[n] = f
    BY <1>1, <1>2, <1>3, <2>2
  <2>3. CASE \E q \in Reqs : pc[q] = "unlink" /\ job[q].old = f
    BY <1>1, <2>3
  <2>4. QED BY <2>1, <2>2, <2>3 DEF Tidy, ToUnlink
<1>7. QED BY <1>4, <1>5, <1>6 DEF Tidy

\* deleteRoomImageFile after a replacement, a removal or a deletion: a file is
\* left over only by a fault or by two requests for one room, for any number
\* of rooms, files and requests.
THEOREM LeftOversExplained == Spec => []LeftOverTakesTrouble
<1>1. Init => LeftInv
  BY DEF Init, LeftInv, Tidy, OneEach, StillOld, ToUnlink
<1>2. TypeOK /\ SafeInv /\ LeftInv /\ [Next]_vars => LeftInv'
  <2> SUFFICES ASSUME TypeOK, SafeInv, LeftInv, [Next]_vars PROVE LeftInv'
    OBVIOUS
  <2>1. ASSUME NEW r \in Reqs, StartUpload(r) PROVE LeftInv'
    <3>1. PICK m \in Rooms, f \in Files \ used :
                /\ Begin(r, "upload", "setImage", m, f)
                /\ disk' = disk \cup {f} /\ used' = used \cup {f}
      BY <2>1 DEF StartUpload
    <3>2. UNCHANGED <<photo, shown>> /\ shown \subseteq used
      BY <2>1 DEF StartUpload, LeftInv
    <3>3. "setImage" \in RoomImageOps /\ disk' \cap shown = disk \cap shown
      BY <3>1, <3>2 DEF RoomImageOps, ImageOps
    <3>4. trouble' = {} => Tidy'
      BY <3>1, <3>2, <3>3, BeginTidy
    <3>5. QED BY <3>1, <3>2, <3>4 DEF LeftInv
  <2>2. ASSUME NEW r \in Reqs, StartOther(r) PROVE LeftInv'
    <3>1. PICK m \in Rooms, op \in {"removeImage", "deleteRoom"} :
                Begin(r, "find", op, m, NoPhoto)
      BY <2>2 DEF StartOther
    <3>2. UNCHANGED <<photo, disk, used, shown>> /\ op \in RoomImageOps
      BY <2>2 DEF StartOther, RoomImageOps, ImageOps
    <3>3. trouble' = {} => Tidy'
      BY <3>1, <3>2, BeginTidy
    <3>4. QED BY <3>2, <3>3 DEF LeftInv
  <2>3. ASSUME NEW r \in Reqs, EndUpload(r) PROVE LeftInv'
    <3>1. /\ pc[r] = "upload" /\ pc'[r] \in {"find", "idle"} /\ disk' \subseteq disk
          /\ \A q \in Reqs \ {r} : pc'[q] = pc[q] /\ job'[q] = job[q]
          /\ pc'[r] # "idle" => job'[r].room = job[r].room
      BY <2>3 DEF EndUpload, Goto, Done, TypeOK
    <3>2. UNCHANGED <<photo, used, shown, trouble>>
      BY <2>3 DEF EndUpload
    <3>3. QED BY <3>1, <3>2, QuietTidy DEF LeftInv
  <2>4. ASSUME NEW r \in Reqs, FindRow(r) PROVE LeftInv'
    <3>1. UNCHANGED <<photo, disk, used, shown, trouble>> /\ pc[r] = "find"
      BY <2>4 DEF FindRow
    <3>2. job[r] \in Job
      BY <3>1 DEF TypeOK
    <3>3. /\ \A q \in Reqs \ {r} : pc'[q] = pc[q] /\ job'[q] = job[q]
          /\ pc'[r] # "idle" =>
                job'[r].room = job[r].room /\ job'[r].old = photo[job[r].room]
      BY <2>4, <3>2 DEF FindRow, Done, TypeOK, Job
    <3>4. QED BY <3>1, <3>3, QuietTidy DEF LeftInv
  <2>5. ASSUME NEW r \in Reqs, CountReservations(r) PROVE LeftInv'
    <3>1. UNCHANGED <<photo, disk, used, shown, trouble>> /\ pc[r] = "count"
      BY <2>5 DEF CountReservations
    <3>2. /\ \A q \in Reqs \ {r} : pc'[q] = pc[q] /\ job'[q] = job[q]
          /\ pc'[r] # "idle" => job'[r] = job[r]
      BY <2>5 DEF CountReservations, Done, Goto, TypeOK
    <3>3. trouble = {} => job[r].old = photo[job[r].room]
      BY <3>1 DEF LeftInv, Tidy, StillOld
    <3>4. QED BY <3>1, <3>2, <3>3, QuietTidy DEF LeftInv
  <2>6. ASSUME NEW r \in Reqs, UpdateRow(r) PROVE LeftInv'
    <3>1. /\ UNCHANGED <<disk, used, trouble>> /\ pc[r] = "update"
          /\ job[r].mine \in used \cup {NoPhoto}
      BY <2>6 DEF UpdateRow, SafeInv, OldFilesOK
    <3>2. CASE Done(r) /\ UNCHANGED <<photo, shown>>
      <4>1. \A q \in Reqs \ {r} : pc'[q] = pc[q] /\ job'[q] = job[q]
        BY <3>2 DEF Done, TypeOK
      <4>2. pc'[r] = "idle"
        BY <3>2 DEF Done, TypeOK
      <4>3. QED BY <3>1, <3>2, <4>1, <4>2, QuietTidy DEF LeftInv
    <3>3. CASE ~ (Done(r) /\ UNCHANGED <<photo, shown>>)
      <4>1. /\ RowExists(job[r].room)
            /\ photo' = [photo EXCEPT ![job[r].room] = job[r].mine]
            /\ shown' = shown \cup (Files \cap {job[r].mine})
            /\ Goto(r, "unlink")
        BY <2>6, <3>3 DEF UpdateRow
      <4>2. shown' \subseteq used
        BY <3>1, <4>1, RoomImagesAssumption DEF LeftInv
      <4>3. shown' \subseteq shown \cup {job[r].mine}
        BY <4>1
      <4>4. trouble = {} => Tidy'
        BY <3>1, <4>1, <4>3, ChangeTidy DEF LeftInv
      <4>5. QED BY <3>1, <4>2, <4>4 DEF LeftInv
    <3>4. QED BY <3>2, <3>3
  <2>7. ASSUME NEW r \in Reqs, DeleteRow(r) PROVE LeftInv'
    <3>1. UNCHANGED <<disk, used, shown, trouble>> /\ pc[r] = "update"
      BY <2>7 DEF DeleteRow
    <3>2. CASE Done(r) /\ UNCHANGED photo
      <4>1. \A q \in Reqs \ {r} : pc'[q] = pc[q] /\ job'[q] = job[q]
        BY <3>2 DEF Done, TypeOK
      <4>2. pc'[r] = "idle"
        BY <3>2 DEF Done, TypeOK
      <4>3. QED BY <3>1, <3>2, <4>1, <4>2, QuietTidy DEF LeftInv
    <3>3. CASE ~ (Done(r) /\ UNCHANGED photo)
      <4>1. /\ RowExists(job[r].room)
            /\ photo' = [photo EXCEPT ![job[r].room] = NoRow]
            /\ Goto(r, "unlink")
        BY <2>7, <3>3 DEF DeleteRow
      <4>2. trouble = {} => Tidy'
        BY <3>1, <4>1, ChangeTidy DEF LeftInv
      <4>3. QED BY <3>1, <4>2 DEF LeftInv
    <3>4. QED BY <3>2, <3>3
  <2>8. ASSUME NEW r \in Reqs, Unlink(r) PROVE LeftInv'
    <3>1. /\ pc[r] = "unlink" /\ pc'[r] = "audit" /\ job' = job
          /\ \A q \in Reqs \ {r} : pc'[q] = pc[q]
      BY <2>8 DEF Unlink, Goto, TypeOK
    <3>2. /\ UNCHANGED <<photo, used, shown>>
          /\ trouble' = {} => trouble = {} /\ disk' = disk \ {job[r].old}
      BY <2>8 DEF Unlink, Stale
    <3>3. SUFFICES ASSUME trouble' = {} PROVE Tidy'
      BY <3>2 DEF LeftInv
    <3>4. Tidy
      BY <3>2, <3>3 DEF LeftInv
    <3>5. OneEach' /\ StillOld'
      BY <3>1, <3>2, <3>4 DEF Tidy, OneEach, StillOld
    <3>6. ToUnlink'
      BY <3>1, <3>2, <3>3, <3>4 DEF Tidy, ToUnlink
    <3>7. QED BY <3>5, <3>6 DEF Tidy
  <2>9. ASSUME NEW r \in Reqs, WriteAudit(r) PROVE LeftInv'
    <3>1. UNCHANGED <<photo, disk, used, shown, trouble>> /\ pc[r] = "audit"
      BY <2>9 DEF WriteAudit
    <3>2. /\ \A q \in Reqs \ {r} : pc'[q] = pc[q] /\ job'[q] = job[q]
          /\ pc'[r] = "idle"
      BY <2>9 DEF WriteAudit, Done, TypeOK
    <3>3. QED BY <3>1, <3>2, QuietTidy DEF LeftInv
  <2>10. ASSUME (\E r \in Reqs : DbFails(r)) \/ Crash PROVE LeftInv'
    BY <2>10 DEF DbFails, Crash, LeftInv
  <2>11. CASE UNCHANGED vars
    BY <2>11 DEF vars, LeftInv, Tidy, OneEach, StillOld, ToUnlink
  <2>12. QED
    BY <2>1, <2>2, <2>3, <2>4, <2>5, <2>6, <2>7, <2>8, <2>9, <2>10, <2>11 DEF Next
<1>3. LeftInv => LeftOverTakesTrouble
  BY DEF LeftInv, Tidy, ToUnlink, LeftOverTakesTrouble, ReplacedFilesGone, Quiet
<1>4. QED BY <1>1, <1>2, <1>3, TypeCorrect, Safe, PTL DEF Spec

-------------------------------------------------------------------------------
(* Audit rows of photos. *)

\* A change is told of when its audit row is written or its request is past
\* the row and has it still to write.
Told(m, action) ==
    \/ \E e \in audit : e.room = m /\ e.action = action
    \/ \E r \in Reqs : pc[r] \in {"unlink", "audit"} /\ job[r].room = m
                      /\ AuditOf(job[r].op) = action

ToldOf(m) ==
    /\ photo[m] \in Files => Told(m, "ROOM_IMAGE_UPDATED")
    /\ Told(m, "ROOM_IMAGE_UPDATED") /\ photo[m] = NoPhoto => Told(m, "ROOM_IMAGE_REMOVED")
    /\ Told(m, "ROOM_IMAGE_UPDATED") /\ photo[m] = NoRow => Told(m, "ROOM_DELETED")

PhotosTold == "fault" \notin trouble => \A m \in Rooms : ToldOf(m)

\* Nothing new is told of by a step that leaves the rows alone, and nothing
\* is forgotten.
LEMMA SameTold ==
    ASSUME UNCHANGED photo, NEW m \in Rooms, ToldOf(m),
           \A action : Told(m, action)' <=> Told(m, action)
    PROVE  ToldOf(m)'
BY DEF ToldOf

LEMMA QuietTold ==
    ASSUME TypeOK, NEW r \in Reqs, NEW m, NEW action, pc[r] \notin {"unlink", "audit"},
           pc'[r] \notin {"unlink", "audit"}, UNCHANGED audit,
           \A q \in Reqs \ {r} : pc'[q] = pc[q] /\ job'[q] = job[q]
    PROVE  Told(m, action)' <=> Told(m, action)
BY DEF Told

\* The row of a room changes, to a photo or none.
LEMMA ChangeTold ==
    ASSUME TypeOK, NEW r \in Reqs, pc[r] = "update", NEW new,
           photo' = [photo EXCEPT ![job[r].room] = new], Goto(r, "unlink"), UNCHANGED audit,
           \/ job[r].op = "setImage" /\ new \in Files
           \/ job[r].op = "removeImage" /\ new = NoPhoto
           \/ job[r].op = "deleteRoom" /\ new = NoRow,
           NEW m \in Rooms, ToldOf(m)
    PROVE  ToldOf(m)'
<1>1. /\ pc'[r] = "unlink" /\ job' = job
      /\ \A q \in Reqs \ {r} : pc'[q] = pc[q]
  BY DEF Goto, TypeOK
<1>2. CASE m # job[r].room
  <2>1. photo'[m] = photo[m]
    BY <1>2 DEF TypeOK
  <2>2. \A action : Told(m, action)' <=> Told(m, action)
    BY <1>1, <1>2 DEF Told
  <2>3. QED BY <2>1, <2>2 DEF ToldOf
<1>3. CASE m = job[r].room
  <2>1. photo'[m] = new
    BY <1>3 DEF TypeOK
  <2>2. Told(m, AuditOf(job[r].op))'
    BY <1>1, <1>3 DEF Told
  <2>3. CASE job[r].op = "setImage" /\ new \in Files
    <3>1. AuditOf(job[r].op) = "ROOM_IMAGE_UPDATED"
      BY <2>3 DEF AuditOf
    <3>2. Told(m, "ROOM_IMAGE_UPDATED")'
      BY <1>1, <2>2, <3>1 DEF Told
    <3>3. QED BY <2>1, <2>3, <3>2, RoomImagesAssumption DEF ToldOf
  <2>4. CASE job[r].op = "removeImage" /\ new = NoPhoto
    <3>1. AuditOf(job[r].op) = "ROOM_IMAGE_REMOVED"
      BY <2>4 DEF AuditOf
    <3>2. Told(m, "ROOM_IMAGE_REMOVED")'
      BY <1>1, <2>2, <3>1 DEF Told
    <3>3. QED BY <2>1, <2>4, <3>2, RoomImagesAssumption DEF ToldOf
  <2>5. CASE job[r].op = "deleteRoom" /\ new = NoRow
    <3>1. AuditOf(job[r].op) = "ROOM_DELETED"
      BY <2>5 DEF AuditOf
    <3>2. Told(m, "ROOM_DELETED")'
      BY <1>1, <2>2, <3>1 DEF Told
    <3>3. QED BY <2>1, <2>5, <3>2, RoomImagesAssumption DEF ToldOf
  <2>6. QED BY <2>3, <2>4, <2>5
<1>4. QED BY <1>2, <1>3

\* Rule 6 for photos: without a fault every change of a room's photo is
\* recorded once no request is in flight, however the requests interleave.
THEOREM PhotosAudited == Spec => []PhotoChangesAudited
<1>1. Init => PhotosTold
  BY RoomImagesAssumption DEF Init, PhotosTold, ToldOf, Told
<1>2. TypeOK /\ PhotosTold /\ [Next]_vars => PhotosTold'
  <2> SUFFICES ASSUME TypeOK, PhotosTold, [Next]_vars, "fault" \notin trouble', NEW m \in Rooms
               PROVE  ToldOf(m)'
    BY DEF PhotosTold
  <2>1. ASSUME NEW r \in Reqs, StartUpload(r) \/ StartOther(r) PROVE ToldOf(m)'
    <3>1. /\ UNCHANGED <<photo, audit>> /\ trouble \subseteq trouble'
          /\ pc[r] = "idle" /\ pc'[r] \in {"upload", "find"}
          /\ \A q \in Reqs \ {r} : pc'[q] = pc[q] /\ job'[q] = job[q]
      BY <2>1 DEF StartUpload, StartOther, Begin, TypeOK
    <3>2. \A action : Told(m, action)' <=> Told(m, action)
      BY <3>1, QuietTold
    <3>3. QED BY <3>1, <3>2, SameTold DEF PhotosTold
  <2>2. ASSUME NEW r \in Reqs, EndUpload(r) \/ FindRow(r) \/ CountReservations(r)
        PROVE  ToldOf(m)'
    <3>1. /\ UNCHANGED <<photo, audit, trouble>>
          /\ pc[r] \in {"upload", "find", "count"}
          /\ pc'[r] \notin {"unlink", "audit"}
          /\ \A q \in Reqs \ {r} : pc'[q] = pc[q] /\ job'[q] = job[q]
      BY <2>2 DEF EndUpload, FindRow, CountReservations, Done, Goto, TypeOK
    <3>2. \A action : Told(m, action)' <=> Told(m, action)
      BY <3>1, QuietTold
    <3>3. QED BY <3>1, <3>2, SameTold DEF PhotosTold
  <2>3. ASSUME NEW r \in Reqs, pc[r] = "update", Done(r), UNCHANGED <<photo, audit, trouble>>
        PROVE  ToldOf(m)'
    <3>1. /\ pc'[r] = "idle"
          /\ \A q \in Reqs \ {r} : pc'[q] = pc[q] /\ job'[q] = job[q]
      BY <2>3 DEF Done, TypeOK
    <3>2. \A action : Told(m, action)' <=> Told(m, action)
      BY <2>3, <3>1, QuietTold
    <3>3. QED BY <2>3, <3>2, SameTold DEF PhotosTold
  <2>4. ASSUME NEW r \in Reqs, UpdateRow(r) PROVE ToldOf(m)'
    <3>1. CASE Done(r) /\ UNCHANGED photo
      BY <2>3, <2>4, <3>1 DEF UpdateRow
    <3>2. CASE ~ (Done(r) /\ UNCHANGED photo)
      <4>1. /\ pc[r] = "update" /\ job[r].op \in ImageOps
            /\ photo' = [photo EXCEPT ![job[r].room] = job[r].mine]
            /\ Goto(r, "unlink") /\ UNCHANGED <<audit, trouble>>
        BY <2>4, <3>2 DEF UpdateRow
      <4>2. \/ job[r].op = "setImage" /\ job[r].mine \in Files
            \/ job[r].op = "removeImage" /\ job[r].mine = NoPhoto
        BY <4>1 DEF TypeOK, Job, ImageOps
      <4>3. QED BY <4>1, <4>2, ChangeTold DEF PhotosTold
    <3>3. QED BY <3>1, <3>2
  <2>5. ASSUME NEW r \in Reqs, DeleteRow(r) PROVE ToldOf(m)'
    <3>1. CASE Done(r) /\ UNCHANGED photo
      BY <2>3, <2>5, <3>1 DEF DeleteRow
    <3>2. CASE ~ (Done(r) /\ UNCHANGED photo)
      <4>1. /\ pc[r] = "update" /\ job[r].op = "deleteRoom"
            /\ photo' = [photo EXCEPT ![job[r].room] = NoRow]
            /\ Goto(r, "unlink") /\ UNCHANGED <<audit, trouble>>
        BY <2>5, <3>2 DEF DeleteRow
      <4>2. QED BY <4>1, ChangeTold DEF PhotosTold
    <3>3. QED BY <3>1, <3>2
  <2>6. ASSUME NEW r \in Reqs, Unlink(r) PROVE ToldOf(m)'
    <3>1. /\ UNCHANGED <<photo, audit>> /\ trouble \subseteq trouble'
          /\ pc[r] = "unlink" /\ pc'[r] = "audit" /\ job' = job
          /\ \A q \in Reqs \ {r} : pc'[q] = pc[q]
      BY <2>6 DEF Unlink, Goto, TypeOK
    <3>2. \A action : Told(m, action)' <=> Told(m, action)
      BY <3>1 DEF Told
    <3>3. QED BY <3>1, <3>2, SameTold DEF PhotosTold
  <2>7. ASSUME NEW r \in Reqs, WriteAudit(r) PROVE ToldOf(m)'
    <3>1. /\ UNCHANGED <<photo, trouble>> /\ pc[r] = "audit" /\ pc'[r] = "idle"
          /\ \A q \in Reqs \ {r} : pc'[q] = pc[q] /\ job'[q] = job[q]
      BY <2>7 DEF WriteAudit, Done, TypeOK
    <3>2. PICK e : e = [action |-> AuditOf(job[r].op), room |-> job[r].room]
      OBVIOUS
    <3>3. audit' = audit \cup {e} /\ e.action = AuditOf(job[r].op) /\ e.room = job[r].room
      BY <2>7, <3>2 DEF WriteAudit, Recorded
    <3>4. \A action : Told(m, action)' <=> Told(m, action)
      BY <3>1, <3>3 DEF Told
    <3>5. QED BY <3>1, <3>4, SameTold DEF PhotosTold
  <2>8. ASSUME (\E r \in Reqs : DbFails(r)) \/ Crash PROVE FALSE
    BY <2>8 DEF DbFails, Crash
  <2>9. CASE UNCHANGED vars
    <3>1. \A action : Told(m, action)' <=> Told(m, action)
      BY <2>9 DEF vars, Told
    <3>2. QED BY <2>9, <3>1, SameTold DEF vars, PhotosTold
  <2>10. QED
    BY <2>1, <2>2, <2>4, <2>5, <2>6, <2>7, <2>8, <2>9 DEF Next
<1>3. PhotosTold /\ TypeOK => PhotoChangesAudited
  <2> SUFFICES ASSUME PhotosTold, TypeOK, Quiet, "fault" \notin trouble, NEW m \in Rooms
               PROVE  LET logged == {e.action : e \in {x \in audit : x.room = m}}
                      IN  "ROOM_IMAGE_UPDATED" \in logged \/ photo[m] \in Files =>
                            CASE photo[m] \in Files -> "ROOM_IMAGE_UPDATED" \in logged
                              [] photo[m] = NoPhoto -> "ROOM_IMAGE_REMOVED" \in logged
                              [] photo[m] = NoRow -> "ROOM_DELETED" \in logged
    BY DEF PhotoChangesAudited
  <2> DEFINE logged == {e.action : e \in {x \in audit : x.room = m}}
  <2>1. \A action : Told(m, action) <=> action \in logged
    BY DEF Told, Quiet
  <2>2. ToldOf(m)
    BY DEF PhotosTold
  <2>3. photo[m] \in Files \cup {NoPhoto, NoRow}
    BY DEF TypeOK
  <2> HIDE DEF logged
  <2>4. "ROOM_IMAGE_UPDATED" \in logged \/ photo[m] \in Files =>
           CASE photo[m] \in Files -> "ROOM_IMAGE_UPDATED" \in logged
             [] photo[m] = NoPhoto -> "ROOM_IMAGE_REMOVED" \in logged
             [] photo[m] = NoRow -> "ROOM_DELETED" \in logged
    BY <2>1, <2>2, <2>3, RoomImagesAssumption DEF ToldOf
  <2>5. QED BY <2>4 DEF logged
<1>4. QED BY <1>1, <1>2, <1>3, TypeCorrect, PTL DEF Spec

-------------------------------------------------------------------------------
(* One curator. *)

\* An upload on its way to its row has hung nowhere yet: no name is stored
\* twice, and no upload belongs to two requests.
FreshOK ==
    /\ shown \subseteq used
    /\ \A r \in Reqs : Uploading(r) => job[r].mine \notin shown

\* Only StartUpload makes an upload, of a name never given out, and only
\* UpdateRow hangs one, which no other request holds.
LEMMA FreshInductive ==
    ASSUME TypeOK, SafeInv, FreshOK, [Next]_vars
    PROVE  FreshOK'
<1>1. ASSUME UNCHANGED shown, used \subseteq used',
             \A r \in Reqs : Uploading(r)' => Uploading(r) /\ job'[r].mine = job[r].mine
      PROVE  FreshOK'
  BY <1>1 DEF FreshOK
<1>2. ASSUME NEW r \in Reqs, StartUpload(r) PROVE FreshOK'
  <2>1. PICK m \in Rooms, f \in Files \ used :
              /\ Begin(r, "upload", "setImage", m, f)
              /\ used' = used \cup {f}
    BY <1>2 DEF StartUpload
  <2>2. shown' = shown
    BY <1>2 DEF StartUpload
  <2>3. /\ job'[r].mine = f
        /\ \A q \in Reqs \ {r} : pc'[q] = pc[q] /\ job'[q] = job[q]
    BY <2>1 DEF Begin, TypeOK
  <2>4. \A q \in Reqs \ {r} : Uploading(q)' <=> Uploading(q)
    BY <2>3 DEF Uploading
  <2>5. QED BY <2>1, <2>2, <2>3, <2>4 DEF FreshOK
<1>3. ASSUME NEW r \in Reqs, StartOther(r) PROVE FreshOK'
  <2>1. PICK m \in Rooms, op \in {"removeImage", "deleteRoom"} :
              Begin(r, "find", op, m, NoPhoto)
    BY <1>3 DEF StartOther
  <2>2. /\ job'[r].op # "setImage"
        /\ \A q \in Reqs \ {r} : pc'[q] = pc[q] /\ job'[q] = job[q]
    BY <2>1 DEF Begin, TypeOK
  <2>3. \A q \in Reqs : Uploading(q)' => Uploading(q) /\ job'[q].mine = job[q].mine
    BY <2>2 DEF Uploading
  <2>4. QED BY <1>1, <1>3, <2>3 DEF StartOther
<1>4. ASSUME NEW r \in Reqs, Done(r), UNCHANGED <<used, shown>> PROVE FreshOK'
  <2>1. /\ pc'[r] = "idle"
        /\ \A q \in Reqs \ {r} : pc'[q] = pc[q] /\ job'[q] = job[q]
    BY <1>4 DEF Done, TypeOK
  <2>2. \A q \in Reqs : Uploading(q)' => Uploading(q) /\ job'[q].mine = job[q].mine
    BY <2>1 DEF Uploading
  <2>3. QED BY <1>1, <1>4, <2>2
<1>5. ASSUME NEW r \in Reqs, NEW label, Goto(r, label), UNCHANGED <<used, shown>>,
             label \in {"find", "update"} =>
                pc[r] \in {"upload", "find", "update"} \/ job[r].op # "setImage",
             label # "upload"
      PROVE  FreshOK'
  <2>1. /\ pc'[r] = label /\ job' = job
        /\ \A q \in Reqs \ {r} : pc'[q] = pc[q]
    BY <1>5 DEF Goto, TypeOK
  <2>2. \A q \in Reqs : Uploading(q)' => Uploading(q) /\ job'[q].mine = job[q].mine
    BY <1>5, <2>1 DEF Uploading
  <2>3. QED BY <1>1, <1>5, <2>2
<1>6. ASSUME NEW r \in Reqs, EndUpload(r) PROVE FreshOK'
  BY <1>4, <1>5, <1>6 DEF EndUpload
<1>7. ASSUME NEW r \in Reqs, FindRow(r) PROVE FreshOK'
  <2>1. CASE Done(r)
    BY <1>4, <1>7, <2>1 DEF FindRow
  <2>2. CASE ~ Done(r)
    <3>1. /\ pc[r] = "find" /\ job[r] \in Job
          /\ job' = [job EXCEPT ![r].old = photo[job[r].room]]
          /\ pc' = [pc EXCEPT ![r] = IF job[r].op = "deleteRoom" THEN "count" ELSE "update"]
      BY <1>7, <2>2 DEF FindRow, TypeOK
    <3>2. /\ job'[r].op = job[r].op /\ job'[r].mine = job[r].mine
          /\ \A q \in Reqs \ {r} : pc'[q] = pc[q] /\ job'[q] = job[q]
      BY <3>1 DEF Job, TypeOK
    <3>3. \A q \in Reqs : Uploading(q)' => Uploading(q) /\ job'[q].mine = job[q].mine
      BY <3>1, <3>2 DEF Uploading
    <3>4. QED BY <1>1, <1>7, <3>3 DEF FindRow
  <2>3. QED BY <2>1, <2>2
<1>8. ASSUME NEW r \in Reqs, CountReservations(r) PROVE FreshOK'
  BY <1>4, <1>5, <1>8 DEF CountReservations, TypeOK
<1>9. ASSUME NEW r \in Reqs, UpdateRow(r) PROVE FreshOK'
  <2>1. CASE Done(r) /\ UNCHANGED shown
    BY <1>4, <1>9, <2>1 DEF UpdateRow
  <2>2. CASE ~ (Done(r) /\ UNCHANGED shown)
    <3>1. /\ pc[r] = "update" /\ Goto(r, "unlink") /\ UNCHANGED used
          /\ shown' = shown \cup (Files \cap {job[r].mine})
      BY <1>9, <2>2 DEF UpdateRow
    <3>2. /\ pc'[r] = "unlink" /\ job' = job
          /\ \A q \in Reqs \ {r} : pc'[q] = pc[q]
      BY <3>1 DEF Goto, TypeOK
    <3>3. \A q \in Reqs : Uploading(q)' => q # r /\ Uploading(q) /\ job[q].mine \in Files
      BY <3>2 DEF Uploading, TypeOK
    <3>4. job[r].mine \in Files => Uploading(r)
      BY <3>1 DEF Uploading, TypeOK
    <3>5. \A q \in Reqs : Uploading(q)' => job'[q].mine \notin shown'
      BY <3>1, <3>2, <3>3, <3>4 DEF FreshOK, SafeInv, UploadsOK
    <3>6. job[r].mine \in used \cup {NoPhoto}
      BY <3>1 DEF SafeInv, OldFilesOK
    <3>7. shown' \subseteq used'
      BY <3>1, <3>6, RoomImagesAssumption DEF FreshOK
    <3>8. QED BY <3>5, <3>7 DEF FreshOK
  <2>3. QED BY <2>1, <2>2
<1>10. ASSUME NEW r \in Reqs, DeleteRow(r) PROVE FreshOK'
  BY <1>4, <1>5, <1>10 DEF DeleteRow
<1>11. ASSUME NEW r \in Reqs, Unlink(r) PROVE FreshOK'
  BY <1>5, <1>11 DEF Unlink
<1>12. ASSUME NEW r \in Reqs, WriteAudit(r) \/ DbFails(r) PROVE FreshOK'
  BY <1>4, <1>12 DEF WriteAudit, DbFails
<1>13. CASE Crash
  <2>1. \A q \in Reqs : ~ Uploading(q)'
    BY <1>13 DEF Crash, Uploading
  <2>2. QED BY <1>1, <1>13, <2>1 DEF Crash
<1>14. CASE UNCHANGED vars
  BY <1>14 DEF vars, FreshOK, Uploading
<1>15. QED
  BY <1>2, <1>3, <1>6, <1>7, <1>8, <1>9, <1>10, <1>11, <1>12, <1>13, <1>14 DEF Next

\* Every step of a handler is one of the curator's, or nothing to the curator.
LEMMA StepIsCurators ==
    ASSUME TypeOK, SafeInv, FreshOK, [Next]_vars
    PROVE  [Wall!Next]_(Wall!gallery)
<1>1. ASSUME UNCHANGED <<photo, disk, used, shown>> PROVE [Wall!Next]_(Wall!gallery)
  BY <1>1 DEF Wall!gallery
<1>2. ASSUME NEW r \in Reqs, StartUpload(r) PROVE \E f \in Files : Wall!Store(f)
  BY <1>2 DEF StartUpload, Wall!Store
<1>3. ASSUME NEW r \in Reqs, EndUpload(r)
      PROVE  UNCHANGED <<photo, disk, used, shown>> \/ \E f \in Files : Wall!Discard(f)
  <2>1. CASE UNCHANGED disk
    BY <1>3, <2>1 DEF EndUpload
  <2>2. CASE disk' = disk \ {job[r].mine}
    <3>1. Uploading(r) /\ job[r].mine \in Files
      BY <1>3 DEF EndUpload, Uploading, TypeOK
    <3>2. job[r].mine \in disk /\ \A m \in Rooms : photo[m] # job[r].mine
      BY <3>1 DEF SafeInv, UploadsOK
    <3>3. Wall!Discard(job[r].mine)
      BY <1>3, <2>2, <3>2 DEF EndUpload, Wall!Discard, Wall!Hangs
    <3>4. QED BY <3>1, <3>3
  <2>3. QED BY <1>3, <2>1, <2>2 DEF EndUpload
<1>4. ASSUME NEW r \in Reqs, UpdateRow(r)
      PROVE  \/ UNCHANGED <<photo, disk, used, shown>>
             \/ \E m \in Rooms : Wall!TakeDown(m) \/ \E f \in Files : Wall!Hang(m, f)
  <2>1. CASE UNCHANGED <<photo, shown>>
    BY <1>4, <2>1 DEF UpdateRow
  <2>2. CASE ~ UNCHANGED <<photo, shown>>
    <3>1. /\ pc[r] = "update" /\ RowExists(job[r].room)
          /\ photo' = [photo EXCEPT ![job[r].room] = job[r].mine]
          /\ shown' = shown \cup (Files \cap {job[r].mine})
          /\ UNCHANGED <<disk, used>>
      BY <1>4, <2>2 DEF UpdateRow
    <3>2. job[r].room \in Rooms /\ job[r].mine \in Files \cup {NoPhoto}
      BY <3>1 DEF TypeOK, Job
    <3>3. CASE job[r].mine \in Files
      <4>1. Uploading(r)
        BY <3>1, <3>3 DEF Uploading, TypeOK
      <4>2. job[r].mine \in disk \ shown
        BY <4>1 DEF SafeInv, UploadsOK, FreshOK
      <4>3. Wall!Hang(job[r].room, job[r].mine)
        BY <3>1, <3>3, <4>2 DEF Wall!Hang, RowExists
      <4>4. QED BY <3>2, <3>3, <4>3
    <3>4. CASE job[r].mine = NoPhoto
      <4>1. shown' = shown
        BY <3>1, <3>4, RoomImagesAssumption
      <4>2. Wall!TakeDown(job[r].room)
        BY <3>1, <3>4, <4>1 DEF Wall!TakeDown, RowExists
      <4>3. QED BY <3>2, <4>2
    <3>5. QED BY <3>2, <3>3, <3>4
  <2>3. QED BY <2>1, <2>2
<1>5. ASSUME NEW r \in Reqs, DeleteRow(r)
      PROVE  UNCHANGED <<photo, disk, used, shown>> \/ \E m \in Rooms : Wall!TakeDown(m)
  <2>1. CASE UNCHANGED photo
    BY <1>5, <2>1 DEF DeleteRow
  <2>2. CASE ~ UNCHANGED photo
    <3>1. /\ pc[r] = "update" /\ RowExists(job[r].room)
          /\ photo' = [photo EXCEPT ![job[r].room] = NoRow]
          /\ UNCHANGED <<disk, used, shown>>
      BY <1>5, <2>2 DEF DeleteRow
    <3>2. job[r].room \in Rooms
      BY <3>1 DEF TypeOK, Job
    <3>3. Wall!TakeDown(job[r].room)
      BY <3>1 DEF Wall!TakeDown, RowExists
    <3>4. QED BY <3>2, <3>3
  <2>3. QED BY <2>1, <2>2
<1>6. ASSUME NEW r \in Reqs, Unlink(r)
      PROVE  UNCHANGED <<photo, disk, used, shown>> \/ \E f \in Files : Wall!Discard(f)
  <2>1. pc[r] = "unlink" /\ UNCHANGED <<photo, used, shown>>
        /\ (disk' = disk \/ disk' = disk \ {job[r].old})
    BY <1>6 DEF Unlink, Stale
  <2>2. CASE disk' # disk
    <3>1. job[r].old \in disk /\ disk' = disk \ {job[r].old}
      BY <2>1, <2>2
    <3>2. job[r].old \in Files
      BY <3>1 DEF TypeOK
    <3>3. \A m \in Rooms : photo[m] # job[r].old
      BY <2>1, <3>2 DEF SafeInv, OldFilesOK
    <3>4. Wall!Discard(job[r].old)
      BY <2>1, <3>1, <3>3 DEF Wall!Discard, Wall!Hangs
    <3>5. QED BY <3>2, <3>4
  <2>3. QED BY <2>1, <2>2
<1>7. ASSUME NEW r \in Reqs,
             \/ StartOther(r) \/ FindRow(r) \/ CountReservations(r)
             \/ WriteAudit(r) \/ DbFails(r)
      PROVE  UNCHANGED <<photo, disk, used, shown>>
  BY <1>7 DEF StartOther, FindRow, CountReservations, WriteAudit, DbFails
<1>8. CASE Crash
  BY <1>1, <1>8 DEF Crash
<1>9. CASE UNCHANGED vars
  BY <1>1, <1>9 DEF vars
<1>10. QED
  BY <1>1, <1>2, <1>3, <1>4, <1>5, <1>6, <1>7, <1>8, <1>9 DEF Next, Wall!Next

\* The photo handlers keep the curator's rules, whatever they interleave with
\* and wherever they fail or crash: one name for one upload, one wall for one
\* file and only once, and nothing thrown away that still hangs.
THEOREM GalleryKept == Spec => ImplementsGallery
<1>1. Init => Wall!Init
  BY DEF Init, Wall!Init
<1>2. Init => FreshOK
  BY DEF Init, FreshOK, Uploading
<1>3. TypeOK /\ SafeInv /\ FreshOK /\ [Next]_vars => FreshOK'
  BY FreshInductive
<1>4. TypeOK /\ SafeInv /\ FreshOK /\ [Next]_vars => [Wall!Next]_(Wall!gallery)
  BY StepIsCurators
<1>5. QED
  BY <1>1, <1>2, <1>3, <1>4, TypeCorrect, Safe, PTL DEF Spec, ImplementsGallery, Wall!Spec

\* A curator's step leaves every photo on disk, in one room.
LEMMA HangsInOne ==
    ASSUME photo \in [Rooms -> Files \cup {NoPhoto, NoRow}], PhotosOK,
           \A m \in Rooms : photo[m] \in Files => photo[m] \in shown,
           [Wall!Next]_(Wall!gallery)
    PROVE  /\ photo' \in [Rooms -> Files \cup {NoPhoto, NoRow}]
           /\ PhotosOK'
           /\ \A m \in Rooms : photo'[m] \in Files => photo'[m] \in shown'
<1> USE DEF PhotosOK, NoDanglingPhoto
<1>1. ASSUME NEW f \in Files, Wall!Store(f) \/ Wall!Discard(f)
      PROVE  /\ UNCHANGED <<photo, shown>> /\ PhotosOK'
  BY <1>1 DEF Wall!Store, Wall!Discard, Wall!Hangs
<1>2. ASSUME NEW m \in Rooms, Wall!TakeDown(m)
      PROVE  /\ photo' \in [Rooms -> Files \cup {NoPhoto, NoRow}] /\ PhotosOK'
             /\ \A n \in Rooms : photo'[n] \in Files => photo'[n] \in shown'
  BY <1>2, RoomImagesAssumption DEF Wall!TakeDown
<1>3. ASSUME NEW m \in Rooms, NEW f \in Files, Wall!Hang(m, f)
      PROVE  /\ photo' \in [Rooms -> Files \cup {NoPhoto, NoRow}] /\ PhotosOK'
             /\ \A n \in Rooms : photo'[n] \in Files => photo'[n] \in shown'
  BY <1>3 DEF Wall!Hang
<1>4. CASE UNCHANGED Wall!gallery
  BY <1>4 DEF Wall!gallery
<1>5. QED BY <1>1, <1>2, <1>3, <1>4 DEF Wall!Next

\* One curator alone, by the rules of Gallery: every room's photo is on disk
\* and no file hangs in two rooms.
THEOREM GalleryHasItsPhotos == Wall!Spec => []PhotosOK
<1> DEFINE Inv == /\ photo \in [Rooms -> Files \cup {NoPhoto, NoRow}] /\ PhotosOK
                  /\ \A m \in Rooms : photo[m] \in Files => photo[m] \in shown
<1>1. Wall!Init => Inv
  BY RoomImagesAssumption DEF Wall!Init, PhotosOK, NoDanglingPhoto
<1>2. Inv /\ [Wall!Next]_(Wall!gallery) => Inv'
  BY HangsInOne
<1>3. Inv => PhotosOK
  OBVIOUS
<1> HIDE DEF Inv
<1>4. QED BY <1>1, <1>2, <1>3, PTL DEF Wall!Spec

===============================================================================
