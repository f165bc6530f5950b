------------------------------ MODULE ManageRooms ------------------------------
(***************************************************************************)
(* RoomManagementPage in one tab, among other staff: its list, the New     *)
(* room and Edit modals, and the mutations of useRooms.ts, whose onSuccess *)
(* waits until the list has been fetched again before the page reacts.     *)
(* Each mutation hook has one request under way.                           *)
(***************************************************************************)
EXTENDS FiniteSets

CONSTANTS
    Rooms,     \* ids, each given to one room
    NoRoom,
    Retry,     \* main.tsx: how often a failed query is retried
    Lossy      \* whether requests and answers get lost

NoData == {"no data"}   \* otherwise the rooms on the list

INSTANCE QueryCache WITH NoData <- NoData

ASSUME ManageAssumption == Retry \in Nat /\ Lossy \in BOOLEAN /\ NoRoom \notin Rooms

\* createRoom, updateRoom, and the ones the page has no callback for: status,
\* delete and the two of the photo.
Hooks == {"create", "update", "other"}

VARIABLES
    table,     \* the Room table: "unborn", "there", "gone"
    query,     \* the cache entry of the list
    mounted,   \* the page is on the screen
    creating,  \* the New room modal is open
    editing,   \* editingId
    form,      \* the room whose values the Edit form holds
    job        \* each hook's mutation

vars == <<table, query, mounted, creating, editing, form, job>>

\* `room' is the room it writes to, as far as that matters; `here' says that
\* the page that has the callback is still there.
NoJob == [phase |-> "none", room |-> NoRoom, here |-> FALSE]

Init ==
    /\ table \in [Rooms -> {"unborn", "there"}]
    /\ query = Empty
    /\ mounted = FALSE
    /\ creating = FALSE
    /\ editing = NoRoom
    /\ form = NoRoom
    /\ job = [h \in Hooks |-> NoJob]

There == {m \in Rooms : table[m] = "there"}

\* `editing' of the component: found in the list it shows.
EditShown(e, q) == e # NoRoom /\ q.data # NoData /\ e \in q.data

\* Mutant of FormFor: the form stays mounted when its modal is closed.
FormForKept(e, q) == IF form = NoRoom /\ EditShown(e, q) THEN e ELSE form

\* RoomForm takes `initial' when it is mounted, and keeps its state until it
\* is unmounted, whatever room the modal is about by then.
FormFor(e, q) ==
    IF ~ EditShown(e, q) THEN NoRoom
    ELSE IF form = NoRoom THEN e
    ELSE form

\* React renders the page with the editingId e and the list q.
Render(e, q) ==
    /\ editing' = e
    /\ query' = q
    /\ form' = FormFor(e, q)

-------------------------------------------------------------------------------
(* The page. *)

Enter ==
    /\ ~ mounted
    /\ mounted' = TRUE
    /\ query' = Mounted(query, "staff", Retry)
    /\ UNCHANGED <<table, creating, editing, form, job>>

\* Its state goes, and the callbacks it gave to mutate are not called.
Leave ==
    /\ mounted
    /\ mounted' = FALSE
    /\ creating' = FALSE
    /\ Render(NoRoom, query)
    /\ job' = [h \in Hooks |-> [job[h] EXCEPT !.here = FALSE]]
    /\ UNCHANGED table

\* A modal covers the page: what is under it cannot be clicked.
Uncovered == mounted /\ ~ creating /\ ~ EditShown(editing, query)

OpenCreate ==
    /\ Uncovered
    /\ creating' = TRUE
    /\ UNCHANGED <<table, query, mounted, editing, form, job>>

CloseCreate ==
    /\ creating
    /\ creating' = FALSE
    /\ UNCHANGED <<table, query, mounted, editing, form, job>>

OpenEdit(m) ==
    /\ Uncovered
    /\ EditShown(m, query)
    /\ Render(m, query)
    /\ UNCHANGED <<table, mounted, creating, job>>

CloseEdit ==
    /\ EditShown(editing, query)
    /\ Render(NoRoom, query)
    /\ UNCHANGED <<table, mounted, creating, job>>

\* A button sends its mutation.  Save and the photo buttons are disabled until
\* theirs has settled; the buttons of a row are not, and the model sends one
\* mutation of each hook at a time.
Submit(h, m) ==
    /\ job[h].phase = "none"
    /\ job' = [job EXCEPT ![h] = [phase |-> "sent", room |-> m, here |-> h # "other"]]
    /\ UNCHANGED <<table, query, mounted, creating, editing, form>>

SubmitCreate == creating /\ Submit("create", NoRoom)

SubmitUpdate == EditShown(editing, query) /\ Submit("update", editing)

\* The Delete button of a row, which does not ask first.
Delete(m) == Uncovered /\ EditShown(m, query) /\ Submit("other", m)

\* The status button of a row and those of the photo of the room being edited:
\* the list has the same rooms after them.
Click ==
    /\ \/ Uncovered /\ query.data \notin {NoData, {}}
       \/ EditShown(editing, query)
    /\ Submit("other", NoRoom)

-------------------------------------------------------------------------------
(* The server. *)

\* The write is committed; a new room has a fresh id.
Commit(h) ==
    /\ job[h].phase = "sent"
    /\ \/ /\ h = "create"
          /\ \E m \in {n \in Rooms : table[n] = "unborn"} :
                /\ table' = [table EXCEPT ![m] = "there"]
                /\ job' = [job EXCEPT ![h].phase = "done", ![h].room = m]
       \/ /\ h # "create"
          /\ job[h].room \in There \cup {NoRoom}
          /\ table' = IF h = "other" /\ job[h].room # NoRoom
                      THEN [table EXCEPT ![job[h].room] = "gone"] ELSE table
          /\ job' = [job EXCEPT ![h].phase = "done", ![h].room = NoRoom]
    /\ query' = Behind(query)
    /\ UNCHANGED <<mounted, creating, editing, form>>

\* An error: the form shows it and stays.  A write whose answer is lost is one
\* the tab knows nothing about.
Refuse(h) ==
    /\ job[h].phase = "sent" \/ (job[h].phase = "done" /\ Lossy)
    /\ job' = [job EXCEPT ![h] = NoJob]
    /\ query' = Forgiven(query)
    /\ UNCHANGED <<table, mounted, creating, editing, form>>

\* Another tab removes a room.
OtherStaff(m) ==
    /\ table[m] = "there"
    /\ table' = [table EXCEPT ![m] = "gone"]
    /\ UNCHANGED <<query, mounted, creating, editing, form, job>>

Serve ==
    /\ Fetching(query)
    /\ query.fetch.got = NoData
    /\ query' = Served(query, There)
    /\ UNCHANGED <<table, mounted, creating, editing, form, job>>

-------------------------------------------------------------------------------
(* What comes back. *)

HandedOn == {h \in Hooks : job[h].phase = "handed on"}
Waiting == {h \in Hooks : job[h].phase = "waiting"} \cup HandedOn
Called(h, hs) == h \in hs /\ job[h].here

\* The mutations in hs succeed at last, with the list q: a new room closes its
\* modal and opens in Edit, a saved one closes Edit.
Finish(hs, q) ==
    /\ creating' = (creating /\ ~ Called("create", hs))
    /\ Render(IF Called("create", hs) THEN job["create"].room
              ELSE IF Called("update", hs) THEN NoRoom ELSE editing, q)

Settling(hs) == [h \in Hooks |-> IF h \in hs THEN NoJob ELSE job[h]]

Arrive ==
    /\ Fetching(query)
    /\ query.fetch.got # NoData
    /\ Finish(Waiting, Arrived(query))
    /\ job' = Settling(Waiting)
    /\ UNCHANGED <<table, mounted>>

\* invalidateQueries does not throw: what waited ends when retrying does.
GivenUp(q) == IF Fetching(q) THEN {} ELSE Waiting

Lose ==
    /\ Lossy
    /\ Fetching(query)
    /\ LET q == Lost(query, "staff")
       IN  Finish(GivenUp(q), q) /\ job' = Settling(GivenUp(q))
    /\ UNCHANGED <<table, mounted>>

\* Mutant of Awaits: the hook does not return the promise of the invalidation.
AwaitsNothing == FALSE

\* useInvalidateRooms returns it, and mutate awaits onSuccess.  With the page
\* off the screen there is nothing to wait for.
Awaits == mounted

\* Mutant of Refetched: `cancelRefetch: false', a request under way is enough.
RefetchedShared ==
    IF mounted THEN Mounted(Overtaken(query, TRUE), "staff", Retry)
    ELSE Overtaken(query, FALSE)

\* onSuccess: ['rooms'] is invalidated.
Refetched == Invalidated(Overtaken(query, mounted), mounted, "staff", Retry)

\* The request under way makes room for another one.
Replaced == mounted /\ ~ Loading(query)

\* A request that is replaced hands the mutations that wait for it on to the
\* one that replaces it.  When that one is replaced in its turn, the promise
\* they were handed is cancelled: it is left open which of them go on waiting.
LetGo == IF Replaced THEN HandedOn ELSE {}

Handed(j) == IF Replaced /\ j.phase = "waiting" THEN [j EXCEPT !.phase = "handed on"] ELSE j

\* The answer to a write.
Acknowledge(h) ==
    /\ job[h].phase = "done"
    /\ \E gone \in SUBSET LetGo :
          LET done == IF Awaits THEN gone ELSE gone \cup {h}
          IN  /\ Finish(done, Refetched)
              /\ job' = [i \in Hooks |->
                            IF i \in done THEN NoJob
                            ELSE IF i = h THEN [job[h] EXCEPT !.phase = "waiting"]
                            ELSE Handed(job[i])]
    /\ UNCHANGED <<table, mounted>>

Return(h) == Acknowledge(h) \/ Refuse(h)

Next ==
    \/ Enter \/ Leave \/ OpenCreate \/ CloseCreate \/ CloseEdit
    \/ SubmitCreate \/ SubmitUpdate \/ Click
    \/ \E m \in Rooms : OpenEdit(m) \/ Delete(m) \/ OtherStaff(m)
    \/ \E h \in Hooks : Commit(h) \/ Return(h)
    \/ Serve \/ Arrive \/ Lose

Spec == Init /\ [][Next]_vars

\* The list and a save are answered; the other writes, the user and the other
\* staff owe nothing.
FairSpec == Spec /\ WF_vars(Serve \/ Arrive) /\ WF_vars(Return("update"))

-------------------------------------------------------------------------------
\* TYPE INVARIANT.  There is a form exactly when the Edit modal is shown, and
\* only a mutation that awaits the list is waiting.
TypeOK ==
    /\ table \in [Rooms -> {"unborn", "there", "gone"}]
    /\ query \in [data : {NoData} \cup SUBSET Rooms, failed : BOOLEAN, mark : Marks,
                  fetch : {NoFetch} \cup
                     [as : {"staff"}, got : {NoData} \cup SUBSET Rooms,
                      left : 0 .. Retry, mark : Marks]]
    /\ mounted \in BOOLEAN
    /\ creating \in BOOLEAN
    /\ editing \in Rooms \cup {NoRoom}
    /\ form \in Rooms \cup {NoRoom}
    /\ job \in [Hooks -> [phase : {"none", "sent", "done", "waiting", "handed on"},
                          room : Rooms \cup {NoRoom}, here : BOOLEAN]]
    /\ form # NoRoom <=> EditShown(editing, query)
    /\ creating \/ editing # NoRoom => mounted
    /\ Waiting # {} => Fetching(query)

\* SAFETY.  When the list on the screen has settled, nothing the user did here
\* and was told is done is missing from it, in whatever order the answers to
\* several mutations and the lists fetched in between come back; except what a
\* request under way brings that nothing restarted.
ListShowsWrites ==
    mounted /\ Settled(query) /\ (\A h \in Hooks : job[h].phase # "done")
        => query.mark # "behind"

\* SAFETY (action).  The Edit form holds the values of the room it saves to.
\* The one exception: the answer to New room, its modal closed meanwhile, opens
\* the new room in the form of another one.  No late answer to a save, no list
\* and no removal does.
OnlyNewRoomMixes ==
    [][form' \notin {NoRoom, editing'} =>
          \/ form' = form /\ editing' = editing
          \/ job["create"].phase # "none" /\ job'["create"].phase = "none"
                /\ job["create"].here /\ editing' = job["create"].room]_vars

\* SAFETY (action).  A new room opens in Edit when its modal closes: the list
\* it is looked up in has it by then, unless someone has removed it, fetching
\* failed, the list was the first one and read before the write, which nothing
\* restarts, or two other writes replaced the request one after the other.
CreatedRoomIsListed ==
    [][creating /\ ~ creating' /\ editing' \notin {NoRoom, editing}
          => \/ EditShown(editing', query')
             \/ table[editing'] = "gone"
             \/ query'.failed \/ query'.mark = "overtaken"
             \/ "create" \in HandedOn
                   /\ \E h \in Hooks : job[h].phase = "done" /\ job'[h].phase = "waiting"]_vars

OtherWrite == \E h \in Hooks \ {"update"} : Acknowledge(h)

\* LIVENESS.  "Saving..." ends, although it lasts until the list is back: only
\* other mutations that replace its request again and again keep it up.
SavingEnds == <>[](job["update"].phase # "none") => []<><<OtherWrite>>_vars

===============================================================================
