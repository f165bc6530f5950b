--------------------------- MODULE ManageRoomsProofs ---------------------------
(***************************************************************************)
(* Proofs about ManageRooms, for any rooms, any number of retries and with *)
(* or without lost answers.                                                *)
(***************************************************************************)
EXTENDS ManageRooms, TLAPS

Lists == {NoData} \cup SUBSET Rooms
Requests == [as : {"staff"}, got : Lists, left : 0 .. Retry, mark : Marks]
Cached == [data : Lists, failed : BOOLEAN, mark : Marks, fetch : {NoFetch} \cup Requests]
Jobs == [phase : {"none", "sent", "done", "waiting", "handed on"},
         room : Rooms \cup {NoRoom}, here : BOOLEAN]

-------------------------------------------------------------------------------
(* What the operators of QueryCache do to an entry. *)

LEMMA RequestOK ==
    ASSUME NEW n \in 0 .. Retry
    PROVE  /\ Request("staff", n) \in Requests /\ Request("staff", n) # NoFetch
           /\ Request("staff", n).mark = "fine" /\ Request("staff", n).got = NoData
<1>1. NoData \in Lists /\ "fine" \in Marks
  BY DEF Lists, Marks
<1>2. Request("staff", n) = [as |-> "staff", got |-> NoData, left |-> n, mark |-> "fine"]
  BY DEF Request
<1>3. Request("staff", n) \in Requests
  BY <1>1, <1>2 DEF Requests
<1>4. /\ Request("staff", n).as = "staff" /\ Request("staff", n).mark = "fine"
      /\ Request("staff", n).got = NoData
  BY <1>2
<1>5. NoFetch.as = "nobody asks"
  BY DEF NoFetch
<1>6. QED BY <1>3, <1>4, <1>5

LEMMA NoRequest == NoFetch \notin Requests /\ NoFetch.got = NoData /\ NoFetch.mark = "fine"
<1>1. NoFetch.as = "nobody asks" /\ NoFetch.got = NoData /\ NoFetch.mark = "fine"
  BY DEF NoFetch
<1>2. \A r \in Requests : r.as = "staff"
  BY DEF Requests
<1>3. QED BY <1>1, <1>2

LEMMA SentOK ==
    ASSUME NEW q \in Cached
    PROVE  LET s == Sent(q, "staff", Retry)
           IN  /\ s \in Cached /\ Fetching(s) /\ s.data = q.data
               /\ s.mark = "fine" /\ s.fetch.mark = "fine" /\ s.fetch.got = NoData
<1> DEFINE f == Request("staff", Retry)
           s == [q EXCEPT !.fetch = f, !.mark = "fine"]
<1>1. f \in Requests /\ f # NoFetch /\ f.mark = "fine" /\ f.got = NoData
  BY RequestOK, ManageAssumption
<1> HIDE DEF f
<1>2. s \in Cached
  BY <1>1 DEF Cached, Marks
<1>3. s.fetch = f /\ s.data = q.data /\ s.mark = "fine"
  BY DEF Cached
<1>4. Sent(q, "staff", Retry) = s
  BY DEF Sent, f
<1> HIDE DEF s
<1>5. QED BY <1>1, <1>2, <1>3, <1>4 DEF Fetching

Marked(q, m, n) == [q EXCEPT !.mark = m, !.fetch.mark = n]

\* Changing the marks changes nothing else.
LEMMA MarkedOK ==
    ASSUME NEW q \in Cached, NEW m \in Marks, NEW n \in Marks, Fetching(q) \/ n = "fine"
    PROVE  LET s == Marked(q, m, n)
           IN  /\ s \in Cached /\ s.data = q.data /\ s.failed = q.failed
               /\ s.mark = m /\ s.fetch.mark = n /\ s.fetch.got = q.fetch.got
               /\ (Fetching(s) <=> Fetching(q))
<1> DEFINE f == [q.fetch EXCEPT !.mark = n]
           s == [q EXCEPT !.mark = m, !.fetch.mark = n]
<1>1. /\ f \in {NoFetch} \cup Requests /\ f.mark = n /\ f.got = q.fetch.got
      /\ f # NoFetch <=> Fetching(q)
  <2>1. CASE Fetching(q)
    <3>1. q.fetch \in Requests
      BY <2>1 DEF Fetching, Cached
    <3>2. f \in Requests /\ f.mark = n /\ f.got = q.fetch.got
      BY <3>1 DEF Requests
    <3>3. QED BY <2>1, <3>2, NoRequest
  <2>2. CASE ~ Fetching(q)
    <3>1. q.fetch = NoFetch /\ NoFetch.mark = "fine" /\ n = "fine"
      BY <2>2, NoRequest DEF Fetching
    <3>2. NoFetch \in [as : {"nobody asks"}, got : {NoData}, left : {0}, mark : {"fine"}]
      BY DEF NoFetch
    <3>3. [NoFetch EXCEPT !.mark = "fine"] = NoFetch
      BY <3>1, <3>2
    <3>4. QED BY <2>2, <3>1, <3>3
  <2>3. QED BY <2>1, <2>2
<1>2. s \in Cached
  BY <1>1 DEF Cached
<1>3. s.data = q.data /\ s.failed = q.failed /\ s.mark = m /\ s.fetch = f
  BY DEF Cached
<1> HIDE DEF s, f
<1>4. Fetching(s) <=> Fetching(q)
  BY <1>1, <1>3 DEF Fetching
<1>5. s.fetch.mark = n /\ s.fetch.got = q.fetch.got
  BY <1>1, <1>3
<1>6. Marked(q, m, n) = s
  BY DEF Marked, s
<1>7. QED BY <1>2, <1>3, <1>4, <1>5, <1>6

LEMMA ServedOK ==
    ASSUME NEW q \in Cached, NEW v \in Lists, Fetching(q)
    PROVE  LET s == Served(q, v)
           IN  /\ s \in Cached /\ Fetching(s) /\ s.data = q.data
               /\ s.fetch.mark = q.fetch.mark /\ s.fetch.got = v
<1> DEFINE f == [q.fetch EXCEPT !.got = v]
<1>1. q.fetch \in Requests
  BY DEF Fetching, Cached
<1>2. f \in Requests /\ f.mark = q.fetch.mark /\ f.got = v
  BY <1>1 DEF Requests
<1>3. Served(q, v) = [data |-> q.data, failed |-> q.failed, mark |-> q.mark, fetch |-> f]
  BY DEF Served, Cached
<1> HIDE DEF f
<1>4. QED BY <1>2, <1>3, NoRequest DEF Cached, Fetching

LEMMA ArrivedOK ==
    ASSUME NEW q \in Cached, Fetching(q)
    PROVE  LET s == Arrived(q)
           IN  /\ s \in Cached /\ ~ Fetching(s) /\ s.data = q.fetch.got
               /\ s.mark = q.fetch.mark /\ s.fetch.mark = "fine" /\ s.fetch.got = NoData
<1>1. q.fetch \in Requests
  BY DEF Fetching, Cached
<1>2. q.fetch.got \in Lists /\ q.fetch.mark \in Marks
  BY <1>1 DEF Requests
<1>3. Arrived(q) = [data |-> q.fetch.got, fetch |-> NoFetch, failed |-> FALSE,
                    mark |-> q.fetch.mark]
  BY DEF Arrived
<1>4. QED BY <1>2, <1>3, NoRequest DEF Cached, Fetching

LEMMA LostOK ==
    ASSUME NEW q \in Cached, Fetching(q)
    PROVE  LET s == Lost(q, "staff")
           IN  /\ s \in Cached /\ s.data = q.data
               /\ s.fetch.mark = "fine" /\ s.fetch.got = NoData
               /\ Fetching(s) <=> q.fetch.left # 0
               /\ ~ Fetching(s) => s.mark = "fine" /\ s.failed
<1>1. q.fetch \in Requests
  BY DEF Fetching, Cached
<1>2. q.fetch.left \in 0 .. Retry
  BY <1>1 DEF Requests
<1>3. CASE q.fetch.left > 0
  <2> DEFINE f == Request("staff", q.fetch.left - 1)
  <2>1. q.fetch.left - 1 \in 0 .. Retry
    BY <1>2, <1>3, ManageAssumption
  <2>2. f \in Requests /\ f # NoFetch /\ f.mark = "fine" /\ f.got = NoData
    BY <2>1, RequestOK
  <2> HIDE DEF f
  <2> DEFINE s == [q EXCEPT !.fetch = f]
  <2>3. s \in Cached /\ s.data = q.data /\ s.fetch = f
    BY <2>2 DEF Cached
  <2>4. Lost(q, "staff") = s
    BY <1>3 DEF Lost, f
  <2>5. q.fetch.left # 0
    BY <1>2, <1>3, ManageAssumption
  <2> HIDE DEF s
  <2>6. QED BY <2>2, <2>3, <2>4, <2>5 DEF Fetching
<1>4. CASE q.fetch.left = 0
  <2> DEFINE s == [q EXCEPT !.fetch = NoFetch, !.failed = TRUE, !.mark = "fine"]
  <2>1. s \in Cached
    BY DEF Cached, Marks
  <2>2. s.data = q.data /\ s.fetch = NoFetch /\ s.mark = "fine" /\ s.failed
    BY DEF Cached
  <2>3. Lost(q, "staff") = s
    BY <1>4 DEF Lost
  <2> HIDE DEF s
  <2>4. QED BY <1>4, <2>1, <2>2, <2>3, NoRequest DEF Fetching
<1>5. QED BY <1>2, <1>3, <1>4, ManageAssumption

LEMMA MountedOK ==
    ASSUME NEW q \in Cached
    PROVE  LET s == Mounted(q, "staff", Retry)
           IN  /\ s \in Cached /\ Fetching(s) /\ s.data = q.data
               /\ s.fetch.mark \in {"fine", q.fetch.mark}
               /\ s.fetch.got = NoData \/ s.fetch = q.fetch
BY SentOK DEF Mounted

LEMMA MarksOf == ASSUME NEW q \in Cached PROVE q.mark \in Marks /\ q.fetch.mark \in Marks
<1>1. q.fetch = NoFetch \/ q.fetch \in Requests
  BY DEF Cached
<1>2. NoFetch.mark \in Marks
  BY NoRequest DEF Marks
<1>3. QED BY <1>1, <1>2 DEF Requests, Cached

LEMMA BehindOK ==
    ASSUME NEW q \in Cached
    PROVE  /\ Behind(q) \in Cached /\ Behind(q).data = q.data
           /\ Fetching(Behind(q)) <=> Fetching(q)
           /\ Behind(q).fetch.got = q.fetch.got
           /\ q.fetch.mark # "fine" => Behind(q).fetch.mark = q.fetch.mark
           /\ q.fetch.got # NoData => Behind(q).fetch.mark # "fine"
<1> DEFINE m == IF Settled(q) /\ q.mark = "fine" THEN "behind" ELSE q.mark
           n == IF q.fetch.got # NoData /\ q.fetch.mark = "fine" THEN "behind" ELSE q.fetch.mark
<1>1. m \in Marks /\ n \in Marks
  BY MarksOf DEF Marks
<1>2. /\ Fetching(q) \/ n = "fine"
      /\ q.fetch.mark # "fine" => n = q.fetch.mark
      /\ q.fetch.got # NoData => n # "fine"
  BY NoRequest DEF Fetching
<1>3. Behind(q) = Marked(q, m, n)
  BY DEF Behind, Marked
<1> HIDE DEF m, n
<1>4. QED BY <1>1, <1>2, <1>3, MarkedOK

LEMMA ForgivenOK ==
    ASSUME NEW q \in Cached
    PROVE  /\ Forgiven(q) \in Cached /\ Forgiven(q).data = q.data
           /\ Fetching(Forgiven(q)) <=> Fetching(q)
           /\ Forgiven(q).mark # "behind" /\ Forgiven(q).fetch.mark # "behind"
           /\ Forgiven(q).fetch.got = q.fetch.got
           /\ q.fetch.mark = "overtaken" => Forgiven(q).fetch.mark = "overtaken"
<1> DEFINE m == IF q.mark = "behind" THEN "fine" ELSE q.mark
           n == IF q.fetch.mark = "behind" THEN "fine" ELSE q.fetch.mark
<1>1. /\ m \in Marks /\ n \in Marks /\ m # "behind" /\ n # "behind"
      /\ q.fetch.mark = "overtaken" => n = "overtaken"
  BY MarksOf DEF Marks
<1>2. Fetching(q) \/ n = "fine"
  BY NoRequest DEF Fetching
<1>3. Forgiven(q) = Marked(q, m, n)
  BY DEF Forgiven, Marked
<1> HIDE DEF m, n
<1>4. QED BY <1>1, <1>2, <1>3, MarkedOK

LEMMA OvertakenOK ==
    ASSUME NEW q \in Cached, NEW active \in BOOLEAN
    PROVE  LET s == Overtaken(q, active)
           IN  /\ s \in Cached /\ s.data = q.data /\ s.fetch.got = q.fetch.got
               /\ Fetching(s) <=> Fetching(q)
               /\ Loading(s) <=> Loading(q)
               /\ ~ active \/ Loading(q) =>
                     /\ s.fetch.mark # "behind"
                     /\ q.fetch.mark # "fine" => s.fetch.mark = "overtaken"
<1>1. CASE (~ active \/ Loading(q)) /\ q.fetch.mark = "behind"
  <2> DEFINE s == Marked(q, q.mark, "overtaken")
  <2>1. Fetching(q) /\ "overtaken" \in Marks /\ q.mark \in Marks
    BY <1>1, NoRequest, MarksOf DEF Fetching, Marks
  <2>2. /\ s \in Cached /\ s.data = q.data /\ s.fetch.mark = "overtaken"
        /\ s.fetch.got = q.fetch.got /\ Fetching(s)
    BY <2>1, MarkedOK
  <2>3. Marked(q, q.mark, "overtaken") = [q EXCEPT !.fetch.mark = "overtaken"]
    BY DEF Marked, Cached
  <2>4. Overtaken(q, active) = s
    BY <1>1, <2>3 DEF Overtaken
  <2> HIDE DEF s
  <2>5. QED BY <1>1, <2>1, <2>2, <2>4 DEF Loading
<1>2. CASE ~ ((~ active \/ Loading(q)) /\ q.fetch.mark = "behind")
  <2>1. Overtaken(q, active) = q
    BY <1>2 DEF Overtaken
  <2>2. QED BY <1>2, <2>1, MarksOf DEF Marks
<1>3. QED BY <1>1, <1>2

LEMMA InvalidatedOK ==
    ASSUME NEW q \in Cached, NEW active \in BOOLEAN
    PROVE  LET s == Invalidated(Overtaken(q, active), active, "staff", Retry)
           IN  /\ s \in Cached /\ s.data = q.data
               /\ Fetching(q) \/ active => Fetching(s)
               /\ s.fetch.mark # "behind"
               /\ active /\ ~ Loading(q) => s.fetch.got = NoData
               /\ ~ (active /\ ~ Loading(q)) =>
                     /\ s.fetch.got = q.fetch.got
                     /\ q.fetch.mark # "fine" => s.fetch.mark = "overtaken"
<1> DEFINE o == Overtaken(q, active)
           s == Invalidated(o, active, "staff", Retry)
<1>1. /\ o \in Cached /\ o.data = q.data /\ o.fetch.got = q.fetch.got
      /\ Fetching(o) <=> Fetching(q)
      /\ Loading(o) <=> Loading(q)
      /\ ~ active \/ Loading(q) =>
            /\ o.fetch.mark # "behind"
            /\ q.fetch.mark # "fine" => o.fetch.mark = "overtaken"
  BY OvertakenOK
<1> HIDE DEF o
<1>2. CASE active /\ ~ Loading(q)
  <2>1. s = Sent(o, "staff", Retry)
    BY <1>1, <1>2 DEF Invalidated
  <2>2. /\ s \in Cached /\ Fetching(s) /\ s.data = o.data
        /\ s.fetch.mark = "fine" /\ s.fetch.got = NoData
    BY <1>1, <2>1, SentOK
  <2> HIDE DEF s
  <2>3. /\ s \in Cached /\ s.data = q.data /\ Fetching(s)
        /\ s.fetch.mark # "behind" /\ s.fetch.got = NoData
    BY <1>1, <2>2
  <2>4. QED BY <1>2, <2>3 DEF s, o
<1>3. CASE ~ (active /\ ~ Loading(q))
  <2>1. s = o
    BY <1>1, <1>3 DEF Invalidated
  <2>2. active => Fetching(q)
    BY <1>3 DEF Loading
  <2>3. QED BY <1>1, <1>3, <2>1, <2>2 DEF o
<1>4. QED BY <1>2, <1>3

-------------------------------------------------------------------------------
\* Only the page that is on the screen has callbacks.
CalledHere == \A h \in Hooks : job[h].here => mounted

\* What the rule about the list rests on: once every write has been answered,
\* no request under way is behind one either.
Told ==
    (\A h \in Hooks : job[h].phase # "done") =>
        /\ query.fetch.mark # "behind"
        /\ mounted /\ Settled(query) => query.mark # "behind"

Inv == TypeOK /\ CalledHere /\ Told

\* TypeOK with names for the sets of records.
Typed ==
    /\ table \in [Rooms -> {"unborn", "there", "gone"}]
    /\ query \in Cached /\ job \in [Hooks -> Jobs]
    /\ mounted \in BOOLEAN /\ creating \in BOOLEAN
    /\ editing \in Rooms \cup {NoRoom} /\ form \in Rooms \cup {NoRoom}
    /\ form # NoRoom <=> EditShown(editing, query)
    /\ creating \/ editing # NoRoom => mounted
    /\ Waiting # {} => Fetching(query)

LEMMA Parts == TypeOK <=> Typed
BY DEF TypeOK, Typed, Cached, Requests, Lists, Jobs

LEMMA PartsNext == TypeOK' <=> Typed'
BY DEF TypeOK, Typed, Cached, Requests, Lists, Jobs

LEMMA RenderOK ==
    ASSUME TypeOK, NEW e \in Rooms \cup {NoRoom}, NEW q \in Cached, Render(e, q)
    PROVE  /\ editing' = e /\ query' = q
           /\ form' \in Rooms \cup {NoRoom}
           /\ form' # NoRoom <=> EditShown(editing', query')
           /\ form' \in {NoRoom, e, form}
BY DEF Render, FormFor, EditShown, TypeOK

LEMMA NoJobOK == NoJob \in Jobs /\ NoJob.phase = "none" /\ ~ NoJob.here
BY DEF NoJob, Jobs

LEMMA SettlingOK ==
    ASSUME job \in [Hooks -> Jobs], CalledHere, NEW hs \in SUBSET Hooks
    PROVE  /\ Settling(hs) \in [Hooks -> Jobs]
           /\ \A h \in Hooks : Settling(hs)[h] = IF h \in hs THEN NoJob ELSE job[h]
           /\ \A h \in Hooks : Settling(hs)[h].here => mounted
<1>1. Settling(hs) = [h \in Hooks |-> IF h \in hs THEN NoJob ELSE job[h]]
  BY DEF Settling
<1>2. \A h \in Hooks : job[h] \in Jobs /\ (job[h].here => mounted)
  BY DEF CalledHere
<1>3. QED BY <1>1, <1>2, NoJobOK

LEMMA FinishOK ==
    ASSUME Inv, NEW hs \in SUBSET Hooks, NEW q \in Cached, Finish(hs, q)
    PROVE  /\ query' = q /\ creating' \in BOOLEAN
           /\ editing' \in Rooms \cup {NoRoom} /\ form' \in Rooms \cup {NoRoom}
           /\ form' # NoRoom <=> EditShown(editing', query')
           /\ creating' \/ editing' # NoRoom => mounted
<1> DEFINE e == IF Called("create", hs) THEN job["create"].room
                ELSE IF Called("update", hs) THEN NoRoom ELSE editing
<1>1. e \in Rooms \cup {NoRoom}
  BY Parts DEF Inv, Typed, Hooks, Jobs
<1>2. e # NoRoom => mounted
  <2>1. "create" \in Hooks /\ (editing # NoRoom => mounted)
    BY Parts DEF Inv, Typed, Hooks
  <2>2. Called("create", hs) => mounted
    BY <2>1 DEF Inv, CalledHere, Called
  <2>3. QED BY <2>1, <2>2
<1>3. Render(e, q)
  BY DEF Finish
<1> HIDE DEF e
<1>4. editing' = e /\ query' = q /\ form' \in Rooms \cup {NoRoom}
      /\ (form' # NoRoom <=> EditShown(editing', query'))
  BY <1>1, <1>3, RenderOK DEF Inv
<1>5. creating' \in BOOLEAN /\ (creating' => creating)
  BY Parts DEF Finish, Inv, Typed
<1>6. (creating => mounted) /\ (editing' # NoRoom => mounted)
  BY <1>2, <1>4, Parts DEF Inv, Typed
<1>7. editing' \in Rooms \cup {NoRoom}
  BY <1>1, <1>4
<1>8. QED BY <1>4, <1>5, <1>6, <1>7, Zenon

LEMMA WaitingOf ==
    ASSUME NEW h \in Hooks
    PROVE  h \in Waiting <=> job[h].phase \in {"waiting", "handed on"}
BY DEF Waiting, HandedOn

LEMMA SubmitOK ==
    ASSUME Inv, NEW h \in Hooks, NEW m \in Rooms \cup {NoRoom}, Submit(h, m),
           h # "other" => mounted
    PROVE  Inv'
<1> DEFINE new == [phase |-> "sent", room |-> m, here |-> h # "other"]
<1>1. new \in Jobs
  BY DEF Jobs
<1>2. new.phase = "sent" /\ (new.here => h # "other")
  OBVIOUS
<1>3. job' = [job EXCEPT ![h] = new] /\ UNCHANGED <<table, query, mounted, creating, editing, form>>
  BY DEF Submit
<1> HIDE DEF new
<1>4. job' \in [Hooks -> Jobs]
  BY <1>1, <1>3, Parts DEF Inv, Typed
<1>5. \A i \in Hooks : job'[i] = IF i = h THEN new ELSE job[i]
  BY <1>3, Parts DEF Inv, Typed
<1>6. Waiting' \subseteq Waiting /\ job[h].phase = "none"
  BY <1>2, <1>5 DEF Waiting, HandedOn, Submit
<1>7. TypeOK'
  BY <1>3, <1>4, <1>6, Parts, PartsNext DEF Inv, Typed, EditShown
<1>8. CalledHere' /\ Told'
  BY <1>2, <1>3, <1>5, <1>6 DEF Inv, CalledHere, Told
<1>9. QED BY <1>7, <1>8 DEF Inv

\* The page: no request begins or ends.
LEMMA PageOK ==
    ASSUME Inv,
           \/ Leave \/ OpenCreate \/ CloseCreate \/ CloseEdit
           \/ \E m \in Rooms : OpenEdit(m)
    PROVE  Inv'
<1> USE DEF Inv, Typed
<1>1. ASSUME NEW e \in Rooms \cup {NoRoom}, Render(e, query), e # NoRoom => mounted,
             UNCHANGED <<table, mounted, creating, job>>
      PROVE  Inv'
  BY <1>1, RenderOK, Parts, PartsNext DEF CalledHere, Told, Waiting, HandedOn
<1>2. CASE Leave
  <2>1. Render(NoRoom, query) /\ mounted' = FALSE /\ creating' = FALSE /\ table' = table
    BY <1>2 DEF Leave
  <2>2. editing' = NoRoom /\ query' = query /\ form' \in Rooms \cup {NoRoom}
        /\ (form' # NoRoom <=> EditShown(editing', query'))
    BY <2>1, RenderOK, Parts
  <2>3. job' = [h \in Hooks |-> [job[h] EXCEPT !.here = FALSE]]
    BY <1>2 DEF Leave
  <2>4. ASSUME NEW h \in Hooks
        PROVE  job'[h] \in Jobs /\ ~ job'[h].here /\ job'[h].phase = job[h].phase
    <3>1. job'[h] = [job[h] EXCEPT !.here = FALSE] /\ job[h] \in Jobs
      BY <2>3, Parts
    <3>2. QED BY <3>1 DEF Jobs
  <2>5. job' \in [Hooks -> Jobs]
    BY <2>3, <2>4
  <2>6. Waiting' = Waiting
    BY <2>4 DEF Waiting, HandedOn
  <2>7. Typed'
    <3>1. EditShown(editing', query') => editing' # NoRoom
      BY DEF EditShown
    <3>2. mounted' \in BOOLEAN /\ creating' \in BOOLEAN /\ ~ creating'
      BY <2>1, Zenon
    <3>3. QED BY <2>1, <2>2, <2>5, <2>6, <3>1, <3>2, Parts
  <2>8. CalledHere' /\ Told'
    BY <2>1, <2>2, <2>4 DEF CalledHere, Told
  <2>9. QED BY <2>7, <2>8, PartsNext
<1>3. CASE CloseEdit
  BY <1>1, <1>3 DEF CloseEdit
<1>4. ASSUME NEW m \in Rooms, OpenEdit(m) PROVE Inv'
  BY <1>1, <1>4 DEF OpenEdit, Uncovered
<1>5. CASE OpenCreate \/ CloseCreate
  <2>1. UNCHANGED <<table, query, mounted, editing, form, job>> /\ creating' \in BOOLEAN
        /\ (creating' => mounted)
    BY <1>5, Parts, Zenon DEF OpenCreate, CloseCreate, Uncovered
  <2>2. QED BY <2>1, Parts, PartsNext DEF CalledHere, Told, Waiting, HandedOn, EditShown
<1>6. QED BY <1>2, <1>3, <1>4, <1>5

\* The list is fetched, or another tab changes the table.
LEMMA FetchOK ==
    ASSUME Inv, Enter \/ Serve \/ \E m \in Rooms : OtherStaff(m)
    PROVE  Inv'
<1> USE DEF Inv, Typed
<1>1. CASE Enter
  <2>1. UNCHANGED <<table, creating, editing, form, job>> /\ mounted' = TRUE
    BY <1>1, Zenon DEF Enter
  <2>2. query' = Mounted(query, "staff", Retry)
    BY <1>1 DEF Enter
  <2>3. query' \in Cached /\ Fetching(query') /\ query'.data = query.data
        /\ query'.fetch.mark \in {"fine", query.fetch.mark}
    BY <2>2, Parts, MountedOK
  <2>4. Typed'
    BY <2>1, <2>3, Parts DEF EditShown, Waiting, HandedOn
  <2>5. QED BY <2>1, <2>3, <2>4, PartsNext DEF CalledHere, Told, Settled
<1>2. CASE Serve
  <2>1. UNCHANGED <<table, mounted, creating, editing, form, job>>
    BY <1>2 DEF Serve
  <2>2. query' = Served(query, There) /\ There \in Lists /\ Fetching(query)
    BY <1>2 DEF Serve, There, Lists
  <2>3. query' \in Cached /\ Fetching(query') /\ query'.data = query.data
        /\ query'.fetch.mark = query.fetch.mark
    BY <2>2, Parts, ServedOK
  <2>4. Typed'
    BY <2>1, <2>3, Parts DEF EditShown, Waiting, HandedOn
  <2>5. QED BY <2>1, <2>3, <2>4, PartsNext DEF CalledHere, Told, Settled
<1>3. ASSUME NEW m \in Rooms, OtherStaff(m) PROVE Inv'
  <2>1. UNCHANGED <<query, mounted, creating, editing, form, job>>
        /\ table' \in [Rooms -> {"unborn", "there", "gone"}]
    BY <1>3, Parts DEF OtherStaff
  <2>2. QED BY <2>1, Parts, PartsNext DEF CalledHere, Told, Waiting, HandedOn, EditShown
<1>4. QED BY <1>1, <1>2, <1>3

LEMMA CommitOK == ASSUME Inv, NEW h \in Hooks, Commit(h) PROVE Inv'
<1> USE DEF Inv, Typed
<1>1. UNCHANGED <<mounted, creating, editing, form>> /\ query' = Behind(query)
  BY DEF Commit
<1>2. query' \in Cached /\ query'.data = query.data /\ (Fetching(query') <=> Fetching(query))
  BY <1>1, Parts, BehindOK
<1>3. table' \in [Rooms -> {"unborn", "there", "gone"}]
  BY Parts DEF Commit
<1>4. PICK m \in Rooms \cup {NoRoom} : job' = [job EXCEPT ![h].phase = "done", ![h].room = m]
  BY DEF Commit
<1>5. ASSUME NEW i \in Hooks
      PROVE  /\ job'[i] \in Jobs /\ job'[i].here = job[i].here
             /\ job'[i].phase = IF i = h THEN "done" ELSE job[i].phase
  <2>1. job[i] \in Jobs /\ job \in [Hooks -> Jobs]
    BY Parts
  <2>2. CASE i = h
    <3>1. job'[h] = [job[h] EXCEPT !.phase = "done", !.room = m]
      BY <1>4, <2>1
    <3>2. QED BY <2>1, <2>2, <3>1 DEF Jobs
  <2>3. CASE i # h
    <3>1. job'[i] = job[i]
      BY <1>4, <2>1, <2>3
    <3>2. QED BY <2>1, <2>3, <3>1
  <2>4. QED BY <2>2, <2>3
<1>6. job' \in [Hooks -> Jobs]
  <2>1. job \in [Hooks -> Jobs]
    BY Parts
  <2>2. DOMAIN job' = Hooks /\ job' = [i \in Hooks |-> job'[i]]
    BY <1>4, <2>1
  <2>3. QED BY <1>5, <2>2
<1>7. Waiting' \subseteq Waiting
  BY <1>5 DEF Waiting, HandedOn
<1>8. Typed'
  BY <1>1, <1>2, <1>3, <1>6, <1>7, Parts DEF EditShown
<1>9. CalledHere' /\ Told'
  BY <1>1, <1>5 DEF CalledHere, Told
<1>10. QED BY <1>8, <1>9, PartsNext

LEMMA RefuseOK == ASSUME Inv, NEW h \in Hooks, Refuse(h) PROVE Inv'
<1> USE DEF Inv, Typed
<1>1. UNCHANGED <<table, mounted, creating, editing, form>> /\ query' = Forgiven(query)
      /\ job' = [job EXCEPT ![h] = NoJob]
  BY DEF Refuse
<1>2. /\ query' \in Cached /\ query'.data = query.data
      /\ Fetching(query') <=> Fetching(query)
      /\ query'.mark # "behind" /\ query'.fetch.mark # "behind"
  BY <1>1, Parts, ForgivenOK
<1>3. job' \in [Hooks -> Jobs] /\ \A i \in Hooks : job'[i] = IF i = h THEN NoJob ELSE job[i]
  BY <1>1, Parts, NoJobOK
<1>4. Waiting' \subseteq Waiting
  BY <1>3, NoJobOK DEF Waiting, HandedOn
<1>5. Typed'
  BY <1>1, <1>2, <1>3, <1>4, Parts DEF EditShown
<1>6. CalledHere' /\ Told'
  BY <1>1, <1>2, <1>3, NoJobOK DEF CalledHere, Told
<1>7. QED BY <1>5, <1>6, PartsNext

\* Mutations that succeed when a list comes back, or when it does not.
LEMMA SettleOK ==
    ASSUME Inv, NEW hs \in SUBSET Hooks, NEW q \in Cached, Finish(hs, q), Waiting = hs \/ hs = {},
           job' = Settling(hs), UNCHANGED <<table, mounted>>,
           Waiting # hs => Fetching(q), q.fetch.mark # "behind",
           ~ Fetching(q) => q.mark \in {"fine", query.fetch.mark}
    PROVE  Inv'
<1> USE DEF Inv, Typed
<1>1. /\ job' \in [Hooks -> Jobs]
      /\ \A h \in Hooks : job'[h] = IF h \in hs THEN NoJob ELSE job[h]
      /\ \A h \in Hooks : job'[h].here => mounted
  BY Parts, SettlingOK
<1>2. Waiting' = Waiting \ hs
  BY <1>1, NoJobOK DEF Waiting, HandedOn
<1>3. query' = q
  BY FinishOK
<1>4. Typed'
  BY <1>1, <1>2, <1>3, FinishOK, Parts
<1>5. CalledHere'
  BY <1>1 DEF CalledHere
<1>6. Told'
  <2>1. SUFFICES ASSUME \A h \in Hooks : job'[h].phase # "done"
                 PROVE  /\ q.fetch.mark # "behind"
                        /\ Settled(q) => q.mark # "behind"
    BY <1>3 DEF Told
  <2>2. \A h \in Hooks : job[h].phase # "done"
    BY <1>1, <2>1, WaitingOf
  <2>3. query.fetch.mark # "behind"
    BY <2>2 DEF Told
  <2>4. QED BY <2>3 DEF Settled
<1>7. QED BY <1>4, <1>5, <1>6, PartsNext

\* Which mutations succeed when an answer is acknowledged, and what becomes of
\* the others.
Acked(h, done) ==
    /\ Finish(done, Refetched) /\ UNCHANGED <<table, mounted>>
    /\ job[h].phase = "done"
    /\ IF mounted THEN done \subseteq HandedOn ELSE done = {h}
    /\ job' \in [Hooks -> Jobs]
    /\ \A i \in done : job'[i] = NoJob
    /\ \A i \in Hooks \ done :
          /\ job'[i].here = job[i].here /\ job'[i].room = job[i].room
          /\ IF i = h THEN job'[i].phase = "waiting"
             ELSE \/ job'[i].phase = job[i].phase
                  \/ mounted /\ job[i].phase = "waiting" /\ job'[i].phase = "handed on"

LEMMA Acking ==
    ASSUME Inv, NEW h \in Hooks, Acknowledge(h)
    PROVE  \E done \in SUBSET Hooks : Acked(h, done)
<1>1. PICK gone \in SUBSET LetGo :
         LET done == IF Awaits THEN gone ELSE gone \cup {h}
         IN  /\ Finish(done, Refetched)
             /\ job' = [i \in Hooks |->
                           IF i \in done THEN NoJob
                           ELSE IF i = h THEN [job[h] EXCEPT !.phase = "waiting"]
                           ELSE Handed(job[i])]
  BY DEF Acknowledge
<1>2. job[h].phase = "done" /\ UNCHANGED <<table, mounted>>
  BY DEF Acknowledge
<1> DEFINE done == IF Awaits THEN gone ELSE gone \cup {h}
<1>3. LetGo \subseteq HandedOn /\ HandedOn \subseteq Hooks /\ (~ mounted => LetGo = {})
  BY DEF LetGo, Replaced, HandedOn
<1>4. done \subseteq Hooks /\ IF mounted THEN done \subseteq HandedOn ELSE done = {h}
  BY <1>3 DEF Awaits
<1>5. Finish(done, Refetched)
  BY <1>1
<1>6. job' = [i \in Hooks |-> IF i \in done THEN NoJob
                             ELSE IF i = h THEN [job[h] EXCEPT !.phase = "waiting"]
                             ELSE Handed(job[i])]
  BY <1>1
<1> HIDE DEF done
<1>7. ASSUME NEW i \in Hooks
      PROVE  /\ job'[i] \in Jobs
             /\ i \in done => job'[i] = NoJob
             /\ i \notin done =>
                   /\ job'[i].here = job[i].here /\ job'[i].room = job[i].room
                   /\ IF i = h THEN job'[i].phase = "waiting"
                      ELSE \/ job'[i].phase = job[i].phase
                           \/ mounted /\ job[i].phase = "waiting" /\ job'[i].phase = "handed on"
  <2>1. job[i] \in Jobs
    BY Parts DEF Inv, Typed
  <2>2. CASE i \in done
    BY <1>6, <2>2, NoJobOK
  <2>3. CASE i \notin done /\ i = h
    <3>1. job'[i] = [job[i] EXCEPT !.phase = "waiting"]
      BY <1>6, <2>3
    <3>2. QED BY <2>1, <2>3, <3>1 DEF Jobs
  <2>4. CASE i \notin done /\ i # h
    <3>1. job'[i] = Handed(job[i])
      BY <1>6, <2>4
    <3>2. CASE Replaced /\ job[i].phase = "waiting"
      <4>1. job'[i] = [job[i] EXCEPT !.phase = "handed on"]
        BY <3>1, <3>2 DEF Handed
      <4>2. mounted
        BY <3>2 DEF Replaced
      <4>3. QED BY <2>1, <2>4, <3>2, <4>1, <4>2 DEF Jobs
    <3>3. CASE ~ (Replaced /\ job[i].phase = "waiting")
      BY <2>1, <2>4, <3>1, <3>3 DEF Handed
    <3>4. QED BY <3>2, <3>3
  <2>5. QED BY <2>2, <2>3, <2>4
<1>8. job' \in [Hooks -> Jobs]
  <2>1. DOMAIN job' = Hooks /\ job' = [i \in Hooks |-> job'[i]]
    BY <1>6
  <2>2. QED BY <1>7, <2>1
<1>9. Acked(h, done)
  BY <1>2, <1>4, <1>5, <1>7, <1>8 DEF Acked
<1>10. QED BY <1>4, <1>9

LEMMA AcknowledgeOK == ASSUME Inv, NEW h \in Hooks, Acknowledge(h) PROVE Inv'
<1> USE DEF Inv, Typed
<1>1. PICK done \in SUBSET Hooks : Acked(h, done)
  BY Acking
<1>2. Finish(done, Refetched) /\ UNCHANGED <<table, mounted>> /\ job' \in [Hooks -> Jobs]
  BY <1>1 DEF Acked
<1>3. /\ Refetched \in Cached /\ Refetched.fetch.mark # "behind"
      /\ Fetching(query) \/ mounted => Fetching(Refetched)
  BY Parts, InvalidatedOK DEF Refetched
<1>4. query' = Refetched
  BY <1>2, <1>3, FinishOK
<1>5. \A i \in Hooks : job'[i] = NoJob \/ job'[i].here = job[i].here
  BY <1>1 DEF Acked
<1>6. Waiting' # {} => mounted \/ Waiting # {}
  <2>1. SUFFICES ASSUME ~ mounted, NEW i \in Waiting' PROVE i \in Waiting
    OBVIOUS
  <2>2. i \in Hooks /\ job'[i].phase \in {"waiting", "handed on"}
    BY <2>1 DEF Waiting, HandedOn
  <2>3. done = {h}
    BY <1>1, <2>1 DEF Acked
  <2>4. i # h
    BY <1>1, <2>2, <2>3, NoJobOK DEF Acked
  <2>5. job'[i].phase = job[i].phase
    BY <1>1, <2>1, <2>2, <2>3, <2>4 DEF Acked
  <2>6. QED BY <2>2, <2>5, WaitingOf
<1>7. Typed'
  BY <1>2, <1>3, <1>4, <1>6, FinishOK, Parts
<1>8. CalledHere'
  BY <1>2, <1>5, NoJobOK DEF CalledHere
<1>9. Told'
  BY <1>2, <1>3, <1>4 DEF Told, Settled
<1>10. QED BY <1>7, <1>8, <1>9, PartsNext

LEMMA InvStep == ASSUME Inv, [Next]_vars PROVE Inv'
<1>1. CASE Arrive
  <2>1. /\ Fetching(query) /\ Finish(Waiting, Arrived(query)) /\ job' = Settling(Waiting)
        /\ UNCHANGED <<table, mounted>>
    BY <1>1 DEF Arrive
  <2>2. Arrived(query) \in Cached /\ Arrived(query).mark = query.fetch.mark
        /\ Arrived(query).fetch.mark = "fine"
    BY <2>1, Parts, ArrivedOK DEF Inv, Typed
  <2>3. Waiting \in SUBSET Hooks
    BY DEF Waiting, HandedOn
  <2>4. QED BY <2>1, <2>2, <2>3, SettleOK
<1>2. CASE Lose
  <2> DEFINE q == Lost(query, "staff")
  <2>1. /\ Fetching(query) /\ Finish(GivenUp(q), q) /\ job' = Settling(GivenUp(q))
        /\ UNCHANGED <<table, mounted>>
    BY <1>2 DEF Lose
  <2>2. /\ q \in Cached /\ q.fetch.mark = "fine"
        /\ ~ Fetching(q) => q.mark = "fine"
    BY <2>1, Parts, LostOK DEF Inv, Typed
  <2> HIDE DEF q
  <2>3. GivenUp(q) \in SUBSET Hooks /\ (Waiting = GivenUp(q) \/ GivenUp(q) = {})
        /\ (Waiting # GivenUp(q) => Fetching(q))
    BY DEF GivenUp, Waiting, HandedOn
  <2>4. QED BY <2>1, <2>2, <2>3, SettleOK
<1>3. ASSUME NEW h \in Hooks, Commit(h) \/ Return(h) PROVE Inv'
  BY <1>3, CommitOK, RefuseOK, AcknowledgeOK DEF Return
<1>4. CASE SubmitCreate \/ SubmitUpdate \/ Click
  <2>1. CASE SubmitCreate
    BY <2>1, SubmitOK, Parts DEF SubmitCreate, Hooks, Inv, Typed
  <2>2. CASE SubmitUpdate
    BY <2>2, SubmitOK, Parts DEF SubmitUpdate, Hooks, Inv, Typed, EditShown
  <2>3. CASE Click
    BY <2>3, SubmitOK DEF Click, Hooks
  <2>4. QED BY <1>4, <2>1, <2>2, <2>3
<1>5. ASSUME NEW m \in Rooms, Delete(m) PROVE Inv'
  BY <1>5, SubmitOK DEF Delete, Hooks
<1>6. CASE UNCHANGED vars
  BY <1>6, Parts, PartsNext DEF vars, Inv, Typed, CalledHere, Told, Waiting, HandedOn, EditShown
<1>7. QED
  BY <1>1, <1>2, <1>3, <1>4, <1>5, <1>6, PageOK, FetchOK DEF Next

LEMMA Invariant == Spec => []Inv
<1>1. Init => Inv
  <2> SUFFICES ASSUME Init PROVE Inv
    OBVIOUS
  <2>1. query = [data |-> NoData, fetch |-> NoFetch, failed |-> FALSE, mark |-> "fine"]
    BY DEF Init, Empty
  <2>2. query \in Cached /\ query.fetch = NoFetch /\ query.data = NoData
    BY <2>1 DEF Cached, Lists, Marks
  <2>3. job \in [Hooks -> Jobs] /\ \A h \in Hooks : job[h] = NoJob
    BY NoJobOK DEF Init
  <2>4. Waiting = {}
    BY <2>3, NoJobOK DEF Waiting, HandedOn
  <2>5. mounted = FALSE /\ creating = FALSE /\ mounted \in BOOLEAN /\ creating \in BOOLEAN
    BY Zenon DEF Init
  <2>6. Typed
    BY <2>2, <2>3, <2>4, <2>5 DEF Init, Typed, EditShown
  <2>7. CalledHere /\ Told
    BY <2>2, <2>3, <2>5, NoJobOK, NoRequest DEF CalledHere, Told, Settled
  <2>8. QED BY <2>6, <2>7, Parts DEF Inv
<1>2. Inv /\ [Next]_vars => Inv'
  BY InvStep
<1>3. QED BY <1>1, <1>2, PTL DEF Spec

\* Every variable keeps its type; there is a form exactly when Edit is shown,
\* and nothing waits for a list that is not being fetched.
THEOREM TypeCorrect == Spec => []TypeOK
BY Invariant, PTL DEF Inv

\* SAFETY.  ListShowsWrites, for any number of rooms and retries.
THEOREM ListIsTrue == Spec => []ListShowsWrites
<1>1. Inv => ListShowsWrites
  BY DEF Inv, Told, ListShowsWrites
<1>2. QED BY <1>1, Invariant, PTL

-------------------------------------------------------------------------------
\* Who can be left with a form that is not about the room it saves to.
LEMMA FinishMixes ==
    ASSUME Inv, NEW hs \in SUBSET Hooks, NEW q, Finish(hs, q), form' \notin {NoRoom, editing'}
    PROVE  \/ form' = form /\ editing' = editing
           \/ /\ "create" \in hs /\ job["create"].here
              /\ editing' = job["create"].room
BY DEF Finish, Called, Render, FormFor, EditShown

\* SAFETY (action).  OnlyNewRoomMixes: the only step that leaves the form to
\* another room than it was mounted for is the late success of New room.
THEOREM OnlyNewRoomDoes == Spec => OnlyNewRoomMixes
<1> DEFINE Mixes == form' \notin {NoRoom, editing'}
           Kept == form' = form /\ editing' = editing
           Created == /\ job["create"].phase # "none" /\ job'["create"].phase = "none"
                      /\ job["create"].here /\ editing' = job["create"].room
<1>1. ASSUME Inv, [Next]_vars, Mixes PROVE Kept \/ Created
  <2> USE <1>1
  <2>1. CASE UNCHANGED <<form, editing>>
    BY <2>1
  <2>2. CASE Leave \/ CloseEdit
    BY <2>2 DEF Leave, CloseEdit, Render, FormFor, EditShown
  <2>3. ASSUME NEW m \in Rooms, OpenEdit(m) PROVE FALSE
    <3>1. form = NoRoom /\ Render(m, query)
      BY <2>3, Parts DEF OpenEdit, Uncovered, Inv, Typed
    <3>2. QED BY <3>1 DEF Render, FormFor
  <2>4. "create" \in Hooks
    BY DEF Hooks
  <2>5. ASSUME NEW hs \in SUBSET Hooks, NEW q, Finish(hs, q),
               "create" \in hs => hs \subseteq Waiting,
               \A h \in hs \cap Waiting : job'[h] = NoJob
        PROVE  Kept \/ Created
    BY <2>4, <2>5, FinishMixes, NoJobOK DEF Waiting, HandedOn
  <2>6. CASE Arrive
    BY <2>4, <2>5, <2>6 DEF Arrive, Settling, Waiting, HandedOn
  <2>7. CASE Lose
    <3>1. PICK q : Finish(GivenUp(q), q) /\ job' = Settling(GivenUp(q))
      BY <2>7 DEF Lose
    <3>2. GivenUp(q) \subseteq Waiting /\ Waiting \subseteq Hooks
      BY DEF GivenUp, Waiting, HandedOn
    <3>3. \A h \in GivenUp(q) : job'[h] = NoJob
      BY <3>1, <3>2 DEF Settling
    <3>4. QED BY <2>5, <3>1, <3>2, <3>3
  <2>8. ASSUME NEW h \in Hooks, Acknowledge(h) PROVE Kept \/ Created
    <3>1. PICK done \in SUBSET Hooks : Acked(h, done)
      BY <2>8, Acking
    <3>2. /\ Finish(done, Refetched) /\ job[h].phase = "done"
          /\ IF mounted THEN done \subseteq HandedOn ELSE done = {h}
          /\ \A i \in done : job'[i] = NoJob
      BY <3>1 DEF Acked
    <3>3. "create" \in done => job["create"].phase # "none"
      BY <3>2 DEF HandedOn
    <3>4. QED BY <3>2, <3>3, FinishMixes, NoJobOK
  <2>9. ASSUME NEW h \in Hooks, Commit(h) \/ Refuse(h) PROVE Kept
    BY <2>1, <2>9 DEF Commit, Refuse
  <2>10. CASE Enter \/ OpenCreate \/ CloseCreate \/ SubmitCreate \/ SubmitUpdate \/ Click \/ Serve
    BY <2>1, <2>10 DEF Enter, OpenCreate, CloseCreate, SubmitCreate, SubmitUpdate, Click, Serve,
       Submit
  <2>11. ASSUME NEW m \in Rooms, Delete(m) \/ OtherStaff(m) PROVE Kept
    BY <2>1, <2>11 DEF Delete, OtherStaff, Submit
  <2>12. CASE UNCHANGED vars
    BY <2>1, <2>12 DEF vars
  <2>13. QED
    BY <2>2, <2>3, <2>6, <2>7, <2>8, <2>9, <2>10, <2>11, <2>12 DEF Next, Return
<1>2. Inv /\ [Next]_vars => [Mixes => Kept \/ Created]_vars
  BY <1>1
<1>3. QED BY <1>2, Invariant, PTL DEF Spec, OnlyNewRoomMixes

-------------------------------------------------------------------------------
\* What is known of a new room between its commit and its modal: the list on
\* its way has it, unless it is gone again or the list was read before.
New == job["create"]
OnItsWay(m) == m \in query.fetch.got \/ table[m] = "gone"

NewRoomOK ==
    /\ query.data = NoData => job["update"].phase = "none" /\ job["other"].phase = "none"
    /\ New.phase \in {"done", "waiting", "handed on"} =>
          New.room \in Rooms /\ table[New.room] \in {"there", "gone"}
    /\ New.phase = "done" /\ query.data = NoData /\ query.fetch.got # NoData =>
          OnItsWay(New.room) \/ query.fetch.mark # "fine"
    /\ New.phase \in {"waiting", "handed on"} /\ New.here /\ query.fetch.got # NoData =>
          OnItsWay(New.room) \/ query.fetch.mark = "overtaken"

\* Mutations other than New room begin on a list, and what removes a room
\* leaves it gone.
LEMMA NewRoomKept ==
    ASSUME Inv, NewRoomOK, New' = New, query'.fetch.got = query.fetch.got,
           \A m \in Rooms : table[m] \in {"there", "gone"} => table'[m] \in {table[m], "gone"},
           query.fetch.mark = "overtaken" => query'.fetch.mark = "overtaken",
           query.data = NoData /\ query.fetch.mark # "fine" => query'.fetch.mark # "fine",
           query'.data = query.data,
           query.data = NoData => UNCHANGED <<job["update"], job["other"]>>
    PROVE  NewRoomOK'
<1> USE DEF NewRoomOK, OnItsWay
<1>1. New.phase \in {"done", "waiting", "handed on"} =>
         /\ New.room \in Rooms /\ table'[New.room] \in {"there", "gone"}
         /\ OnItsWay(New.room) => OnItsWay(New.room)'
  OBVIOUS
<1>2. QED BY <1>1 DEF New

\* A list is on its way that nothing has answered yet.
LEMMA NewRoomAsked ==
    ASSUME Inv, NewRoomOK, query'.fetch.got = NoData, table' = table,
           query'.data = NoData => job'["update"].phase = "none" /\ job'["other"].phase = "none",
           New'.phase \in {"done", "waiting", "handed on"} =>
              New.phase \in {"done", "waiting", "handed on"} /\ New'.room = New.room
    PROVE  NewRoomOK'
BY DEF NewRoomOK, New

LEMMA NewRoomStep == ASSUME Inv, Inv', NewRoomOK, [Next]_vars PROVE NewRoomOK'
<1>0. /\ query \in Cached /\ job \in [Hooks -> Jobs] /\ Hooks = {"create", "update", "other"}
      /\ table \in [Rooms -> {"unborn", "there", "gone"}] /\ mounted \in BOOLEAN
      /\ creating => mounted
  BY Parts DEF Inv, Typed, Hooks
<1>1. CASE /\ query' = query /\ job' = job
           /\ \A m \in Rooms : table[m] \in {"there", "gone"} => table'[m] \in {table[m], "gone"}
  BY <1>1, NewRoomKept DEF New
<1>2. CASE Leave
  <2>1. query' = query /\ table' = table
    BY <1>2 DEF Leave, Render
  <2>2. \A h \in Hooks : job'[h] = [job[h] EXCEPT !.here = FALSE]
    BY <1>2 DEF Leave
  <2>3. ASSUME NEW h \in Hooks
        PROVE  job'[h].phase = job[h].phase /\ job'[h].room = job[h].room /\ ~ job'[h].here
    <3>1. job'[h] = [job[h] EXCEPT !.here = FALSE] /\ job[h] \in Jobs
      BY <1>0, <2>2
    <3>2. QED BY <3>1 DEF Jobs
  <2>4. QED BY <1>0, <2>1, <2>3 DEF NewRoomOK, New, OnItsWay
<1>3. CASE Enter
  <2>1. query' = Mounted(query, "staff", Retry) /\ table' = table /\ job' = job
    BY <1>3 DEF Enter
  <2>2. query'.data = query.data /\ (query'.fetch.got = NoData \/ query'.fetch = query.fetch)
    BY <1>0, <2>1, MountedOK
  <2>3. CASE query'.fetch.got = NoData
    BY <2>1, <2>2, <2>3, NewRoomAsked DEF New, NewRoomOK
  <2>4. CASE query'.fetch = query.fetch
    BY <1>0, <2>1, <2>2, <2>4, NewRoomKept DEF New
  <2>5. QED BY <2>2, <2>3, <2>4
<1>4. ASSUME NEW h \in Hooks, NEW m, Submit(h, m), h # "create" => query.data # NoData
      PROVE  NewRoomOK'
  <2>1. query' = query /\ table' = table
        /\ job' = [job EXCEPT ![h] = [phase |-> "sent", room |-> m, here |-> h # "other"]]
    BY <1>4 DEF Submit
  <2>2. CASE h = "create"
    <3>1. New'.phase = "sent" /\ \A i \in {"update", "other"} : job'[i] = job[i]
      BY <1>0, <2>1, <2>2 DEF New
    <3>2. QED BY <2>1, <3>1 DEF NewRoomOK
  <2>3. CASE h # "create"
    <3>1. New' = New
      BY <1>0, <2>1, <2>3 DEF New
    <3>2. QED BY <1>4, <2>1, <2>3, <3>1, NewRoomKept
  <2>4. QED BY <2>2, <2>3
<1>5. CASE Serve
  <2>1. query' = Served(query, There) /\ table' = table /\ job' = job
    BY <1>5 DEF Serve
  <2>2. There \in Lists /\ Fetching(query)
    BY <1>5 DEF Serve, There, Lists
  <2>3. query'.data = query.data /\ query'.fetch.got = There
    BY <1>0, <2>1, <2>2, ServedOK
  <2>4. New.phase \in {"done", "waiting", "handed on"} =>
           New.room \in There \/ table[New.room] = "gone"
    BY DEF NewRoomOK, There
  <2>5. QED BY <2>1, <2>3, <2>4 DEF NewRoomOK, New, OnItsWay
<1>6. ASSUME NEW h \in Hooks, Commit(h) PROVE NewRoomOK'
  <2>1. /\ query'.data = query.data /\ query'.fetch.got = query.fetch.got
        /\ query.fetch.mark # "fine" => query'.fetch.mark = query.fetch.mark
        /\ query.fetch.got # NoData => query'.fetch.mark # "fine"
    <3>1. query' = Behind(query)
      BY <1>6 DEF Commit
    <3>2. QED BY <1>0, <3>1, BehindOK
  <2>2. job[h].phase = "sent"
    BY <1>6 DEF Commit
  <2>3. CASE h = "create"
    <3>1. PICK m \in Rooms : /\ table[m] = "unborn"
                             /\ table' = [table EXCEPT ![m] = "there"]
                             /\ job' = [job EXCEPT ![h].phase = "done", ![h].room = m]
      BY <1>6, <2>3 DEF Commit
    <3>2. New' = [New EXCEPT !.phase = "done", !.room = m]
      BY <1>0, <2>3, <3>1 DEF New
    <3>3. New'.phase = "done" /\ New'.room = m
      BY <1>0, <3>2 DEF New, Jobs
    <3>4. \A i \in {"update", "other"} : job'[i] = job[i]
      BY <1>0, <2>3, <3>1
    <3>5. table'[m] = "there"
      BY <1>0, <3>1
    <3>6. QED BY <2>1, <3>3, <3>4, <3>5 DEF NewRoomOK
  <2>4. CASE h # "create"
    <3>1. query.data # NoData
      BY <1>0, <2>2, <2>4 DEF NewRoomOK
    <3>2. job' = [job EXCEPT ![h].phase = "done", ![h].room = NoRoom]
      BY <1>6, <2>4 DEF Commit
    <3>3. New' = New
      BY <1>0, <2>4, <3>2 DEF New
    <3>4. \A m \in Rooms : table'[m] \in {table[m], "gone"}
      BY <1>0, <1>6, <2>4 DEF Commit
    <3>5. QED BY <2>1, <3>1, <3>3, <3>4, NewRoomKept
  <2>5. QED BY <2>3, <2>4
<1>7. ASSUME NEW h \in Hooks, Refuse(h) PROVE NewRoomOK'
  <2>1. query' = Forgiven(query) /\ table' = table /\ job' = [job EXCEPT ![h] = NoJob]
    BY <1>7 DEF Refuse
  <2>2. /\ query'.data = query.data /\ query'.fetch.got = query.fetch.got
        /\ query.fetch.mark = "overtaken" => query'.fetch.mark = "overtaken"
    BY <1>0, <2>1, ForgivenOK
  <2>3. job[h].phase # "none"
    BY <1>7 DEF Refuse
  <2>4. CASE h = "create"
    <3>1. New'.phase = "none" /\ \A i \in {"update", "other"} : job'[i] = job[i]
      BY <1>0, <2>1, <2>4, NoJobOK DEF New
    <3>2. QED BY <2>2, <3>1 DEF NewRoomOK
  <2>5. CASE h # "create"
    <3>1. query.data # NoData
      BY <1>0, <2>3, <2>5 DEF NewRoomOK
    <3>2. New' = New
      BY <1>0, <2>1, <2>5 DEF New
    <3>3. QED BY <2>1, <2>2, <3>1, <3>2, NewRoomKept
  <2>6. QED BY <2>4, <2>5
<1>8. ASSUME NEW hs \in SUBSET Hooks, job' = Settling(hs), table' = table,
             query'.fetch.got = NoData, query'.data = NoData => query.data = NoData
      PROVE  NewRoomOK'
  <2>1. \A h \in Hooks : job'[h] = IF h \in hs THEN NoJob ELSE job[h]
    BY <1>8 DEF Settling
  <2>2. \A h \in Hooks : job'[h] = NoJob \/ job'[h] = job[h]
    BY <2>1
  <2>3. NewRoomOK => (query'.data = NoData =>
                         job["update"].phase = "none" /\ job["other"].phase = "none")
    BY <1>8 DEF NewRoomOK
  <2>4. QED BY <1>0, <1>8, <2>2, <2>3, NewRoomAsked, NoJobOK DEF New
<1>9. CASE Arrive
  <2>1. /\ Fetching(query) /\ query.fetch.got # NoData /\ job' = Settling(Waiting)
        /\ table' = table /\ Finish(Waiting, Arrived(query))
    BY <1>9 DEF Arrive
  <2>2. Waiting \in SUBSET Hooks
    BY DEF Waiting, HandedOn
  <2>3. query' = Arrived(query)
    BY <2>1 DEF Finish, Render
  <2>4. query'.fetch.got = NoData /\ query'.data # NoData
    BY <1>0, <2>1, <2>3, ArrivedOK
  <2>5. QED BY <1>8, <2>1, <2>2, <2>4
<1>10. CASE Lose
  <2>1. PICK hs : /\ Fetching(query) /\ job' = Settling(hs) /\ table' = table
                  /\ Finish(hs, Lost(query, "staff")) /\ hs \subseteq Waiting
    BY <1>10 DEF Lose, GivenUp
  <2>2. hs \in SUBSET Hooks
    BY <2>1 DEF Waiting, HandedOn
  <2>3. query' = Lost(query, "staff")
    BY <2>1 DEF Finish, Render
  <2>4. query'.fetch.got = NoData /\ query'.data = query.data
    BY <1>0, <2>1, <2>3, LostOK
  <2>5. QED BY <1>8, <2>1, <2>2, <2>4
<1>11. ASSUME NEW h \in Hooks, Acknowledge(h) PROVE NewRoomOK'
  <2>1. PICK done \in SUBSET Hooks : Acked(h, done)
    BY <1>11, Acking
  <2>2. /\ Finish(done, Refetched) /\ job[h].phase = "done" /\ table' = table
        /\ IF mounted THEN done \subseteq HandedOn ELSE done = {h}
    BY <2>1 DEF Acked
  <2>3. query' = Invalidated(Overtaken(query, mounted), mounted, "staff", Retry)
    BY <2>2 DEF Finish, Render, Refetched
  <2>4. /\ query'.data = query.data
        /\ mounted /\ ~ Loading(query) => query'.fetch.got = NoData
        /\ ~ (mounted /\ ~ Loading(query)) =>
              /\ query'.fetch.got = query.fetch.got
              /\ query.fetch.mark # "fine" => query'.fetch.mark = "overtaken"
    BY <1>0, <2>3, InvalidatedOK
  <2>5. query.data = NoData => h = "create"
    BY <1>0, <2>2 DEF NewRoomOK
  <2>6. query.data = NoData => job'["update"].phase = "none" /\ job'["other"].phase = "none"
    <3>1. SUFFICES ASSUME query.data = NoData, NEW i \in {"update", "other"}
                   PROVE  job'[i].phase = "none"
      OBVIOUS
    <3>2. i # h /\ i \in Hooks /\ job[i].phase = "none"
      BY <1>0, <2>5, <3>1 DEF NewRoomOK
    <3>3. i \in done => job'[i].phase = "none"
      BY <2>1, NoJobOK DEF Acked
    <3>4. i \notin done => job'[i].phase = "none"
      BY <2>1, <3>2 DEF Acked
    <3>5. QED BY <3>3, <3>4
  <2>7. \/ New'.phase = "none"
        \/ /\ New'.room = New.room /\ New'.here = New.here
           /\ \/ New'.phase = New.phase
              \/ New.phase \in {"done", "waiting"} /\ New'.phase \in {"waiting", "handed on"}
    <3>1. CASE "create" \in done
      BY <2>1, <3>1, NoJobOK DEF Acked, New
    <3>2. CASE "create" \notin done
      BY <1>0, <2>1, <2>2, <3>2 DEF Acked, New
    <3>3. QED BY <3>1, <3>2
  <2>8. h = "create" => New'.phase \in {"none", "waiting"} /\ New.phase = "done"
    BY <1>0, <2>1, <2>2, NoJobOK DEF Acked, New
  <2>9. CASE query'.fetch.got = NoData
    BY <2>2, <2>4, <2>6, <2>7, <2>9, NewRoomAsked
  <2>10. CASE mounted /\ Loading(query) /\ query'.fetch.got # NoData
    <3>1. h = "create" /\ query.data = NoData
      BY <2>5, <2>10 DEF Loading
    <3>2. QED BY <2>2, <2>4, <2>6, <2>7, <2>8, <2>10, <3>1 DEF NewRoomOK, OnItsWay
  <2>11. CASE ~ mounted
    <3>1. ~ New.here
      BY <1>0, <2>11 DEF Inv, CalledHere, New
    <3>2. New'.phase = New.phase \/ New'.phase = "none" \/ New'.phase \in {"waiting", "handed on"}
      BY <2>7
    <3>3. New'.phase = "done" => New'.room = New.room /\ New.phase = "done"
      BY <2>7
    <3>4. New'.phase # "none" => ~ New'.here
      BY <2>7, <3>1
    <3>5. QED BY <2>2, <2>4, <2>6, <2>7, <2>11, <3>2, <3>3, <3>4 DEF NewRoomOK, OnItsWay
  <2>12. QED BY <1>0, <2>4, <2>9, <2>10, <2>11
<1>12. CASE SubmitCreate \/ SubmitUpdate \/ Click \/ \E m \in Rooms : Delete(m)
  BY <1>0, <1>4, <1>12 DEF SubmitCreate, SubmitUpdate, Click, Delete, EditShown
<1>13. CASE OpenCreate \/ CloseCreate \/ CloseEdit \/ \E m \in Rooms : OpenEdit(m) \/ OtherStaff(m)
  BY <1>0, <1>1, <1>13 DEF OpenCreate, CloseCreate, CloseEdit, OpenEdit, OtherStaff, Render
<1>14. CASE UNCHANGED vars
  BY <1>1, <1>14 DEF vars
<1>15. QED
  BY <1>2, <1>3, <1>5, <1>6, <1>7, <1>9, <1>10, <1>11, <1>12, <1>13, <1>14 DEF Next, Return

\* SAFETY (action).  CreatedRoomIsListed: the room that New room opens in Edit
\* is on the list it is looked up in, but for the cases the property names.
THEOREM NewRoomIsListed == Spec => CreatedRoomIsListed
<1> DEFINE Opened == creating /\ ~ creating' /\ editing' \notin {NoRoom, editing}
           Excused == \/ EditShown(editing', query')
                      \/ table[editing'] = "gone"
                      \/ query'.failed \/ query'.mark = "overtaken"
                      \/ "create" \in HandedOn
                            /\ \E h \in Hooks : job[h].phase = "done" /\ job'[h].phase = "waiting"
<1>1. ASSUME Inv, NewRoomOK, [Next]_vars, Opened PROVE Excused
  <2> USE <1>1
  <2>0. /\ query \in Cached /\ job \in [Hooks -> Jobs] /\ "create" \in Hooks
        /\ creating => mounted
    BY Parts DEF Inv, Typed, Hooks
  <2>1. CASE creating' = creating
    BY <2>1
  <2>2. CASE editing' \in {NoRoom, editing}
    BY <2>2
  <2>3. ASSUME NEW hs, NEW q, Finish(hs, q)
        PROVE  New.here /\ "create" \in hs /\ editing' = New.room /\ query' = q
    BY <2>3 DEF Finish, Called, Render, New
  <2>4. CASE Arrive
    <3>1. Finish(Waiting, Arrived(query)) /\ Fetching(query) /\ query.fetch.got # NoData
      BY <2>4 DEF Arrive
    <3>2. /\ New.here /\ New.phase \in {"waiting", "handed on"} /\ editing' = New.room
          /\ query' = Arrived(query)
      <4>1. New.here /\ "create" \in Waiting /\ editing' = New.room /\ query' = Arrived(query)
        BY <2>3, <3>1
      <4>2. New.phase \in {"waiting", "handed on"}
        BY <2>0, <4>1, WaitingOf DEF New
      <4>3. QED BY <4>1, <4>2
    <3>3. query'.data = query.fetch.got /\ query'.mark = query.fetch.mark
      BY <2>0, <3>1, <3>2, ArrivedOK
    <3>4. QED BY <3>1, <3>2, <3>3 DEF NewRoomOK, OnItsWay, EditShown
  <2>5. CASE Lose
    <3>1. Finish(GivenUp(Lost(query, "staff")), Lost(query, "staff")) /\ Fetching(query)
      BY <2>5 DEF Lose
    <3>2. "create" \in GivenUp(Lost(query, "staff")) /\ query' = Lost(query, "staff")
      BY <2>3, <3>1
    <3>3. ~ Fetching(query')
      BY <3>2 DEF GivenUp
    <3>4. query'.failed
      BY <2>0, <3>1, <3>2, <3>3, LostOK
    <3>5. QED BY <3>4
  <2>6. ASSUME NEW h \in Hooks, Acknowledge(h) PROVE Excused
    <3>1. PICK done \in SUBSET Hooks : Acked(h, done)
      BY <2>6, Acking
    <3>2. "create" \in done /\ mounted
      BY <2>0, <2>3, <3>1 DEF Acked
    <3>3. "create" \in HandedOn /\ done \subseteq HandedOn /\ job[h].phase = "done"
      BY <3>1, <3>2 DEF Acked
    <3>4. h \notin done
      BY <3>3 DEF HandedOn
    <3>5. job'[h].phase = "waiting"
      BY <3>1, <3>4 DEF Acked
    <3>6. QED BY <3>3, <3>5
  <2>7. CASE Leave \/ CloseEdit
    BY <2>2, <2>7 DEF Leave, CloseEdit, Render
  <2>8. ASSUME NEW h \in Hooks, Commit(h) \/ Refuse(h) PROVE Excused
    BY <2>1, <2>8 DEF Commit, Refuse
  <2>9. CASE Enter \/ OpenCreate \/ CloseCreate \/ SubmitCreate \/ SubmitUpdate \/ Click \/ Serve
    BY <2>2, <2>9 DEF Enter, OpenCreate, CloseCreate, SubmitCreate, SubmitUpdate, Click, Serve,
       Submit
  <2>10. ASSUME NEW m \in Rooms, OpenEdit(m) \/ Delete(m) \/ OtherStaff(m) PROVE Excused
    BY <2>1, <2>2, <2>10 DEF OpenEdit, Delete, OtherStaff, Submit
  <2>11. CASE UNCHANGED vars
    BY <2>1, <2>11 DEF vars
  <2>12. QED
    BY <2>4, <2>5, <2>6, <2>7, <2>8, <2>9, <2>10, <2>11 DEF Next, Return
<1>2. Inv /\ NewRoomOK /\ [Next]_vars => [Opened => Excused]_vars
  BY <1>1
<1>3. Init => NewRoomOK
  <2> SUFFICES ASSUME Init PROVE NewRoomOK
    OBVIOUS
  <2>1. \A h \in Hooks : job[h].phase = "none"
    BY NoJobOK DEF Init
  <2>2. QED BY <2>1 DEF NewRoomOK, New, Hooks
<1>4. Inv /\ Inv' /\ NewRoomOK /\ [Next]_vars => NewRoomOK'
  BY NewRoomStep
<1>5. QED BY <1>2, <1>3, <1>4, Invariant, PTL DEF Spec, CreatedRoomIsListed

===============================================================================
