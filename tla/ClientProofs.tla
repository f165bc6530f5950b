----------------------------- MODULE ClientProofs -----------------------------
(***************************************************************************)
(* Theorems about Client for every set of people, pages' queries and       *)
(* number of retries.                                                      *)
(***************************************************************************)
EXTENDS Client, TLAPS

-------------------------------------------------------------------------------
(* The cache, one key at a time. *)

FetchRow == [as : Session, got : Session \cup {NoData}, left : 0 .. Retry, mark : Marks]
Row == [data : Session \cup {NoData}, failed : BOOLEAN, mark : Marks,
        fetch : {NoFetch} \cup FetchRow]
Cache == [Keys -> Row]

\* A request that is under way is never taken for none.
LEMMA NamesApart ==
    /\ NoData \notin Session
    /\ "nobody asks" \notin Session
    /\ Nobody \notin People
    /\ NoFetch \notin FetchRow
BY ClientAssumption DEF Session, NoData, NoFetch, FetchRow

\* What a row holds.
LEMMA RowFields ==
    ASSUME NEW q \in Row
    PROVE  /\ q.data \in Session \cup {NoData} /\ q.failed \in BOOLEAN /\ q.mark \in Marks
           /\ q.fetch \in {NoFetch} \cup FetchRow
           /\ q.fetch.mark \in Marks
           /\ ~ Fetching(q) => q.fetch = NoFetch /\ q.fetch.mark = "fine" /\ q.fetch.got = NoData
           /\ Fetching(q) => /\ q.fetch \in FetchRow
                             /\ q.fetch.as \in Session /\ q.fetch.got \in Session \cup {NoData}
                             /\ q.fetch.left \in 0 .. Retry
<1>1. /\ q.data \in Session \cup {NoData} /\ q.failed \in BOOLEAN /\ q.mark \in Marks
      /\ q.fetch \in {NoFetch} \cup FetchRow
  BY DEF Row
<1>2. NoFetch.mark = "fine" /\ NoFetch.got = NoData
  BY DEF NoFetch
<1>3. \A f \in FetchRow : f.mark \in Marks /\ f.as \in Session /\ f.got \in Session \cup {NoData}
                             /\ f.left \in 0 .. Retry
  BY DEF FetchRow
<1>4. QED BY <1>1, <1>2, <1>3 DEF Fetching, Marks

\* A row is a row with any field replaced.
LEMMA RowWith ==
    ASSUME NEW q \in Row, NEW s
    PROVE  /\ \A d \in Session \cup {NoData} : s = [q EXCEPT !.data = d] =>
                s \in Row /\ s.data = d /\ s.failed = q.failed
                  /\ s.mark = q.mark /\ s.fetch = q.fetch
           /\ \A m \in Marks : s = [q EXCEPT !.mark = m] =>
                s \in Row /\ s.data = q.data /\ s.failed = q.failed
                  /\ s.mark = m /\ s.fetch = q.fetch
           /\ \A e \in BOOLEAN : s = [q EXCEPT !.failed = e] =>
                s \in Row /\ s.data = q.data /\ s.failed = e
                  /\ s.mark = q.mark /\ s.fetch = q.fetch
           /\ \A f \in {NoFetch} \cup FetchRow : s = [q EXCEPT !.fetch = f] =>
                s \in Row /\ s.data = q.data /\ s.failed = q.failed
                  /\ s.mark = q.mark /\ s.fetch = f
<1>1. ASSUME NEW d \in Session \cup {NoData}, s = [q EXCEPT !.data = d]
      PROVE  s \in Row /\ s.data = d /\ s.failed = q.failed /\ s.mark = q.mark /\ s.fetch = q.fetch
  BY <1>1 DEF Row
<1>2. ASSUME NEW m \in Marks, s = [q EXCEPT !.mark = m]
      PROVE  s \in Row /\ s.data = q.data /\ s.failed = q.failed /\ s.mark = m /\ s.fetch = q.fetch
  BY <1>2 DEF Row
<1>3. ASSUME NEW e \in BOOLEAN, s = [q EXCEPT !.failed = e]
      PROVE  s \in Row /\ s.data = q.data /\ s.failed = e /\ s.mark = q.mark /\ s.fetch = q.fetch
  BY <1>3 DEF Row
<1>4. ASSUME NEW f \in {NoFetch} \cup FetchRow, s = [q EXCEPT !.fetch = f]
      PROVE  s \in Row /\ s.data = q.data /\ s.failed = q.failed /\ s.mark = q.mark /\ s.fetch = f
  BY <1>4 DEF Row
<1>5. QED BY <1>1, <1>2, <1>3, <1>4, Zenon

\* Only the mark of a request changes.
LEMMA MarkedFetch ==
    ASSUME NEW f \in {NoFetch} \cup FetchRow, NEW n \in Marks, f = NoFetch => n = "fine",
           NEW g, g = [f EXCEPT !.mark = n]
    PROVE  /\ g.as = f.as /\ g.got = f.got /\ g.mark = n
           /\ g \in {NoFetch} \cup FetchRow /\ (g = NoFetch <=> f = NoFetch)
<1>1. CASE f \in FetchRow
  <2>1. g \in FetchRow /\ g.as = f.as /\ g.got = f.got /\ g.mark = n
    BY <1>1 DEF FetchRow
  <2>2. QED BY <1>1, <2>1, NamesApart
<1>2. CASE f = NoFetch
  <2>1. ASSUME NEW a, NEW b, NEW c
        PROVE  [[as |-> a, got |-> b, left |-> c, mark |-> "fine"] EXCEPT !.mark = "fine"]
                  = [as |-> a, got |-> b, left |-> c, mark |-> "fine"]
    OBVIOUS
  <2>2. [NoFetch EXCEPT !.mark = "fine"] = NoFetch
    BY <2>1, Zenon DEF NoFetch
  <2>3. g = NoFetch
    BY <1>2, <2>2
  <2>4. NoFetch.mark = "fine"
    BY DEF NoFetch
  <2>5. QED BY <1>2, <2>3, <2>4
<1>3. QED BY <1>1, <1>2

\* A row with another mark, and another mark of its request.
Marked(q, m, n) == [q EXCEPT !.mark = m, !.fetch.mark = n]

\* Another mark changes neither what a row holds nor what is under way.
LEMMA MarkedRow ==
    ASSUME NEW q \in Row, NEW m \in Marks, NEW n \in Marks, ~ Fetching(q) => n = "fine"
    PROVE  /\ Marked(q, m, n) \in Row /\ (Fetching(Marked(q, m, n)) <=> Fetching(q))
           /\ Marked(q, m, n).data = q.data /\ Marked(q, m, n).failed = q.failed
           /\ Marked(q, m, n).mark = m /\ Marked(q, m, n).fetch.mark = n
           /\ Marked(q, m, n).fetch.as = q.fetch.as
           /\ Marked(q, m, n).fetch.got = q.fetch.got
<1>0. PICK s : s = Marked(q, m, n)
  OBVIOUS
<1>1. PICK p : p = [q EXCEPT !.mark = m]
  OBVIOUS
<1>2. /\ p \in Row /\ p.mark = m /\ p.fetch = q.fetch
      /\ p.data = q.data /\ p.failed = q.failed
  BY <1>1, RowWith
<1>3. PICK g : g = [q.fetch EXCEPT !.mark = n]
  OBVIOUS
<1>4. /\ g.as = q.fetch.as /\ g.got = q.fetch.got /\ g.mark = n
      /\ g \in {NoFetch} \cup FetchRow /\ (g = NoFetch <=> q.fetch = NoFetch)
  BY <1>3, RowFields, MarkedFetch DEF Fetching
<1>5. s = [p EXCEPT !.fetch = g]
  BY <1>0, <1>1, <1>2, <1>3, Zenon DEF Marked
<1>6. s \in Row /\ s.data = p.data /\ s.failed = p.failed /\ s.mark = p.mark /\ s.fetch = g
  BY <1>2, <1>4, <1>5, RowWith
<1>7. QED BY <1>0, <1>2, <1>4, <1>6 DEF Fetching

\* A new request.
LEMMA RequestRow ==
    ASSUME NEW as \in Session, NEW n \in 0 .. Retry
    PROVE  /\ Request(as, n) \in FetchRow /\ Request(as, n) # NoFetch
           /\ Request(as, n).as = as /\ Request(as, n).got = NoData
           /\ Request(as, n).mark = "fine"
<1>1. /\ Request(as, n) \in FetchRow
      /\ Request(as, n).as = as /\ Request(as, n).got = NoData /\ Request(as, n).mark = "fine"
  BY DEF Request, FetchRow, Marks
<1>2. QED BY <1>1, NamesApart

\* A row whose request was just sent.
LEMMA SentRow ==
    ASSUME NEW q \in Row, NEW as \in Session, NEW n \in 0 .. Retry
    PROVE  /\ Sent(q, as, n) \in Row
           /\ Fetching(Sent(q, as, n))
           /\ Sent(q, as, n).data = q.data
           /\ Sent(q, as, n).mark = "fine"
           /\ Sent(q, as, n).fetch.as = as
           /\ Sent(q, as, n).fetch.got = NoData
           /\ Sent(q, as, n).fetch.mark = "fine"
<1>0. PICK s : s = Sent(q, as, n)
  OBVIOUS
<1>1. PICK f : f = Request(as, n)
  OBVIOUS
<1>2. PICK p : p = [q EXCEPT !.fetch = f]
  OBVIOUS
<1>3. f \in FetchRow /\ f # NoFetch /\ f.as = as /\ f.got = NoData /\ f.mark = "fine"
  BY <1>1, RequestRow
<1>4. p \in Row /\ p.fetch = f /\ p.data = q.data
  BY <1>2, <1>3, RowWith
<1>5. s = [p EXCEPT !.mark = "fine"]
  BY <1>0, <1>1, <1>2, Zenon DEF Sent
<1>6. s \in Row /\ s.mark = "fine" /\ s.fetch = f /\ s.data = q.data
  BY <1>4, <1>5, RowWith DEF Marks
<1>7. QED BY <1>0, <1>3, <1>6 DEF Fetching

\* What each step makes of a key is a row again: an answer on its way,
LEMMA ServedRow ==
    ASSUME NEW q \in Row, Fetching(q)
    PROVE  /\ Served(q, q.fetch.as) \in Row
           /\ Fetching(Served(q, q.fetch.as))
           /\ Served(q, q.fetch.as).data = q.data
           /\ Served(q, q.fetch.as).failed = q.failed /\ Served(q, q.fetch.as).mark = q.mark
           /\ Served(q, q.fetch.as).fetch.as = q.fetch.as
           /\ Served(q, q.fetch.as).fetch.got = q.fetch.as
           /\ Served(q, q.fetch.as).fetch.mark = q.fetch.mark
<1>0. PICK s : s = Served(q, q.fetch.as)
  OBVIOUS
<1>1. PICK g : g = [q.fetch EXCEPT !.got = q.fetch.as]
  OBVIOUS
<1>2. /\ g \in FetchRow /\ g.as = q.fetch.as /\ g.got = q.fetch.as /\ g.mark = q.fetch.mark
  BY <1>1, RowFields DEF FetchRow
<1>3. s = [q EXCEPT !.fetch = g]
  BY <1>0, <1>1, Zenon DEF Served
<1>4. s \in Row /\ s.data = q.data /\ s.failed = q.failed /\ s.mark = q.mark /\ s.fetch = g
  BY <1>2, <1>3, RowWith
<1>5. QED BY <1>0, <1>2, <1>4, NamesApart DEF Fetching

\* an answer that has arrived,
LEMMA ArrivedRow ==
    ASSUME NEW q \in Row, Fetching(q)
    PROVE  /\ Arrived(q) \in Row /\ ~ Fetching(Arrived(q))
           /\ Arrived(q).data = q.fetch.got /\ Arrived(q).mark = q.fetch.mark
<1>0. PICK s : s = Arrived(q)
  OBVIOUS
<1>1. q.fetch.got \in Session \cup {NoData} /\ q.fetch.mark \in Marks
  BY RowFields
<1>2. QED BY <1>0, <1>1 DEF Row, Arrived, Fetching

\* a request sent again or given up,
LEMMA LostRow ==
    ASSUME NEW q \in Row, NEW as \in Session, Fetching(q)
    PROVE  /\ Lost(q, as) \in Row /\ Lost(q, as).data = q.data
           /\ \/ /\ Fetching(Lost(q, as))
                 /\ Lost(q, as).fetch.as = as
                 /\ Lost(q, as).fetch.got = NoData
                 /\ Lost(q, as).fetch.mark = "fine" /\ q.fetch.left > 0
              \/ ~ Fetching(Lost(q, as)) /\ Lost(q, as).failed
<1>0. PICK s : s = Lost(q, as)
  OBVIOUS
<1>1. CASE q.fetch.left > 0
  <2>1. q.fetch.left - 1 \in 0 .. Retry
    <3>1. Retry \in Nat /\ q.fetch.left \in 0 .. Retry
      BY RowFields, ClientAssumption
    <3>2. QED BY <1>1, <3>1
  <2>2. PICK f : f = Request(as, q.fetch.left - 1)
    OBVIOUS
  <2>3. /\ f \in FetchRow /\ f # NoFetch
        /\ f.as = as /\ f.got = NoData /\ f.mark = "fine"
    BY <2>1, <2>2, RequestRow
  <2>4. s = [q EXCEPT !.fetch = f]
    BY <1>0, <1>1, <2>2, Zenon DEF Lost
  <2>5. s \in Row /\ s.data = q.data /\ s.fetch = f
    BY <2>3, <2>4, RowWith
  <2>6. QED BY <1>0, <1>1, <2>3, <2>5 DEF Fetching
<1>2. CASE ~ (q.fetch.left > 0)
  <2>1. PICK p : p = [q EXCEPT !.fetch = NoFetch]
    OBVIOUS
  <2>2. p \in Row /\ p.data = q.data /\ p.fetch = NoFetch
    BY <2>1, RowWith
  <2>3. PICK t : t = [p EXCEPT !.failed = TRUE]
    OBVIOUS
  <2>4. t \in Row /\ t.data = q.data /\ t.fetch = NoFetch /\ t.failed
    BY <2>2, <2>3, RowWith
  <2>5. s = [t EXCEPT !.mark = "fine"]
    BY <1>0, <1>2, <2>1, <2>3, Zenon DEF Lost
  <2>6. s \in Row /\ s.data = q.data /\ s.fetch = NoFetch /\ s.failed
    BY <2>4, <2>5, RowWith DEF Marks
  <2>7. QED BY <1>0, <1>2, <2>6 DEF Fetching
<1>3. QED BY <1>1, <1>2

\* a write committed,
LEMMA BehindRow ==
    ASSUME NEW q \in Row
    PROVE  /\ Behind(q) \in Row
           /\ (Fetching(Behind(q)) <=> Fetching(q))
           /\ Behind(q).data = q.data
           /\ Behind(q).failed = q.failed
           /\ Behind(q).mark = "overtaken" <=> q.mark = "overtaken"
           /\ Behind(q).fetch.as = q.fetch.as /\ Behind(q).fetch.got = q.fetch.got
           /\ Behind(q).fetch.mark = "overtaken" <=> q.fetch.mark = "overtaken"
<1>0. PICK s : s = Behind(q)
  OBVIOUS
<1> DEFINE m == IF Settled(q) /\ q.mark = "fine" THEN "behind" ELSE q.mark
           n == IF q.fetch.got # NoData /\ q.fetch.mark = "fine" THEN "behind"
                ELSE q.fetch.mark
<1>1. m \in Marks /\ n \in Marks /\ (~ Fetching(q) => n = "fine")
  BY RowFields DEF Marks
<1>2. s = Marked(q, m, n)
  BY <1>0, Zenon DEF Behind, Marked
<1>3. (m = "overtaken" <=> q.mark = "overtaken") /\ (n = "overtaken" <=> q.fetch.mark = "overtaken")
  OBVIOUS
<1> HIDE DEF m, n
<1>4. /\ s \in Row /\ (Fetching(s) <=> Fetching(q)) /\ s.data = q.data
      /\ s.failed = q.failed /\ s.mark = m
      /\ s.fetch.as = q.fetch.as /\ s.fetch.got = q.fetch.got
      /\ s.fetch.mark = n
  BY <1>1, <1>2, MarkedRow
<1>5. QED BY <1>0, <1>3, <1>4

\* a write the tab will not hear of,
LEMMA ForgivenRow ==
    ASSUME NEW q \in Row
    PROVE  /\ Forgiven(q) \in Row
           /\ (Fetching(Forgiven(q)) <=> Fetching(q))
           /\ Forgiven(q).data = q.data
           /\ Forgiven(q).failed = q.failed
           /\ Forgiven(q).mark # "behind"
           /\ (Forgiven(q).mark = "overtaken" <=> q.mark = "overtaken")
           /\ Forgiven(q).fetch.as = q.fetch.as /\ Forgiven(q).fetch.got = q.fetch.got
           /\ Forgiven(q).fetch.mark # "behind"
           /\ Forgiven(q).fetch.mark = "overtaken" <=> q.fetch.mark = "overtaken"
<1>0. PICK s : s = Forgiven(q)
  OBVIOUS
<1> DEFINE m == IF q.mark = "behind" THEN "fine" ELSE q.mark
           n == IF q.fetch.mark = "behind" THEN "fine" ELSE q.fetch.mark
<1>1. m \in Marks /\ n \in Marks /\ (~ Fetching(q) => n = "fine")
  BY RowFields DEF Marks
<1>2. s = Marked(q, m, n)
  BY <1>0, Zenon DEF Forgiven, Marked
<1>3. /\ m # "behind" /\ n # "behind"
      /\ m = "overtaken" <=> q.mark = "overtaken"
      /\ n = "overtaken" <=> q.fetch.mark = "overtaken"
  OBVIOUS
<1> HIDE DEF m, n
<1>4. /\ s \in Row /\ (Fetching(s) <=> Fetching(q)) /\ s.data = q.data
      /\ s.failed = q.failed /\ s.mark = m
      /\ s.fetch.as = q.fetch.as /\ s.fetch.got = q.fetch.got
      /\ s.fetch.mark = n
  BY <1>1, <1>2, MarkedRow
<1>5. QED BY <1>0, <1>3, <1>4

\* another session,
LEMMA ForeignRow ==
    ASSUME NEW q \in Row, NEW active \in BOOLEAN
    PROVE  /\ Foreign(q, active) \in Row
           /\ (Fetching(Foreign(q, active)) <=> Fetching(q))
           /\ Foreign(q, active).data = q.data
           /\ Foreign(q, active).failed = q.failed
           /\ active => Foreign(q, active).mark = "overtaken"
           /\ ~ active => Foreign(q, active).mark = q.mark
           /\ Fetching(q) => Foreign(q, active).fetch.mark = "overtaken"
<1>0. PICK s : s = Foreign(q, active)
  OBVIOUS
<1> DEFINE m == IF active THEN "overtaken" ELSE q.mark
           n == IF Fetching(q) THEN "overtaken" ELSE q.fetch.mark
<1>1. m \in Marks /\ n \in Marks /\ (~ Fetching(q) => n = "fine")
  BY RowFields DEF Marks
<1>2. s = Marked(q, m, n)
  BY <1>0, Zenon DEF Foreign, Marked
<1>3. (active => m = "overtaken") /\ (~ active => m = q.mark) /\ (Fetching(q) => n = "overtaken")
  OBVIOUS
<1> HIDE DEF m, n
<1>4. /\ s \in Row /\ (Fetching(s) <=> Fetching(q)) /\ s.data = q.data
      /\ s.failed = q.failed /\ s.mark = m
      /\ s.fetch.as = q.fetch.as /\ s.fetch.got = q.fetch.got
      /\ s.fetch.mark = n
  BY <1>1, <1>2, MarkedRow
<1>5. QED BY <1>0, <1>3, <1>4

\* A key whose request under way the invalidation does not restart.
Kept(q) == IF q.fetch.mark = "behind" THEN [q EXCEPT !.fetch.mark = "overtaken"] ELSE q

\* and an invalidation that does not restart it.
LEMMA KeptRow ==
    ASSUME NEW q \in Row
    PROVE  /\ Kept(q) \in Row /\ Kept(q).data = q.data
           /\ Kept(q).failed = q.failed /\ Kept(q).mark = q.mark
           /\ Fetching(Kept(q)) <=> Fetching(q)
           /\ Kept(q).fetch.as = q.fetch.as /\ Kept(q).fetch.got = q.fetch.got
           /\ Kept(q).fetch.mark # "behind"
           /\ Kept(q).fetch.mark # "overtaken" => q.fetch.mark # "overtaken"
<1>0. PICK s : s = Kept(q)
  OBVIOUS
<1>1. CASE q.fetch.mark = "behind"
  <2>1. s = [q EXCEPT !.fetch.mark = "overtaken"]
    BY <1>0, <1>1, Zenon DEF Kept
  <2>2. Fetching(q) /\ "overtaken" \in Marks /\ q.fetch.mark # "overtaken"
    BY <1>1, RowFields DEF Marks
  <2>3. PICK g : g = [q.fetch EXCEPT !.mark = "overtaken"]
    OBVIOUS
  <2>4. /\ g.as = q.fetch.as /\ g.got = q.fetch.got /\ g.mark = "overtaken"
        /\ g \in {NoFetch} \cup FetchRow /\ (g = NoFetch <=> q.fetch = NoFetch)
    BY <2>2, <2>3, RowFields, MarkedFetch DEF Fetching
  <2>5. s = [q EXCEPT !.fetch = g]
    BY <2>1, <2>3, Zenon
  <2>6. s \in Row /\ s.data = q.data /\ s.failed = q.failed /\ s.mark = q.mark /\ s.fetch = g
    BY <2>4, <2>5, RowWith
  <2>7. QED BY <1>0, <2>2, <2>4, <2>6 DEF Fetching
<1>2. CASE q.fetch.mark # "behind"
  <2>1. s = q
    BY <1>0, <1>2, Zenon DEF Kept
  <2>2. QED BY <1>0, <1>2, <2>1
<1>3. QED BY <1>1, <1>2

-------------------------------------------------------------------------------
(* What the invariant says of a row. *)

\* Of the session and the list of reservations: what is under way was asked
\* for by the session there is, and what is on the screen is its own.
OwnRow(r, active, c) ==
    /\ Fetching(r) /\ r.fetch.mark # "overtaken" => r.fetch.as = c /\ r.fetch.got \in {NoData, c}
    /\ active /\ Settled(r) /\ r.mark # "overtaken" => r.data = c

\* Of the other keys, unless a booking is committed and not yet acknowledged:
\* nothing under way or on the screen is behind a write.
CleanRow(r, active) ==
    /\ r.fetch.mark # "behind"
    /\ active /\ Settled(r) => r.mark # "behind"

\* Each of those steps keeps both.
LEMMA OwnServed ==
    ASSUME NEW q \in Row, NEW active \in BOOLEAN, NEW c, Fetching(q)
    PROVE  /\ OwnRow(q, active, c) => OwnRow(Served(q, q.fetch.as), active, c)
           /\ CleanRow(q, active) => CleanRow(Served(q, q.fetch.as), active)
BY ServedRow DEF OwnRow, CleanRow, Settled

LEMMA OwnArrived ==
    ASSUME NEW q \in Row, NEW active \in BOOLEAN, NEW c, Fetching(q), q.fetch.got # NoData
    PROVE  /\ OwnRow(q, active, c) => OwnRow(Arrived(q), active, c)
           /\ CleanRow(q, active) => CleanRow(Arrived(q), active)
BY ArrivedRow, RowFields DEF OwnRow, CleanRow

LEMMA OwnLost ==
    ASSUME NEW q \in Row, NEW active \in BOOLEAN, NEW c \in Session, Fetching(q)
    PROVE  OwnRow(Lost(q, c), active, c)
BY LostRow DEF OwnRow, Settled

LEMMA CleanLost ==
    ASSUME NEW q \in Row, NEW active \in BOOLEAN, NEW as \in Session, Fetching(q)
    PROVE  CleanRow(Lost(q, as), active)
BY LostRow, RowFields DEF CleanRow, Settled

LEMMA OwnSent ==
    ASSUME NEW q \in Row, NEW active \in BOOLEAN, NEW as \in Session, NEW n \in 0 .. Retry
    PROVE  OwnRow(Sent(q, as, n), active, as) /\ CleanRow(Sent(q, as, n), active)
BY SentRow DEF OwnRow, CleanRow, Settled

LEMMA OwnMounted ==
    ASSUME NEW q \in Row, NEW active \in BOOLEAN, NEW as \in Session, NEW n \in 0 .. Retry
    PROVE  /\ Mounted(q, as, n) \in Row /\ Mounted(q, as, n).data = q.data
           /\ OwnRow(q, FALSE, as) => OwnRow(Mounted(q, as, n), active, as)
           /\ CleanRow(q, FALSE) => CleanRow(Mounted(q, as, n), active)
<1>1. CASE Fetching(q)
  <2>1. Mounted(q, as, n) = q
    BY <1>1, Zenon DEF Mounted
  <2>2. QED BY <1>1, <2>1 DEF OwnRow, CleanRow, Settled
<1>2. CASE ~ Fetching(q)
  <2>1. Mounted(q, as, n) = Sent(q, as, n)
    BY <1>2, Zenon DEF Mounted
  <2>2. Sent(q, as, n) \in Row /\ Sent(q, as, n).data = q.data
    BY SentRow
  <2>3. OwnRow(Sent(q, as, n), active, as) /\ CleanRow(Sent(q, as, n), active)
    BY OwnSent
  <2>4. QED BY <2>1, <2>2, <2>3, Zenon
<1>3. QED BY <1>1, <1>2, Zenon

LEMMA OwnBehind ==
    ASSUME NEW q \in Row, NEW active \in BOOLEAN, NEW c, OwnRow(q, active, c)
    PROVE  OwnRow(Behind(q), active, c)
BY BehindRow DEF OwnRow, Settled

LEMMA OwnForgiven ==
    ASSUME NEW q \in Row, NEW active \in BOOLEAN, NEW c
    PROVE  /\ OwnRow(q, active, c) => OwnRow(Forgiven(q), active, c)
           /\ CleanRow(Forgiven(q), active)
BY ForgivenRow DEF OwnRow, CleanRow, Settled

LEMMA OwnForeign ==
    ASSUME NEW q \in Row, NEW active \in BOOLEAN, NEW c
    PROVE  /\ OwnRow(Foreign(q, active), active, c)
           /\ CleanRow(q, active) => CleanRow(Foreign(q, active), active)
BY ForeignRow, RowFields DEF OwnRow, CleanRow, Settled

LEMMA OwnKept ==
    ASSUME NEW q \in Row, NEW active \in BOOLEAN, NEW as \in Session,
           ~ active \/ Loading(q)
    PROVE  /\ OwnRow(q, active, as) => OwnRow(Kept(q), active, as)
           /\ CleanRow(Kept(q), active)
BY KeptRow DEF OwnRow, CleanRow, Settled, Loading

-------------------------------------------------------------------------------
(* Rendering. *)

\* A request is sent with the cookie, and has retries the type allows.
LEMMA AsSession ==
    ASSUME NEW k \in Keys, NEW c \in People \cup {Nobody}
    PROVE  /\ As(k, c) \in Session
           /\ k \in {"me", "mine"} => As(k, c) = c
           /\ Retries(k) \in 0 .. Retry
<1>1. Retry \in Nat
  BY ClientAssumption
<1>2. 0 \in 0 .. Retry /\ Retry \in 0 .. Retry
  BY <1>1
<1>3. QED BY <1>2 DEF As, Retries, Session

\* The guards depend on the session alone, and leave the browser where they
\* have sent it.
LEMMA GuardedTwice ==
    ASSUME NEW p \in Pages, NEW q
    PROVE  Guarded(p, q) \in Pages /\ Guarded(Guarded(p, q), q) = Guarded(p, q)
BY ClientAssumption DEF Guarded, Pages

LEMMA SameSession ==
    ASSUME NEW p, NEW q, NEW s, q["me"].data = s["me"].data,
           Loading(q["me"]) <=> Loading(s["me"])
    PROVE  Guarded(p, q) = Guarded(p, s) /\ Active(p, q) = Active(p, s)
<1>1. User(q) = User(s)
  BY Zenon DEF User
<1>2. Guarded(p, q) = Guarded(p, s)
  BY <1>1 DEF Guarded
<1>3. QED BY <1>1, <1>2, Zenon DEF Active

Owned(q, A, c) == \A k \in Keys \cap {"me", "mine"} : OwnRow(q[k], k \in A, c)

Current(q, A) == \A k \in Keys \ {"me"} : CleanRow(q[k], k \in A)

\* Rendering keeps both, whatever page it comes to: what appears is fetched.
LEMMA RenderOK ==
    ASSUME NEW p \in Pages, NEW q \in Cache, NEW c \in People \cup {Nobody}, Render(p, q, c)
    PROVE  /\ page' \in Pages /\ query' \in Cache /\ page' = Guarded(page', query')
           /\ Owned(q, Active(page, query), c) => Owned(query', Active(page', query'), c)
           /\ Current(q, Active(page, query)) => Current(query', Active(page', query'))
<1> DEFINE there == Guarded(p, q)
           new == Active(there, q) \ Active(page, query)
<1>1. /\ page' = there
      /\ query' = [k \in Keys |->
                     IF k \in new THEN Mounted(q[k], As(k, c), Retries(k)) ELSE q[k]]
  BY Zenon DEF Render
<1>2. "me" \in Keys /\ "me" \notin new
  BY ClientAssumption DEF Active
<1> HIDE DEF new
<1>3. query'["me"] = q["me"]
  BY <1>1, <1>2
<1>4. Guarded(page', query') = Guarded(page', q) /\ Active(page', query') = Active(page', q)
  BY <1>3, SameSession
<1>5. page' \in Pages /\ page' = Guarded(page', query')
  BY <1>1, <1>4, GuardedTwice
<1>6. \A k \in Keys : q[k] \in Row
  BY DEF Cache
<1>7. ASSUME NEW k \in Keys
      PROVE  /\ query'[k] \in Row
             /\ k \in {"me", "mine"} /\ OwnRow(q[k], k \in Active(page, query), c)
                   => OwnRow(query'[k], k \in Active(page', q), c)
             /\ CleanRow(q[k], k \in Active(page, query))
                   => CleanRow(query'[k], k \in Active(page', q))
  <2>1. CASE k \in new
    <3>1. query'[k] = Mounted(q[k], As(k, c), Retries(k))
      BY <1>1, <2>1
    <3>2. k \in Active(page', q) /\ k \notin Active(page, query)
      BY <1>1, <2>1 DEF new
    <3>3. /\ Mounted(q[k], As(k, c), Retries(k)) \in Row
          /\ OwnRow(q[k], FALSE, As(k, c))
                => OwnRow(Mounted(q[k], As(k, c), Retries(k)), TRUE, As(k, c))
          /\ CleanRow(q[k], FALSE)
                => CleanRow(Mounted(q[k], As(k, c), Retries(k)), TRUE)
      BY <1>6, AsSession, OwnMounted
    <3>4. k \in {"me", "mine"} => As(k, c) = c
      BY AsSession
    <3>5. QED BY <3>1, <3>2, <3>3, <3>4 DEF OwnRow, CleanRow
  <2>2. CASE k \notin new
    <3>1. query'[k] = q[k]
      BY <1>1, <2>2
    <3>2. k \in Active(page', q) => k \in Active(page, query)
      BY <1>1, <2>2 DEF new
    <3>3. QED BY <1>6, <3>1, <3>2 DEF OwnRow, CleanRow
  <2>3. QED BY <2>1, <2>2
<1>8. query' \in Cache
  BY <1>1, <1>7 DEF Cache
<1>9. QED BY <1>4, <1>5, <1>7, <1>8 DEF Owned, Current

-------------------------------------------------------------------------------
(* The invariant. *)

Typed ==
    /\ cookie \in People \cup {Nobody}
    /\ page \in Pages
    /\ query \in Cache
    /\ act \in Acts \cup {NoAct}
    /\ act = NoAct <=> write = "none"
    /\ write \in {"none", "barred", "sent", "done"}
    /\ page = Guarded(page, query)

LEMMA Parts == TypeOK <=> Typed
BY Zenon DEF TypeOK, Typed, Cache, Row, FetchRow

\* A booking or a change is committed and the tab does not know.
Unheard == write = "done" /\ act \in {"book", "change"}

Inv ==
    /\ Typed
    /\ Owned(query, Active(page, query), cookie)
    /\ Unheard \/ Current(query, Active(page, query))

\* A page load leaves the request for the session and nothing else.
LEMMA ReloadedOK ==
    ASSUME NEW c \in People \cup {Nobody}, NEW p \in Pages, NEW A
    PROVE  /\ Reloaded(c) \in Cache
           /\ p = Guarded(p, Reloaded(c))
           /\ Owned(Reloaded(c), A, c) /\ Current(Reloaded(c), A)
<1>1. /\ Empty \in Row /\ Empty.data = NoData /\ ~ Fetching(Empty) /\ ~ Settled(Empty)
      /\ Empty.fetch.mark = "fine"
  BY DEF Empty, Row, Fetching, Settled, Marks, NoFetch
<1>2. 0 \in 0 .. Retry /\ c \in Session
  <2>1. Retry \in Nat
    BY ClientAssumption
  <2>2. QED BY <2>1 DEF Session
<1>3. /\ Sent(Empty, c, 0) \in Row /\ Sent(Empty, c, 0).data = NoData
      /\ Fetching(Sent(Empty, c, 0))
      /\ OwnRow(Sent(Empty, c, 0), TRUE, c) /\ OwnRow(Sent(Empty, c, 0), FALSE, c)
  BY <1>1, <1>2, SentRow, OwnSent
<1>4. Reloaded(c) \in Cache
  BY <1>1, <1>3 DEF Reloaded, Cache
<1>5. "me" \in Keys /\ Nobody \notin People
  BY ClientAssumption
<1>6. User(Reloaded(c)) = Nobody /\ Loading(Reloaded(c)["me"])
  BY <1>3, <1>5 DEF Reloaded, User, Loading
<1>7. p = Guarded(p, Reloaded(c))
  BY <1>5, <1>6 DEF Guarded
<1>8. Owned(Reloaded(c), A, c)
  BY <1>1, <1>3 DEF Owned, OwnRow, Reloaded
<1>9. Current(Reloaded(c), A)
  BY <1>1 DEF Current, CleanRow, Reloaded
<1>10. QED BY <1>4, <1>7, <1>8, <1>9

\* Every action keeps the invariant.
LEMMA InitOK == Init => Inv
BY ReloadedOK DEF Init, Inv, Typed, Unheard

LEMMA OpenOK == ASSUME Inv, NEW p \in Pages, Open(p) PROVE Inv'
BY RenderOK, Zenon DEF Open, Inv, Typed, Unheard

LEMMA ReloadOK == ASSUME Inv, Reload PROVE Inv'
<1>1. cookie' \in People \cup {Nobody} /\ page' \in Pages
  BY Zenon DEF Reload, Inv, Typed, Pages
<1>2. query' = Reloaded(cookie') /\ act' = NoAct /\ write' = "none"
  BY DEF Reload
<1>3. QED BY <1>1, <1>2, ReloadedOK DEF Inv, Typed, Unheard

\* One key changes, on the same page.
LEMMA KeyOK ==
    ASSUME Inv, NEW k \in Keys, NEW s \in Row,
           k \in {"me", "mine"} => OwnRow(s, k \in Active(page, query), cookie),
           CleanRow(query[k], k \in Active(page, query))
              => CleanRow(s, k \in Active(page, query))
    PROVE  /\ [query EXCEPT ![k] = s] \in Cache
           /\ Owned([query EXCEPT ![k] = s], Active(page, query), cookie)
           /\ Unheard \/ Current([query EXCEPT ![k] = s], Active(page, query))
<1>1. query \in Cache
  BY DEF Inv, Typed
<1>2. PICK q : q = [query EXCEPT ![k] = s]
  OBVIOUS
<1>3. q \in Cache /\ q[k] = s /\ \A j \in Keys \ {k} : q[j] = query[j]
  BY <1>1, <1>2 DEF Cache
<1>4. Owned(q, Active(page, query), cookie)
  BY <1>3 DEF Inv, Owned
<1>5. Unheard \/ Current(q, Active(page, query))
  BY <1>3 DEF Inv, Current
<1>6. QED BY <1>2, <1>3, <1>4, <1>5, Zenon

\* What a key under way turns into.
LEMMA ServeOK == ASSUME Inv, NEW k \in Keys, Serve(k) PROVE Inv'
<1>1. query[k] \in Row /\ Fetching(query[k])
  BY DEF Serve, Inv, Typed, Cache
<1>2. PICK s : s = Served(query[k], query[k].fetch.as)
  OBVIOUS
<1>3. /\ s \in Row /\ Fetching(s) /\ s.data = query[k].data
      /\ OwnRow(query[k], k \in Active(page, query), cookie)
            => OwnRow(s, k \in Active(page, query), cookie)
      /\ CleanRow(query[k], k \in Active(page, query))
            => CleanRow(s, k \in Active(page, query))
  <2>2. s \in Row /\ Fetching(s) /\ s.data = query[k].data
    BY <1>1, <1>2, ServedRow
  <2>3. \A a \in BOOLEAN : /\ OwnRow(query[k], a, cookie) => OwnRow(s, a, cookie)
                           /\ CleanRow(query[k], a) => CleanRow(s, a)
    BY <1>1, <1>2, OwnServed
  <2>4. QED BY <2>2, <2>3 DEF OwnRow, CleanRow
<1>4. query' = [query EXCEPT ![k] = s]
  BY <1>2, Zenon DEF Serve
<1>5. UNCHANGED <<cookie, page, act, write>>
  BY DEF Serve
<1>6. k \in {"me", "mine"} => OwnRow(query[k], k \in Active(page, query), cookie)
  BY DEF Inv, Owned
<1>7. /\ query' \in Cache
      /\ Owned(query', Active(page, query), cookie)
      /\ Unheard \/ Current(query', Active(page, query))
  BY <1>3, <1>4, <1>6, KeyOK
<1>8. "me" \in Keys /\ query \in Cache
  BY ClientAssumption DEF Inv, Typed
<1>9. /\ query'["me"].data = query["me"].data
      /\ Loading(query'["me"]) <=> Loading(query["me"])
  BY <1>1, <1>3, <1>4, <1>8 DEF Cache, Loading
<1>10. Guarded(page, query') = Guarded(page, query) /\ Active(page, query') = Active(page, query)
  BY <1>9, SameSession
<1>11. QED BY <1>5, <1>7, <1>10 DEF Inv, Typed, Unheard

LEMMA ArriveOK == ASSUME Inv, NEW k \in Keys, Arrive(k) PROVE Inv'
<1>1. query[k] \in Row /\ Fetching(query[k]) /\ query[k].fetch.got # NoData
  BY DEF Arrive, Inv, Typed, Cache
<1>2. PICK s : s = Arrived(query[k])
  OBVIOUS
<1>3. /\ s \in Row
      /\ OwnRow(query[k], k \in Active(page, query), cookie)
            => OwnRow(s, k \in Active(page, query), cookie)
      /\ CleanRow(query[k], k \in Active(page, query))
            => CleanRow(s, k \in Active(page, query))
  <2>2. s \in Row
    BY <1>1, <1>2, ArrivedRow
  <2>3. \A a \in BOOLEAN : /\ OwnRow(query[k], a, cookie) => OwnRow(s, a, cookie)
                           /\ CleanRow(query[k], a) => CleanRow(s, a)
    BY <1>1, <1>2, OwnArrived
  <2>4. QED BY <2>2, <2>3 DEF OwnRow, CleanRow
<1>4. PICK q : q = [query EXCEPT ![k] = s]
  OBVIOUS
<1>5. Render(page, q, cookie)
  BY <1>2, <1>4, Zenon DEF Arrive
<1>6. UNCHANGED <<cookie, act, write>>
  BY DEF Arrive
<1>7. k \in {"me", "mine"} => OwnRow(query[k], k \in Active(page, query), cookie)
  BY DEF Inv, Owned
<1>8. /\ q \in Cache
      /\ Owned(q, Active(page, query), cookie)
      /\ Unheard \/ Current(q, Active(page, query))
  BY <1>3, <1>4, <1>7, KeyOK
<1>9. page \in Pages /\ cookie \in People \cup {Nobody}
  BY DEF Inv, Typed
<1>10. QED BY <1>5, <1>6, <1>8, <1>9, RenderOK DEF Inv, Typed, Unheard

LEMMA LoseOK == ASSUME Inv, NEW k \in Keys, Lose(k) PROVE Inv'
<1>1. query[k] \in Row /\ Fetching(query[k]) /\ page \in Pages /\ cookie \in People \cup {Nobody}
  BY DEF Lose, Inv, Typed, Cache
<1>2. /\ As(k, cookie) \in Session
      /\ k \in {"me", "mine"} => As(k, cookie) = cookie
  BY <1>1, AsSession
<1>3. PICK s : s = Lost(query[k], As(k, cookie))
  OBVIOUS
<1>4. /\ s \in Row
      /\ OwnRow(s, k \in Active(page, query), As(k, cookie))
      /\ CleanRow(s, k \in Active(page, query))
  <2>2. s \in Row /\ \A a \in BOOLEAN : OwnRow(s, a, As(k, cookie)) /\ CleanRow(s, a)
    BY <1>1, <1>2, <1>3, LostRow, OwnLost, CleanLost
  <2>3. QED BY <2>2 DEF OwnRow, CleanRow
<1>5. PICK q : q = [query EXCEPT ![k] = s]
  OBVIOUS
<1>6. Render(page, q, cookie)
  BY <1>3, <1>5, Zenon DEF Lose
<1>7. UNCHANGED <<cookie, act, write>>
  BY DEF Lose
<1>8. /\ q \in Cache
      /\ Owned(q, Active(page, query), cookie)
      /\ Unheard \/ Current(q, Active(page, query))
  BY <1>2, <1>4, <1>5, KeyOK
<1>9. QED BY <1>1, <1>6, <1>7, <1>8, RenderOK DEF Inv, Typed, Unheard

LEMMA ActOK == ASSUME Inv, NEW a \in Acts, Act(a) PROVE Inv'
<1>1. NoAct \notin Acts
  BY ClientAssumption DEF Acts, NoAct
<1>2. UNCHANGED <<cookie, page, query>> /\ act' = a /\ write' \in {"barred", "sent"}
  BY DEF Act
<1>3. write = "none"
  BY DEF Act
<1>4. QED BY <1>1, <1>2, <1>3 DEF Inv, Typed, Unheard

\* The cookie changes, and what the tab shows or has asked for does not.
LEMMA ElsewhereOK == ASSUME Inv, NEW c \in People \cup {Nobody}, Elsewhere(c) PROVE Inv'
<1> DEFINE A == Active(page, query)
<1>1. /\ cookie' = c /\ UNCHANGED <<page, act, write>>
      /\ query' = [k \in Keys |-> Foreign(query[k], k \in A)]
  BY Zenon DEF Elsewhere
<1>2. "me" \in Keys /\ "me" \in A
  BY ClientAssumption DEF Active
<1> HIDE DEF A
<1>3. ASSUME NEW k \in Keys
      PROVE  /\ query'[k] \in Row /\ query'[k].data = query[k].data
             /\ Loading(query'[k]) <=> Loading(query[k])
             /\ OwnRow(query'[k], k \in A, c)
             /\ CleanRow(query[k], k \in A) => CleanRow(query'[k], k \in A)
  <2>1. query[k] \in Row /\ query'[k] = Foreign(query[k], k \in A)
    BY <1>1, Zenon DEF Inv, Typed, Cache
  <2>2. ASSUME NEW a \in BOOLEAN
        PROVE  LET r == Foreign(query[k], a)
               IN  /\ r \in Row /\ r.data = query[k].data
                   /\ Loading(r) <=> Loading(query[k])
                   /\ OwnRow(r, a, c) /\ (CleanRow(query[k], a) => CleanRow(r, a))
    BY <2>1, ForeignRow, OwnForeign DEF Loading
  <2>3. CASE k \in A
    <3>1. query'[k] = Foreign(query[k], TRUE)
      BY <2>1, <2>3, Zenon DEF Foreign
    <3>2. QED BY <2>2, <2>3, <3>1 DEF OwnRow, CleanRow
  <2>4. CASE k \notin A
    <3>1. query'[k] = Foreign(query[k], FALSE)
      BY <2>1, <2>4, Zenon DEF Foreign
    <3>2. QED BY <2>2, <2>4, <3>1 DEF OwnRow, CleanRow
  <2>5. QED BY <2>3, <2>4
<1>4. query' \in Cache
  BY <1>1, <1>3 DEF Cache
<1>5. Guarded(page, query') = Guarded(page, query) /\ Active(page, query') = Active(page, query)
  BY <1>2, <1>3, SameSession
<1>6. /\ Owned(query', Active(page, query'), c)
      /\ Current(query, A) => Current(query', Active(page, query'))
  BY <1>3, <1>5 DEF Owned, Current, A
<1>7. QED BY <1>1, <1>4, <1>5, <1>6 DEF Inv, Typed, Unheard, A

LEMMA CommitOK == ASSUME Inv, Commit PROVE Inv'
<1>1. UNCHANGED <<cookie, page, act>> /\ write = "sent" /\ write' = "done"
  BY DEF Commit
<1>2. CASE act \notin {"book", "change"}
  <2>1. query' = query
    BY <1>2 DEF Commit, Inv, Typed, Cache
  <2>2. QED BY <1>1, <2>1 DEF Inv, Typed, Unheard
<1>3. CASE act \in {"book", "change"}
  <2>1. query' = [k \in Keys |-> IF k # "me" THEN Behind(query[k]) ELSE query[k]]
    BY <1>3 DEF Commit
  <2>2. ASSUME NEW k \in Keys
        PROVE  /\ query'[k] \in Row
               /\ OwnRow(query[k], k \in Active(page, query), cookie)
                     => OwnRow(query'[k], k \in Active(page, query), cookie)
    <3>2. query[k] \in Row
      BY DEF Inv, Typed, Cache
    <3>3. /\ Behind(query[k]) \in Row
          /\ \A a \in BOOLEAN :
                OwnRow(query[k], a, cookie) => OwnRow(Behind(query[k]), a, cookie)
      BY <3>2, BehindRow, OwnBehind
    <3>4. query'[k] \in {query[k], Behind(query[k])}
      BY <2>1
    <3>5. QED BY <3>2, <3>3, <3>4 DEF OwnRow
  <2>3. "me" \in Keys
    BY ClientAssumption
  <2>4. query'["me"] = query["me"]
    BY <2>1, <2>3
  <2>5. Guarded(page, query') = Guarded(page, query) /\ Active(page, query') = Active(page, query)
    BY <2>4, SameSession
  <2>6. query' \in Cache
    BY <2>1, <2>2 DEF Cache
  <2>7. Owned(query', Active(page, query), cookie)
    BY <2>2 DEF Inv, Owned
  <2>8. QED BY <1>1, <1>3, <2>5, <2>6, <2>7 DEF Inv, Typed, Unheard
<1>4. QED BY <1>2, <1>3

LEMMA RefuseOK == ASSUME Inv, Refuse PROVE Inv'
<1>1. /\ UNCHANGED <<cookie, page>> /\ write' = "none" /\ act' = NoAct
      /\ query' = [k \in Keys |-> Forgiven(query[k])]
  BY DEF Refuse
<1>2. ASSUME NEW k \in Keys
      PROVE  /\ query[k] \in Row /\ query'[k] = Forgiven(query[k])
             /\ Forgiven(query[k]) \in Row /\ Forgiven(query[k]).data = query[k].data
             /\ Fetching(Forgiven(query[k])) <=> Fetching(query[k])
             /\ OwnRow(query[k], k \in Active(page, query), cookie)
                   => OwnRow(Forgiven(query[k]), k \in Active(page, query), cookie)
             /\ CleanRow(Forgiven(query[k]), k \in Active(page, query))
  <2>2. query[k] \in Row /\ query'[k] = Forgiven(query[k])
    BY <1>1 DEF Inv, Typed, Cache
  <2>3. /\ Forgiven(query[k]) \in Row /\ Forgiven(query[k]).data = query[k].data
        /\ Fetching(Forgiven(query[k])) <=> Fetching(query[k])
    BY <2>2, ForgivenRow
  <2>4. \A a \in BOOLEAN :
           /\ OwnRow(query[k], a, cookie) => OwnRow(Forgiven(query[k]), a, cookie)
           /\ CleanRow(Forgiven(query[k]), a)
    BY <2>2, OwnForgiven
  <2>5. QED BY <2>2, <2>3, <2>4 DEF OwnRow, CleanRow
<1>3. "me" \in Keys
  BY ClientAssumption
<1>4. /\ query'["me"].data = query["me"].data
      /\ Loading(query'["me"]) <=> Loading(query["me"])
  BY <1>2, <1>3 DEF Loading
<1>5. Guarded(page, query') = Guarded(page, query) /\ Active(page, query') = Active(page, query)
  BY <1>4, SameSession
<1>6. query' \in Cache
  BY <1>1, <1>2 DEF Cache
<1>7. Owned(query', Active(page, query), cookie) /\ Current(query', Active(page, query))
  BY <1>2 DEF Inv, Owned, Current
<1>8. QED BY <1>1, <1>5, <1>6, <1>7 DEF Inv, Typed, Unheard

\* What the answer to a write makes of the keys it invalidates.
LEMMA InvalidateOK ==
    ASSUME query \in Cache, NEW ks, NEW c \in People \cup {Nobody}, NEW k \in Keys
    PROVE  /\ k \notin ks => Invalidate(ks, c)[k] = query[k]
           /\ Invalidate(ks, c)[k] \in Row
           /\ Loading(query[k]) => Loading(Invalidate(ks, c)[k])
           /\ k \in ks => CleanRow(Invalidate(ks, c)[k], k \in Active(page, query))
           /\ k \in ks /\ OwnRow(query[k], k \in Active(page, query), As(k, c))
                 => OwnRow(Invalidate(ks, c)[k], k \in Active(page, query), As(k, c))
           /\ k \in ks /\ k \in Active(page, query) /\ ~ Loading(query[k])
                 => OwnRow(Invalidate(ks, c)[k], TRUE, As(k, c))
<1>1. query[k] \in Row
  BY DEF Cache
<1>2. As(k, c) \in Session /\ Retries(k) \in 0 .. Retry
  BY AsSession
<1>3. CASE k \notin ks
  <2>1. Invalidate(ks, c)[k] = query[k]
    BY <1>3 DEF Invalidate
  <2>2. QED BY <1>1, <1>3, <2>1
<1>4. CASE k \in ks /\ k \in Active(page, query) /\ ~ Loading(query[k])
  <2>1. Invalidate(ks, c)[k] = Sent(query[k], As(k, c), Retries(k))
    <3>1. Overtaken(query[k], k \in Active(page, query)) = query[k]
      BY <1>4, Zenon DEF Overtaken
    <3>2. QED BY <1>4, <3>1, Zenon DEF Invalidate, Invalidated
  <2>2. Sent(query[k], As(k, c), Retries(k)) \in Row
    BY <1>1, <1>2, SentRow
  <2>3. /\ OwnRow(Sent(query[k], As(k, c), Retries(k)), TRUE, As(k, c))
        /\ CleanRow(Sent(query[k], As(k, c), Retries(k)), TRUE)
    BY <1>1, <1>2, OwnSent
  <2>4. QED BY <1>4, <2>1, <2>2, <2>3 DEF OwnRow, CleanRow
<1>5. CASE k \in ks /\ ~ (k \in Active(page, query) /\ ~ Loading(query[k]))
  <2>1. Invalidate(ks, c)[k] = Kept(query[k])
    <3>1. Overtaken(query[k], k \in Active(page, query)) = Kept(query[k])
      BY <1>5, Zenon DEF Overtaken, Kept
    <3>2. Loading(Kept(query[k])) <=> Loading(query[k])
      BY <1>1, KeptRow DEF Loading
    <3>3. QED BY <1>5, <3>1, <3>2, Zenon DEF Invalidate, Invalidated
  <2>2. /\ Kept(query[k]) \in Row
        /\ Loading(query[k]) => Loading(Kept(query[k]))
    BY <1>1, KeptRow DEF Loading
  <2>3. ASSUME NEW a \in BOOLEAN, ~ a \/ Loading(query[k])
        PROVE  /\ OwnRow(query[k], a, As(k, c)) => OwnRow(Kept(query[k]), a, As(k, c))
               /\ CleanRow(Kept(query[k]), a)
    BY <1>1, <1>2, <2>3, OwnKept
  <2>4. CASE k \in Active(page, query)
    <3>1. /\ OwnRow(query[k], TRUE, As(k, c)) => OwnRow(Kept(query[k]), TRUE, As(k, c))
          /\ CleanRow(Kept(query[k]), TRUE)
      BY <1>5, <2>3, <2>4
    <3>2. QED BY <1>5, <2>1, <2>2, <2>4, <3>1 DEF OwnRow, CleanRow
  <2>5. CASE k \notin Active(page, query)
    <3>1. /\ OwnRow(query[k], FALSE, As(k, c)) => OwnRow(Kept(query[k]), FALSE, As(k, c))
          /\ CleanRow(Kept(query[k]), FALSE)
      BY <2>3
    <3>2. QED BY <1>5, <2>1, <2>2, <2>5, <3>1 DEF OwnRow, CleanRow
  <2>6. QED BY <2>4, <2>5
<1>6. QED BY <1>3, <1>4, <1>5

LEMMA AcknowledgeOK == ASSUME Inv, Acknowledge PROVE Inv'
<1>1. UNCHANGED cookie /\ act' = NoAct /\ write' = "none"
  BY DEF Acknowledge
<1>2. PICK q : q = Invalidate(ReservationKeys, cookie)
  OBVIOUS
<1>3. PICK p : p = IF act = "book" THEN "mine" ELSE page
  OBVIOUS
<1>4. p \in Pages /\ cookie \in People \cup {Nobody} /\ query \in Cache
  BY <1>3 DEF Inv, Typed, Pages
<1>5. Render(p, q, cookie)
  BY <1>2, <1>3, Zenon DEF Acknowledge
<1>6. q \in Cache
  <2>1. \A k \in Keys : q[k] \in Row
    BY <1>2, <1>4, InvalidateOK
  <2>2. QED BY <1>2, <2>1 DEF Invalidate, Cache
<1>7. ASSUME NEW k \in Keys \cap {"me", "mine"}
      PROVE  OwnRow(q[k], k \in Active(page, query), cookie)
  <2>1. OwnRow(query[k], k \in Active(page, query), cookie)
    BY DEF Inv, Owned
  <2>2. As(k, cookie) = cookie
    BY <1>4, AsSession
  <2>3. CASE k \in ReservationKeys
    BY <1>2, <1>4, <2>1, <2>2, <2>3, InvalidateOK
  <2>4. CASE k \notin ReservationKeys
    BY <1>2, <1>4, <2>1, <2>4, InvalidateOK
  <2>5. QED BY <2>3, <2>4
<1>8. ASSUME NEW k \in Keys \ {"me"}
      PROVE  CleanRow(q[k], k \in Active(page, query))
  <2>1. k \in ReservationKeys
    BY ClientAssumption DEF AllKeys, ReservationKeys
  <2>2. QED BY <1>2, <1>4, <2>1, InvalidateOK
<1>9. Owned(q, Active(page, query), cookie) /\ Current(q, Active(page, query))
  BY <1>7, <1>8 DEF Owned, Current
<1>10. QED BY <1>1, <1>4, <1>5, <1>6, <1>9, RenderOK DEF Inv, Typed, Unheard

\* The answer that sets or clears the cookie.
LEMMA ChangedOK ==
    ASSUME Inv, ~ Unheard, NEW c \in People \cup {Nobody}, Changed(c),
           act' = NoAct, write' = "none"
    PROVE  Inv'
<1> DEFINE A == Active(page, query)
<1>1. PICK q : q = Invalidate(SessionKeys, c)
  OBVIOUS
<1>2. PICK r : r = [k \in Keys |-> IF k = "me" /\ ~ Loading(q[k]) THEN q[k]
                                   ELSE Foreign(q[k], k \in A)]
  OBVIOUS
<1>3. cookie' = c /\ Render(page, r, c)
  BY <1>1, <1>2, Zenon DEF Changed
<1>4. query \in Cache /\ page \in Pages
  BY DEF Inv, Typed
<1>5. "me" \in A
  BY DEF Active
<1> HIDE DEF A
<1>6. ASSUME NEW k \in Keys
      PROVE  /\ r[k] \in Row
             /\ k \in {"me", "mine"} => OwnRow(r[k], k \in A, c)
             /\ k # "me" => CleanRow(r[k], k \in A)
  <2>1. q[k] \in Row /\ (k # "me" => q[k] = query[k])
    BY <1>1, <1>4, InvalidateOK DEF SessionKeys
  <2>2. CASE k = "me" /\ ~ Loading(q[k])
    <3>1. r[k] = q[k]
      BY <1>2, <2>2
    <3>2. As(k, c) = c
      BY <2>2, AsSession
    <3>3. OwnRow(q[k], TRUE, c)
      BY <1>1, <1>4, <1>5, <2>2, <3>2, InvalidateOK DEF SessionKeys, A
    <3>4. QED BY <1>5, <2>1, <2>2, <3>1, <3>3 DEF OwnRow
  <2>3. CASE ~ (k = "me" /\ ~ Loading(q[k]))
    <3>1. r[k] = Foreign(q[k], k \in A)
      BY <1>2, <2>3, Zenon
    <3>2. /\ Foreign(q[k], TRUE) \in Row /\ OwnRow(Foreign(q[k], TRUE), TRUE, c)
          /\ CleanRow(q[k], TRUE) => CleanRow(Foreign(q[k], TRUE), TRUE)
      BY <2>1, ForeignRow, OwnForeign
    <3>3. /\ Foreign(q[k], FALSE) \in Row /\ OwnRow(Foreign(q[k], FALSE), FALSE, c)
          /\ CleanRow(q[k], FALSE) => CleanRow(Foreign(q[k], FALSE), FALSE)
      BY <2>1, ForeignRow, OwnForeign
    <3>4. k # "me" => CleanRow(query[k], k \in A)
      BY DEF Inv, Current, A
    <3>5. CASE k \in A
      <4>1. r[k] = Foreign(q[k], TRUE)
        BY <3>1, <3>5, Zenon DEF Foreign
      <4>2. QED BY <2>1, <3>2, <3>4, <3>5, <4>1 DEF OwnRow, CleanRow
    <3>6. CASE k \notin A
      <4>1. r[k] = Foreign(q[k], FALSE)
        BY <3>1, <3>6, Zenon DEF Foreign
      <4>2. QED BY <2>1, <3>3, <3>4, <3>6, <4>1 DEF OwnRow, CleanRow
    <3>7. QED BY <3>5, <3>6
  <2>4. QED BY <2>2, <2>3
<1>7. r \in Cache
  BY <1>2, <1>6 DEF Cache
<1>8. Owned(r, Active(page, query), c) /\ Current(r, Active(page, query))
  BY <1>6 DEF Owned, Current, A
<1>9. QED BY <1>3, <1>4, <1>7, <1>8, RenderOK DEF Inv, Typed, Unheard

LEMMA StepOK == ASSUME Inv, [Next]_vars PROVE Inv'
<1>1. ASSUME SignIn PROVE Inv'
  <2>1. act \in People /\ write = "done" /\ Changed(act) /\ act' = NoAct /\ write' = "none"
    BY <1>1 DEF SignIn
  <2>2. ~ Unheard
    BY <2>1, ClientAssumption DEF Unheard
  <2>3. QED BY <2>1, <2>2, ChangedOK
<1>2. ASSUME SignOut PROVE Inv'
  <2>1. act = "logout" /\ Changed(Nobody) /\ act' = NoAct /\ write' = "none"
    BY <1>2 DEF SignOut
  <2>2. ~ Unheard
    BY <2>1 DEF Unheard
  <2>3. QED BY <2>1, <2>2, ChangedOK
<1>3. CASE UNCHANGED vars
  BY <1>3 DEF vars, Inv, Typed, Unheard
<1>4. QED
  BY <1>1, <1>2, <1>3, OpenOK, ReloadOK, ElsewhereOK, ServeOK, ArriveOK, LoseOK, ActOK,
     CommitOK, RefuseOK, AcknowledgeOK DEF Next, Return

LEMMA Invariant == Spec => []Inv
BY InitOK, StepOK, PTL DEF Spec

\* What the cache holds keeps its type, and every page that is on the screen
\* is one its guards let through, for any number of people and retries.
THEOREM TypeCorrect == Spec => []TypeOK
<1>1. Inv => TypeOK
  BY Parts DEF Inv
<1>2. QED BY <1>1, Invariant, PTL

\* useInvalidateReservations and React Query: a settled page shows the user's
\* own last write, in whatever order requests, answers and pages come.
THEOREM WritesAreShown == Spec => []WritesShowUp
<1>1. Inv => WritesShowUp
  <2>1. SUFFICES ASSUME Inv, write # "done", NEW k \in Keys \ {"me"}, Shows(k)
                 PROVE  query[k].mark = "fine"
    BY DEF WritesShowUp
  <2>2. CleanRow(query[k], k \in Active(page, query)) /\ query[k] \in Row
    BY <2>1 DEF Inv, Current, Unheard, Typed, Cache
  <2>3. QED BY <2>1, <2>2, RowFields DEF Shows, CleanRow, Marks
<1>2. QED BY <1>1, Invariant, PTL

\* SessionShows: whoever's cookie it is by now and whoever changed it, what the
\* tab has asked for since is that session's.
THEOREM SessionIsShown == Spec => []SessionShows
<1>1. Inv => SessionShows
  <2>1. SUFFICES ASSUME Inv
                 PROVE  /\ Shows("me") => User(query) = cookie
                        /\ Shows("mine") => query["mine"].data = cookie
    BY DEF SessionShows
  <2>2. "me" \in Keys /\ (Shows("mine") => "mine" \in Keys)
    BY ClientAssumption DEF Shows, Active, KeysOf
  <2>3. \A k \in Keys \cap {"me", "mine"} : OwnRow(query[k], k \in Active(page, query), cookie)
    BY <2>1 DEF Inv, Owned
  <2>4. Shows("me") => query["me"].data = cookie /\ query["me"].data # NoData
    BY <2>2, <2>3 DEF Shows, OwnRow, Settled
  <2>5. Shows("mine") => query["mine"].data = cookie
    BY <2>2, <2>3 DEF Shows, OwnRow
  <2>6. QED BY <2>4, <2>5 DEF User
<1>2. QED BY <1>1, Invariant, PTL

===============================================================================
