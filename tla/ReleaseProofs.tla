----------------------------- MODULE ReleaseProofs -----------------------------
(***************************************************************************)
(* Proofs about Release, for any images, dependencies and callers of       *)
(* health, any patience of the script and any time to live; a probe takes  *)
(* any time.                                                               *)
(***************************************************************************)
EXTENDS Release, TLAPS

Probe == [value : {"none", "ok", "down"}, left : 0 .. TTL, age : Nat]

HealthOK ==
    /\ cached \in [Deps -> Probe]
    /\ flight \in [Callers -> [Deps -> {NoFlight} \cup 0 .. TTL]]
    /\ got \in [Callers -> [Deps -> {"none", "ok", "down"}]]

\* The part of the state that the script and the container share.
ScriptOK ==
    /\ latest \in Images
    /\ schema \in Images \cup {None}
    /\ image \in Images \cup {None}
    /\ proc \in {"stopped", "booting", "up"}
    /\ pc \in {"idle", "migrate", "up", "check", "curl", "sleep", "healthy"}
    /\ target \in Images \cup {None}
    /\ previous \in Images \cup {None}
    /\ before \in Images \cup {None}
    /\ bad \in 0 .. 2
    /\ proven \subseteq Images
    /\ cut \in BOOLEAN
    /\ image = None => proc = "stopped"
    /\ pc # "idle" => target \in Images
    /\ Trial => image = target /\ proc # "stopped"

\* Why the loop never counts past HEALTH_RETRIES: a round starts below it.
Counts ==
    /\ tries \in 0 .. Retries
    /\ refused \in 0 .. tries
    /\ pc \in {"check", "curl"} => tries < Retries

LEMMA Parts == HealthOK /\ ScriptOK /\ Counts => TypeOK
BY ReleaseAssumption DEF HealthOK, ScriptOK, Counts, TypeOK, Probe

LEMMA HealthStart == Init => HealthOK
<1>1. NotCached \in Probe
  BY ReleaseAssumption DEF NotCached, Probe
<1>2. QED BY <1>1 DEF Init, HealthOK

LEMMA ForgetOK == ASSUME Forget PROVE HealthOK'
<1>1. NotCached \in Probe
  BY ReleaseAssumption DEF NotCached, Probe
<1>2. cached' \in [Deps -> Probe]
  BY <1>1 DEF Forget
<1>3. flight' \in [Callers -> [Deps -> {NoFlight} \cup 0 .. TTL]]
  BY DEF Forget
<1>4. got' \in [Callers -> [Deps -> {"none", "ok", "down"}]]
  BY DEF Forget
<1>5. QED BY <1>2, <1>3, <1>4 DEF HealthOK

LEMMA AskOK == ASSUME HealthOK, NEW c \in Callers, Ask(c) PROVE HealthOK'
<1>1. 0 \in 0 .. TTL
  BY ReleaseAssumption
<1>2. \A d \in Deps : cached[d].value \in {"none", "ok", "down"}
  BY DEF HealthOK, Probe
<1> DEFINE known == [d \in Deps |-> IF Fresh(d) THEN cached[d].value ELSE "none"]
           asked == [d \in Deps |-> IF Fresh(d) THEN NoFlight ELSE 0]
<1>3. known \in [Deps -> {"none", "ok", "down"}]
  BY <1>2
<1>4. asked \in [Deps -> {NoFlight} \cup 0 .. TTL]
  BY <1>1
<1>5. got' = [got EXCEPT ![c] = known] /\ flight' = [flight EXCEPT ![c] = asked]
      /\ cached' = cached
  BY DEF Ask
<1> HIDE DEF known, asked
<1>6. QED BY <1>3, <1>4, <1>5 DEF HealthOK

LEMMA EntryOK ==
    ASSUME NEW v \in {"none", "ok", "down"}, NEW age \in Nat
    PROVE  /\ Entry(v, age) \in Probe
           /\ Entry(v, age).value \in {v, "none"}
           /\ Entry(v, age).left > 0 => Entry(v, age).age + Entry(v, age).left <= TTL
<1>1. CASE age < TTL
  <2>1. Entry(v, age) = [value |-> v, left |-> TTL - age, age |-> age]
    BY <1>1 DEF Entry
  <2>2. TTL - age \in 0 .. TTL /\ age + (TTL - age) <= TTL
    BY <1>1, ReleaseAssumption
  <2>3. QED BY <2>1, <2>2 DEF Probe
<1>2. CASE ~ (age < TTL)
  <2>1. Entry(v, age) = NotCached
    BY <1>2 DEF Entry
  <2>2. QED BY <2>1, ReleaseAssumption DEF NotCached, Probe
<1>3. QED BY <1>1, <1>2

LEMMA ProbeOK ==
    ASSUME HealthOK, NEW c \in Callers, NEW d \in Deps, ProbeReturns(c, d)
    PROVE  HealthOK'
<1>1. PICK v \in {"ok", "down"} :
         /\ got' = [got EXCEPT ![c][d] = v]
         /\ cached' = [cached EXCEPT ![d] = Entry(v, flight[c][d])]
  BY DEF ProbeReturns
<1>2. flight[c][d] \in 0 .. TTL
  BY DEF ProbeReturns, HealthOK
<1>3. Entry(v, flight[c][d]) \in Probe
  BY <1>2, EntryOK
<1>4. flight' = [flight EXCEPT ![c][d] = NoFlight]
  BY DEF ProbeReturns
<1>5. QED BY <1>1, <1>3, <1>4 DEF HealthOK

LEMMA AgedOK ==
    ASSUME NEW e \in Probe
    PROVE  /\ Aged(e) \in Probe
           /\ (e.left > 0 => e.age + e.left <= TTL)
                 => (Aged(e).left > 0 => Aged(e).age + Aged(e).left <= TTL)
<1>1. e.value \in {"none", "ok", "down"} /\ e.left \in 0 .. TTL /\ e.age \in Nat
      /\ e = [value |-> e.value, left |-> e.left, age |-> e.age]
  BY DEF Probe
<1>2. CASE e.left > 1
  <2>1. Aged(e) = [value |-> e.value, left |-> e.left - 1, age |-> e.age + 1]
    BY <1>1, <1>2 DEF Aged, Probe
  <2>2. e.left - 1 \in 0 .. TTL /\ e.age + 1 \in Nat
    BY <1>1, <1>2, ReleaseAssumption
  <2>3. Aged(e).left = e.left - 1 /\ Aged(e).age = e.age + 1
    BY <2>1
  <2>4. QED BY <1>1, <2>1, <2>2, <2>3 DEF Probe
<1>3. CASE ~ (e.left > 1)
  <2>1. Aged(e) = NotCached
    BY <1>3 DEF Aged
  <2>2. 0 \in 0 .. TTL
    BY ReleaseAssumption
  <2>3. QED BY <2>1, <2>2 DEF NotCached, Probe
<1>4. QED BY <1>2, <1>3

LEMMA AgedStill ==
    ASSUME NEW e \in Probe, Aged(e).left > 0
    PROVE  e.left > 0 /\ Aged(e).left = e.left - 1 /\ Aged(e).value = e.value
<1>1. e.left \in 0 .. TTL /\ e = [value |-> e.value, left |-> e.left, age |-> e.age]
  BY DEF Probe
<1>2. CASE e.left > 1
  <2>1. Aged(e) = [value |-> e.value, left |-> e.left - 1, age |-> e.age + 1]
    BY <1>1, <1>2 DEF Aged, Probe
  <2>2. QED BY <1>1, <1>2, <2>1
<1>3. CASE ~ (e.left > 1)
  <2>1. Aged(e) = NotCached
    BY <1>3 DEF Aged
  <2>2. QED BY <2>1 DEF NotCached
<1>4. QED BY <1>2, <1>3

LEMMA TickOK == ASSUME HealthOK, Tick PROVE HealthOK'
<1>1. cached' = [d \in Deps |-> Aged(cached[d])] /\ got' = got
  BY DEF Tick
<1>2. ASSUME NEW d \in Deps PROVE Aged(cached[d]) \in Probe
  BY AgedOK DEF HealthOK
<1>3. flight' = [c \in Callers |-> [d \in Deps |-> Older(flight[c][d])]]
  BY DEF Tick
<1>4. ASSUME NEW c \in Callers, NEW d \in Deps
      PROVE  Older(flight[c][d]) \in {NoFlight} \cup 0 .. TTL
  <2>1. flight[c][d] \in {NoFlight} \cup 0 .. TTL
    BY DEF HealthOK
  <2>2. QED BY <2>1, ReleaseAssumption DEF NoFlight, Older
<1>5. QED BY <1>1, <1>2, <1>3, <1>4 DEF HealthOK

LEMMA HearsOK ==
    ASSUME HealthOK, NEW c \in Callers, Reported(c), UNCHANGED <<cached, flight>>
    PROVE  HealthOK'
BY DEF HealthOK, Reported

LEMMA ContainerOK ==
    ASSUME HealthOK, NEW i \in Images, Container(i) \/ ContainerFails(i)
    PROVE  HealthOK'
<1>1. CASE UNCHANGED health
  BY <1>1 DEF health, HealthOK
<1>2. CASE Forget
  BY <1>2, ForgetOK
<1>3. QED BY <1>1, <1>2 DEF Container, ContainerFails

-------------------------------------------------------------------------------
\* Who changes what health knows, and how.
LEMMA HealthStep == ASSUME HealthOK, ScriptOK, [Next]_vars PROVE HealthOK'
<1>1. CASE UNCHANGED health
  BY <1>1 DEF health, HealthOK
<1>2. ASSUME NEW c \in Callers, Ask(c) PROVE HealthOK'
  BY <1>2, AskOK
<1>3. ASSUME NEW c \in Callers, OtherHears(c) PROVE HealthOK'
  BY <1>3, HearsOK DEF OtherHears
<1>4. CASE CurlHears
  BY <1>4, HearsOK, ReleaseAssumption DEF CurlHears
<1>5. CASE Crash
  BY <1>5, ForgetOK DEF Crash
<1>6. CASE Up \/ UpFails
  BY <1>6, ContainerOK DEF Up, UpFails, ScriptOK
<1>7. CASE RollBack
  <2>1. CASE UNCHANGED <<machine, health>>
    BY <2>1, <1>1
  <2>2. CASE previous \notin {None, image}
                /\ (Container(RollBackTo) \/ ContainerFails(RollBackTo))
    BY <2>2, ContainerOK DEF RollBackTo, ScriptOK
  <2>3. QED BY <1>7, <2>1, <2>2 DEF RollBack
<1>8. CASE Interrupt
  <2>1. cached' = cached
    BY <1>8 DEF Interrupt
  <2>2. got' \in [Callers -> [Deps -> {"none", "ok", "down"}]]
    BY <1>8 DEF Interrupt, HealthOK
  <2>3. flight' \in [Callers -> [Deps -> {NoFlight} \cup 0 .. TTL]]
    BY <1>8 DEF Interrupt, HealthOK
  <2>4. QED BY <2>1, <2>2, <2>3 DEF HealthOK
<1>9. CASE Tick
  BY <1>9, TickOK
<1>10. ASSUME NEW c \in Callers, NEW d \in Deps, ProbeReturns(c, d) PROVE HealthOK'
  BY <1>10, ProbeOK
<1>11. CASE CheckAsks
  BY <1>2, <1>11, ReleaseAssumption DEF CheckAsks
<1>12. CASE \E c \in Callers : OtherAsks(c)
  BY <1>2, <1>12 DEF OtherAsks
<1>13. CASE Push \/ Boot \/ Migrate \/ MigrateFails \/ PullFails \/ CheckRefused
               \/ CurlFails \/ Complete
  BY <1>1, <1>13 DEF Push, Boot, Migrate, MigrateFails, PullFails, CheckRefused, CurlFails,
     Complete
<1>14. CASE \E i \in Images : Deploy(i)
  BY <1>1, <1>14 DEF Deploy
<1>15. CASE UNCHANGED vars
  BY <1>1, <1>15 DEF vars
<1>16. QED
  BY <1>3, <1>4, <1>5, <1>6, <1>7, <1>8, <1>9, <1>10, <1>11, <1>12, <1>13, <1>14,
     <1>15 DEF Next, ScriptStep, Loop

LEMMA ContainerImage ==
    ASSUME ScriptOK, NEW i \in Images, Container(i) \/ ContainerFails(i)
    PROVE  /\ image' \in Images \cup {None} /\ proc' \in {"stopped", "booting", "up"}
           /\ image' = None => proc' = "stopped"
           /\ image' \in {image, i}
BY DEF Container, ContainerFails, machine, ScriptOK, Images, None

LEMMA ScriptStepOK == ASSUME ScriptOK, [Next]_vars PROVE ScriptOK'
<1> USE DEF ScriptOK, Trial, machine, script
<1>0. Images \subseteq Nat /\ None \notin Images
  BY DEF Images, None
<1>1. CASE Push
  BY <1>1, ReleaseAssumption DEF Push, rounds, Images
<1>2. CASE Boot \/ Crash
  BY <1>2 DEF Boot, Crash, rounds
<1>3. ASSUME NEW i \in Images, Deploy(i) PROVE ScriptOK'
  <2>1. Current \in Images \cup {None}
    BY DEF Current
  <2>2. QED BY <1>3, <2>1 DEF Deploy, rounds
<1>4. CASE Migrate
  BY <1>4 DEF Migrate, rounds
<1>5. CASE MigrateFails
  <2>1. schema' \in Images \cup {None}
    <3>1. PICK top \in Images \cup {None} : schema' \in schema .. top
      BY <1>5 DEF MigrateFails
    <3>2. QED BY <3>1, ReleaseAssumption DEF Images, None
  <2>2. QED BY <1>5, <2>1 DEF MigrateFails, ExitOnError, Exit
<1>6. CASE PullFails
  BY <1>6 DEF PullFails, ExitOnError, Exit
<1>7. CASE Up
  <2>1. image' = target /\ proc' # "stopped"
    BY <1>7 DEF Up, Container
  <2>2. QED BY <1>7, <2>1, ContainerImage DEF Up
<1>8. CASE UpFails
  BY <1>8, ContainerImage DEF UpFails, ExitOnError, Exit
<1>9. CASE CheckRefused \/ CurlFails
  BY <1>9 DEF CheckRefused, CurlFails
<1>10. CASE CheckAsks
  BY <1>10 DEF CheckAsks, Ask, rounds
<1>11. CASE CurlHears
  <2>1. image \in Images
    BY <1>11 DEF CurlHears
  <2>2. QED BY <1>11, <2>1 DEF CurlHears
<1>12. CASE Complete
  <2>1. cut' \in BOOLEAN
    BY <1>12, Zenon DEF Complete
  <2>2. pc' = "idle" /\ bad' = 0 /\ {target', previous', before'} = {None}
        /\ UNCHANGED <<latest, schema, machine, proven>>
    BY <1>12 DEF Complete, Exit
  <2>3. QED BY <2>1, <2>2
<1>13. CASE RollBack
  <2>1. image' \in Images \cup {None} /\ proc' \in {"stopped", "booting", "up"}
        /\ (image' = None => proc' = "stopped") /\ cut' \in BOOLEAN
    BY <1>13, ContainerImage DEF RollBack, RollBackTo
  <2>2. QED BY <1>13, <2>1 DEF RollBack, Exit
<1>14. CASE Interrupt
  BY <1>14 DEF Interrupt, Exit
<1>15. CASE Tick
  BY <1>15 DEF Tick, rounds
<1>16. ASSUME NEW c \in Callers, OtherAsks(c) \/ OtherHears(c) PROVE ScriptOK'
  BY <1>16 DEF OtherAsks, OtherHears, Ask, rounds
<1>17. ASSUME NEW c \in Callers, NEW d \in Deps, ProbeReturns(c, d) PROVE ScriptOK'
  BY <1>17 DEF ProbeReturns
<1>18. CASE UNCHANGED vars
  BY <1>18 DEF vars, rounds
<1>19. QED
  BY <1>1, <1>2, <1>3, <1>4, <1>5, <1>6, <1>7, <1>8, <1>9, <1>10, <1>11, <1>12,
     <1>13, <1>14, <1>15, <1>16, <1>17, <1>18 DEF Next, ScriptStep, Loop

LEMMA CountsStep == ASSUME ScriptOK, Counts, [Next]_vars PROVE Counts'
<1> USE ReleaseAssumption DEF Counts, rounds
<1>1. CASE Exit /\ (pc' = "idle")
  BY <1>1 DEF Exit
<1>2. CASE Up
  BY <1>2 DEF Up
<1>3. CASE CheckRefused \/ CurlFails
  BY <1>3 DEF CheckRefused, CurlFails
<1>4. CASE CurlHears
  BY <1>4 DEF CurlHears
<1>5. CASE Tick
  BY <1>5 DEF Tick, LoopOver
<1>6. CASE CheckAsks
  BY <1>6 DEF CheckAsks, Ask
<1>7. CASE UNCHANGED <<tries, refused, pc>> \/ (UNCHANGED <<tries, refused>>
              /\ pc' \in {"migrate", "up"})
  BY <1>7
<1>8. ASSUME NEW c \in Callers, OtherAsks(c) \/ OtherHears(c) PROVE Counts'
  BY <1>8, <1>7 DEF OtherAsks, OtherHears, Ask
<1>9. CASE Push \/ Boot \/ Crash
  BY <1>9, <1>7 DEF Push, Boot, Crash
<1>10. ASSUME NEW c \in Callers, NEW d \in Deps, ProbeReturns(c, d) PROVE Counts'
  BY <1>10, <1>7 DEF ProbeReturns
<1>11. CASE Migrate \/ \E i \in Images : Deploy(i)
  BY <1>11, <1>7 DEF Migrate, Deploy
<1>12. CASE MigrateFails \/ PullFails \/ UpFails \/ Complete \/ RollBack \/ Interrupt
  BY <1>12, <1>1 DEF MigrateFails, PullFails, UpFails, Complete, RollBack, Interrupt,
     ExitOnError, Exit
<1>13. CASE UNCHANGED vars
  BY <1>13, <1>7 DEF vars
<1>14. QED
  BY <1>2, <1>3, <1>4, <1>5, <1>6, <1>8, <1>9, <1>10, <1>11, <1>12, <1>13
     DEF Next, ScriptStep, Loop

LEMMA Invariant == Spec => [](HealthOK /\ ScriptOK /\ Counts)
<1>1. Init => HealthOK /\ ScriptOK /\ Counts
  <2>1. Init => ScriptOK
    <3>1. Init => cut \in BOOLEAN
      BY Zenon DEF Init
    <3>2. Init => latest \in Images /\ None \notin Images
      BY ReleaseAssumption DEF Init, Images, None
    <3>3. Init => /\ {schema, image, target, previous, before} = {None}
                  /\ proc = "stopped" /\ pc = "idle" /\ bad = 0 /\ proven = {}
      BY DEF Init
    <3>4. QED BY <3>1, <3>2, <3>3 DEF ScriptOK, Trial
  <2>2. Init => Counts
    BY ReleaseAssumption DEF Init, Counts
  <2>3. QED BY <2>1, <2>2, HealthStart
<1>2. HealthOK /\ ScriptOK /\ Counts /\ [Next]_vars => (HealthOK /\ ScriptOK /\ Counts)'
  BY HealthStep, ScriptStepOK, CountsStep
<1>3. QED BY <1>1, <1>2, PTL DEF Spec

\* Every variable keeps its type, the counters of the loop their bounds, and
\* there is a process exactly when there is a container.
THEOREM TypeCorrect == Spec => []TypeOK
BY Invariant, Parts, PTL

-------------------------------------------------------------------------------
\* An entry and its age never outlive the time to live.
EntriesExpire == \A d \in Deps : Fresh(d) => cached[d].age + cached[d].left <= TTL

LEMMA EntriesDoExpire == Spec => []EntriesExpire
<1>1. Init => EntriesExpire
  BY DEF Init, EntriesExpire, Fresh, NotCached
<1>2. HealthOK /\ EntriesExpire /\ [Next]_vars => EntriesExpire'
  <2> SUFFICES ASSUME HealthOK, EntriesExpire, [Next]_vars, NEW d \in Deps
               PROVE  cached'[d].left > 0 => cached'[d].age + cached'[d].left <= TTL
    BY DEF EntriesExpire, Fresh
  <2>0. cached[d] \in Probe /\ (cached[d].left > 0 => cached[d].age + cached[d].left <= TTL)
    BY DEF HealthOK, EntriesExpire, Fresh
  <2>1. CASE UNCHANGED cached
    BY <2>0, <2>1
  <2>2. CASE Forget
    <3>1. cached'[d] = NotCached
      BY <2>2 DEF Forget
    <3>2. QED BY <3>1 DEF NotCached
  <2>3. CASE Tick
    <3>1. cached'[d] = Aged(cached[d])
      BY <2>3 DEF Tick
    <3>2. QED BY <2>0, <3>1, AgedOK
  <2>4. ASSUME NEW c \in Callers, NEW dep \in Deps, ProbeReturns(c, dep)
        PROVE  cached'[d].left > 0 => cached'[d].age + cached'[d].left <= TTL
    <3>1. PICK v \in {"ok", "down"} : cached' = [cached EXCEPT ![dep] = Entry(v, flight[c][dep])]
      BY <2>4 DEF ProbeReturns
    <3>2. flight[c][dep] \in Nat
      BY <2>4, ReleaseAssumption DEF ProbeReturns, HealthOK
    <3>3. cached'[d] = IF d = dep THEN Entry(v, flight[c][dep]) ELSE cached[d]
      BY <3>1 DEF HealthOK
    <3>4. QED BY <2>0, <3>2, <3>3, EntryOK
  <2>5. CASE Up \/ UpFails \/ RollBack \/ Crash
    BY <2>1, <2>2, <2>5 DEF Up, UpFails, RollBack, Crash, Container, ContainerFails, health
  <2>6. CASE CurlHears \/ CheckAsks \/ Interrupt
    BY <2>1, <2>6 DEF CurlHears, CheckAsks, Ask, Interrupt
  <2>7. ASSUME NEW c \in Callers, OtherAsks(c) \/ OtherHears(c)
        PROVE  cached'[d].left > 0 => cached'[d].age + cached'[d].left <= TTL
    BY <2>1, <2>7 DEF OtherAsks, OtherHears, Ask
  <2>8. CASE Push \/ Boot \/ Migrate \/ MigrateFails \/ PullFails \/ CheckRefused
                 \/ CurlFails \/ Complete
    BY <2>1, <2>8 DEF Push, Boot, Migrate, MigrateFails, PullFails, CheckRefused, CurlFails,
       Complete, health
  <2>9. CASE (\E i \in Images : Deploy(i))
    BY <2>1, <2>9 DEF Deploy, health
  <2>10. CASE UNCHANGED vars
    BY <2>1, <2>10 DEF vars, health
  <2>11. QED
    BY <2>3, <2>4, <2>5, <2>6, <2>7, <2>8, <2>9, <2>10 DEF Next, ScriptStep, Loop
<1>3. QED BY <1>1, <1>2, Invariant, PTL DEF Spec

\* SAFETY (action).  HealthIsRecent, for any time to live, however long the
\* probes take and in whatever order they come back: what a report takes from
\* the cache was probed less than the time to live before it was asked for.
THEOREM HealthRecent == Spec => HealthIsRecent
<1>1. HealthOK /\ EntriesExpire /\ [Next]_vars =>
         [\A c \in Callers : Ask(c) =>
             \A d \in Deps : got'[c][d] # "none" => cached[d].age < TTL]_vars
  <2> SUFFICES ASSUME HealthOK, EntriesExpire, NEW c \in Callers, Ask(c), NEW d \in Deps,
                      got'[c][d] # "none"
               PROVE  cached[d].age < TTL
    OBVIOUS
  <2>1. got'[c][d] = IF Fresh(d) THEN cached[d].value ELSE "none"
    BY DEF Ask, HealthOK
  <2>2. cached[d].left > 0 /\ cached[d].age + cached[d].left <= TTL
    BY <2>1 DEF EntriesExpire, Fresh
  <2>3. cached[d].age \in Nat /\ cached[d].left \in 0 .. TTL
    BY DEF HealthOK, Probe
  <2>4. QED BY <2>2, <2>3, ReleaseAssumption
<1>2. QED BY <1>1, EntriesDoExpire, Invariant, PTL DEF Spec, HealthIsRecent

-------------------------------------------------------------------------------
\* What the script has pulled is covered once it has migrated, and what it may
\* go back to was covered when it began; migrations are only added.
Covered ==
    /\ image <= schema
    /\ previous <= schema
    /\ pc \notin {"idle", "migrate"} => target <= schema

\* SAFETY.  SchemaCoversRunning: the schema covers the image that serves,
\* wherever the script fails, rolls back or is cut short.
THEOREM SchemaCovers == Spec => []SchemaCoversRunning
<1> USE DEF Covered, machine, script
<1>1. Init => Covered
  BY DEF Init, None
<1>2. ScriptOK /\ ScriptOK' /\ Covered /\ [Next]_vars => Covered'
  <2> SUFFICES ASSUME ScriptOK, ScriptOK', Covered, [Next]_vars PROVE Covered'
    OBVIOUS
  <2>0. /\ {image, target, previous, schema, image', target', previous', schema'} \subseteq Nat
        /\ None = 0
    BY DEF ScriptOK, Images, None
  <2> USE <2>0
  <2>1. CASE UNCHANGED <<image, schema, script>> /\ (pc' = pc \/ pc \notin {"idle", "migrate"})
    BY <2>1
  <2>2. ASSUME NEW i \in Images, Deploy(i) PROVE Covered'
    BY <2>2 DEF Deploy
  <2>3. CASE Migrate
    <3>1. schema' >= schema /\ schema' >= target
      BY <2>3 DEF Migrate
    <3>2. QED BY <2>3, <3>1 DEF Migrate
  <2>4. CASE MigrateFails
    <3>1. schema' >= schema
      BY <2>4 DEF MigrateFails
    <3>2. QED BY <2>4, <3>1 DEF MigrateFails, ExitOnError, Exit
  <2>5. CASE PullFails \/ Complete \/ Interrupt
    BY <2>5 DEF PullFails, Complete, Interrupt, ExitOnError, Exit
  <2>6. CASE Up \/ UpFails
    <3>1. image' \in {image, target}
      BY <2>6 DEF Up, UpFails, Container, ContainerFails
    <3>2. QED BY <2>6, <3>1 DEF Up, UpFails, ExitOnError, Exit
  <2>7. CASE RollBack
    <3>1. image' \in {image, previous}
      BY <2>7 DEF RollBack, RollBackTo, Container, ContainerFails
    <3>2. QED BY <2>7, <3>1 DEF RollBack, Exit
  <2>8. CASE CheckRefused \/ CheckAsks \/ CurlFails \/ CurlHears
    BY <2>1, <2>8 DEF CheckRefused, CheckAsks, Ask, CurlFails, CurlHears
  <2>9. CASE Push \/ Boot \/ Crash \/ Tick
    BY <2>1, <2>9 DEF Push, Boot, Crash, Tick
  <2>10. ASSUME NEW c \in Callers, OtherAsks(c) \/ OtherHears(c) PROVE Covered'
    BY <2>1, <2>10 DEF OtherAsks, OtherHears, Ask
  <2>11. ASSUME NEW c \in Callers, NEW d \in Deps, ProbeReturns(c, d) PROVE Covered'
    BY <2>1, <2>11 DEF ProbeReturns
  <2>12. CASE UNCHANGED vars
    BY <2>1, <2>12 DEF vars
  <2>13. QED
    BY <2>2, <2>3, <2>4, <2>5, <2>6, <2>7, <2>8, <2>9, <2>10, <2>11, <2>12
       DEF Next, ScriptStep, Loop
<1>3. ScriptOK /\ Covered => SchemaCoversRunning
  BY DEF SchemaCoversRunning
<1>4. QED BY <1>1, <1>2, <1>3, Invariant, PTL DEF Spec

-------------------------------------------------------------------------------
\* What the script's variables say of the image of record.
OfRecord ==
    /\ pc \in {"migrate", "up"} => before = Current
    /\ pc # "idle" => before \in {None, previous}
    /\ pc = "healthy" => image \in proven

LEMMA OfRecordStep == ASSUME ScriptOK, ScriptOK', OfRecord, [Next]_vars PROVE OfRecord'
<1> USE DEF OfRecord, Current, machine, script
<1>1. CASE UNCHANGED <<image, proven, script, pc>> /\ (proc = "stopped" <=> proc' = "stopped")
  BY <1>1
<1>2. ASSUME NEW i \in Images, Deploy(i) PROVE OfRecord'
  BY <1>2 DEF Deploy
<1>3. CASE pc' = "idle"
  BY <1>3
<1>4. CASE Migrate
  BY <1>4 DEF Migrate
<1>5. CASE Up
  BY <1>5 DEF Up
<1>6. CASE CheckRefused \/ CheckAsks \/ CurlFails
  BY <1>6 DEF CheckRefused, CheckAsks, Ask, CurlFails
<1>7. CASE CurlHears
  BY <1>7 DEF CurlHears, GoodEnough
<1>8. CASE Tick
  BY <1>8 DEF Tick
<1>9. CASE Push \/ Boot \/ Crash
  BY <1>1, <1>9 DEF Push, Boot, Crash
<1>10. ASSUME NEW c \in Callers, OtherAsks(c) \/ OtherHears(c) PROVE OfRecord'
  BY <1>1, <1>10 DEF OtherAsks, OtherHears, Ask
<1>11. ASSUME NEW c \in Callers, NEW d \in Deps, ProbeReturns(c, d) PROVE OfRecord'
  BY <1>1, <1>11 DEF ProbeReturns
<1>12. CASE MigrateFails \/ PullFails \/ UpFails \/ Complete \/ RollBack \/ Interrupt
  BY <1>3, <1>12 DEF MigrateFails, PullFails, UpFails, Complete, RollBack, Interrupt,
     ExitOnError, Exit
<1>13. CASE UNCHANGED vars
  BY <1>1, <1>13 DEF vars
<1>14. QED
  BY <1>2, <1>4, <1>5, <1>6, <1>7, <1>8, <1>9, <1>10, <1>11, <1>12, <1>13
     DEF Next, ScriptStep, Loop

\* Every step of the release is one of the promise, or changes nothing of it.
LEMMA PromiseStep ==
    ASSUME ScriptOK, ScriptOK', OfRecord, [Next]_vars
    PROVE  [Promise!Next]_<<Official, proven, cut>>
<1> USE DEF Official, Trial, Current, machine, script
<1> DEFINE Same == UNCHANGED <<Official, proven, cut>>
<1>1. CASE UNCHANGED <<image, proven, cut, before>>
              /\ (Trial <=> Trial') /\ (proc = "stopped" <=> proc' = "stopped")
  BY <1>1
<1>2. CASE Up
  <2>1. Official' = before' /\ before' = before /\ Official = before
    BY <1>2 DEF Up, OfRecord
  <2>2. QED BY <1>2, <2>1 DEF Up
<1>3. CASE UpFails
  <2>1. Official = Current /\ Official' = Current' /\ UNCHANGED <<proven, cut>>
    BY <1>3 DEF UpFails, ExitOnError, Exit
  <2>2. UNCHANGED <<image, proc>> \/ Current' = None
    BY <1>3 DEF UpFails, ContainerFails
  <2>3. Same \/ Promise!Lose
    BY <2>1, <2>2 DEF Promise!Lose
  <2>4. QED BY <2>3 DEF Promise!Next
<1>4. CASE CurlHears
  <2>1. image \in Images
    BY <1>4 DEF CurlHears, ScriptOK
  <2>2. Official' = Official /\ cut' = cut
    BY <1>4 DEF CurlHears
  <2>3. proven' = proven \/ proven' = proven \cup {image}
    BY <1>4 DEF CurlHears
  <2>4. Same \/ Promise!Prove(image)
    BY <2>2, <2>3 DEF Promise!Prove
  <2>5. QED BY <2>1, <2>4 DEF Promise!Next
<1>5. CASE Complete
  <2>1. image \in Images /\ image \in proven /\ Official' = image
    BY <1>5 DEF Complete, Exit, ScriptOK, OfRecord
  <2>2. cut' = FALSE /\ proven' = proven
    BY <1>5, Zenon DEF Complete
  <2>3. Promise!Promote(image)
    BY <2>1, <2>2, Zenon DEF Promise!Promote
  <2>4. QED BY <2>1, <2>3 DEF Promise!Next
<1>6. CASE RollBack
  <2>1. Official = before /\ Official' = Current' /\ proven' = proven
    BY <1>6 DEF RollBack, Exit
  <2>2. before \in {None, previous}
    BY <1>6 DEF RollBack, OfRecord
  <2>3. CASE previous \in {None, image} /\ UNCHANGED <<machine, health, cut>>
    <3>1. Current' = image /\ image \in Images
      BY <1>6, <2>3 DEF RollBack, ScriptOK
    <3>2. Same \/ Promise!Start(image)
      BY <2>1, <2>2, <2>3, <3>1 DEF Promise!Start
    <3>3. QED BY <3>1, <3>2 DEF Promise!Next
  <2>4. CASE previous \notin {None, image} /\ Container(RollBackTo) /\ UNCHANGED cut
    <3>1. Current' = previous /\ previous \in Images
      BY <2>4 DEF RollBackTo, Container, ScriptOK
    <3>2. Same \/ Promise!Start(previous)
      BY <2>1, <2>2, <2>4, <3>1 DEF Promise!Start
    <3>3. QED BY <3>1, <3>2 DEF Promise!Next
  <2>5. CASE cut' = TRUE
    <3>1. Current' \in Images \cup {None}
      BY DEF ScriptOK
    <3>2. Promise!Abandon
      BY <2>1, <2>5, <3>1, Zenon DEF Promise!Abandon
    <3>3. QED BY <3>2 DEF Promise!Next
  <2>6. QED BY <1>6, <2>3, <2>4, <2>5, Zenon DEF RollBack
<1>7. CASE Interrupt
  <2>1. Official' \in Images \cup {None} /\ proven' = proven
    BY <1>7 DEF Interrupt, Exit, ScriptOK
  <2>2. cut' = TRUE
    BY <1>7, Zenon DEF Interrupt
  <2>3. Promise!Abandon
    BY <2>1, <2>2, Zenon DEF Promise!Abandon
  <2>4. QED BY <2>3 DEF Promise!Next
<1>8. CASE Migrate \/ MigrateFails \/ PullFails \/ \E i \in Images : Deploy(i)
  <2>1. ~ Trial /\ ~ Trial' /\ UNCHANGED <<image, proc, proven, cut>>
    BY <1>8 DEF Migrate, MigrateFails, PullFails, Deploy, ExitOnError, Exit
  <2>2. QED BY <2>1
<1>9. CASE CheckRefused \/ CheckAsks \/ CurlFails \/ Tick
  BY <1>1, <1>9 DEF CheckRefused, CheckAsks, Ask, CurlFails, Tick
<1>10. CASE Push \/ Boot \/ Crash
  BY <1>1, <1>10 DEF Push, Boot, Crash
<1>11. ASSUME NEW c \in Callers, OtherAsks(c) \/ OtherHears(c)
       PROVE  [Promise!Next]_<<Official, proven, cut>>
  BY <1>1, <1>11 DEF OtherAsks, OtherHears, Ask
<1>12. ASSUME NEW c \in Callers, NEW d \in Deps, ProbeReturns(c, d)
       PROVE  [Promise!Next]_<<Official, proven, cut>>
  BY <1>1, <1>12 DEF ProbeReturns
<1>13. CASE UNCHANGED vars
  BY <1>1, <1>13 DEF vars
<1>14. QED
  BY <1>2, <1>3, <1>4, <1>5, <1>6, <1>7, <1>8, <1>9, <1>10, <1>11, <1>12, <1>13
     DEF Next, ScriptStep, Loop

\* REFINEMENT.  The release implements Rollout: the image of record changes to
\* one that has answered a health check, or as Rollout says it may otherwise.
THEOREM RolloutKept == Spec => ImplementsRollout
<1>1. Init => Promise!Init /\ OfRecord
  BY DEF Init, Promise!Init, OfRecord, Official, Trial, Current
<1>2. ScriptOK /\ ScriptOK' /\ OfRecord /\ [Next]_vars => OfRecord'
  BY OfRecordStep
<1>3. ScriptOK /\ ScriptOK' /\ OfRecord /\ [Next]_vars
         => [Promise!Next]_<<Official, proven, cut>>
  BY PromiseStep
<1>4. QED BY <1>1, <1>2, <1>3, Invariant, PTL DEF Spec, ImplementsRollout, Promise!Spec

-------------------------------------------------------------------------------
\* What curl has heard belongs to the round under way, and the script changes
\* the container only in its last steps.
CurlOK ==
    /\ \A d \in Deps : pc # "curl" => got[Script][d] = "none" /\ flight[Script][d] = NoFlight
    /\ \A d \in Deps : got[Script][d] # "none" => flight[Script][d] = NoFlight
    /\ pc \in {"migrate", "up"} => image = previous

LEMMA CurlStep == ASSUME HealthOK, ScriptOK, CurlOK, [Next]_vars PROVE CurlOK'
<1> USE ReleaseAssumption DEF CurlOK, machine, health, script
<1> DEFINE Quiet == \A d \in Deps : got'[Script][d] = "none" /\ flight'[Script][d] = NoFlight
<1>1. CASE /\ UNCHANGED <<got, flight, image, previous>>
           /\ pc' = pc \/ {pc, pc'} \cap {"migrate", "curl", "up"} = {}
  BY <1>1
<1>2. CASE Quiet /\ UNCHANGED <<image, previous>> /\ (pc' = pc \/ pc' \notin {"migrate", "up"})
  BY <1>2
<1>3. CASE Quiet /\ pc' \notin {"migrate", "up"}
  BY <1>3
<1>4. Forget => Quiet
  BY DEF Forget
<1>5. UNCHANGED <<got, flight>> /\ pc # "curl" => Quiet
  OBVIOUS
<1>6. ASSUME NEW i \in Images, Deploy(i) PROVE CurlOK'
  BY <1>5, <1>6 DEF Deploy
<1>7. CASE Migrate
  BY <1>5, <1>7 DEF Migrate
<1>8. CASE MigrateFails \/ PullFails \/ Complete
  BY <1>3, <1>5, <1>8 DEF MigrateFails, PullFails, Complete, ExitOnError, Exit
<1>9. CASE Up \/ UpFails
  BY <1>3, <1>4, <1>5, <1>9 DEF Up, UpFails, ExitOnError, Exit, Container, ContainerFails
<1>10. CASE RollBack
  BY <1>3, <1>4, <1>5, <1>10 DEF RollBack, Exit, Container, ContainerFails
<1>11. CASE Interrupt
  <2>1. Quiet
    BY <1>11 DEF Interrupt, HealthOK
  <2>2. QED BY <1>3, <1>11, <2>1 DEF Interrupt, Exit
<1>12. CASE CheckRefused
  BY <1>1, <1>12 DEF CheckRefused
<1>13. CASE CurlFails
  <2>1. Quiet
    BY <1>13 DEF CurlFails, Asking, HealthOK
  <2>2. QED BY <1>3, <1>13, <2>1 DEF CurlFails
<1>14. CASE CheckAsks
  <2>1. \A d \in Deps : got'[Script][d] # "none" => flight'[Script][d] = NoFlight
    BY <1>14 DEF CheckAsks, Ask, HealthOK
  <2>2. QED BY <1>14, <2>1 DEF CheckAsks
<1>15. CASE CurlHears
  <2>1. \A d \in Deps : got[Script][d] # "none" /\ got'[Script][d] = "none" /\ flight' = flight
    BY <1>15 DEF CurlHears, Known, Reported, HealthOK
  <2>2. Quiet
    BY <2>1
  <2>3. QED BY <1>3, <1>15, <2>2 DEF CurlHears
<1>16. CASE Tick
  <2>1. \A d \in Deps : got'[Script][d] = got[Script][d]
           /\ (flight[Script][d] = NoFlight => flight'[Script][d] = NoFlight)
    BY <1>16, ReleaseAssumption DEF Tick, Older, NoFlight
  <2>2. QED BY <1>16, <2>1 DEF Tick
<1>17. ASSUME NEW c \in Callers, OtherAsks(c) \/ OtherHears(c) PROVE CurlOK'
  <2>1. got'[Script] = got[Script] /\ flight'[Script] = flight[Script]
    BY <1>17 DEF OtherAsks, OtherHears, Ask, Reported, HealthOK
  <2>2. QED BY <1>17, <2>1 DEF OtherAsks, OtherHears, Ask
<1>18. ASSUME NEW c \in Callers, NEW dep \in Deps, ProbeReturns(c, dep) PROVE CurlOK'
  <2>1. UNCHANGED <<pc, image, previous>> /\ flight[c][dep] # NoFlight
        /\ flight' = [flight EXCEPT ![c][dep] = NoFlight]
    BY <1>18 DEF ProbeReturns
  <2>2. PICK v \in {"ok", "down"} : got' = [got EXCEPT ![c][dep] = v]
    BY <1>18 DEF ProbeReturns
  <2>3. \A d \in Deps : ~ (c = Script /\ d = dep)
           => got'[Script][d] = got[Script][d] /\ flight'[Script][d] = flight[Script][d]
    BY <2>1, <2>2 DEF HealthOK
  <2>4. c = Script => pc = "curl" /\ flight'[Script][dep] = NoFlight
    BY <2>1 DEF HealthOK
  <2>5. QED BY <2>1, <2>3, <2>4
<1>19. CASE Crash
  BY <1>2, <1>4, <1>19 DEF Crash
<1>20. CASE Push \/ Boot
  BY <1>1, <1>20 DEF Push, Boot
<1>21. CASE UNCHANGED vars
  BY <1>1, <1>21 DEF vars
<1>22. QED
  BY <1>6, <1>7, <1>8, <1>9, <1>10, <1>11, <1>12, <1>13, <1>14, <1>15, <1>16, <1>17, <1>18,
     <1>19, <1>20, <1>21 DEF Next, ScriptStep, Loop

IsDown(d) == cached[d].left > 0 /\ cached[d].value = "down"
Heard == \E d \in Deps : got[Script][d] = "down"

\* What is left of the script's patience while it has met one bad probe: each
\* round that was told `down' has taken one from the entry's time to live.
Patience ==
    Trial /\ previous # image /\ bad < 2 =>
        /\ bad = 0 => tries = refused /\ ~ Heard /\ \A d \in Deps : ~ IsDown(d)
        /\ tries - refused <= TTL
        /\ Heard => tries - refused < TTL
        /\ \A d \in Deps : IsDown(d) =>
              /\ tries - refused + cached[d].left <= TTL + 1
              /\ Heard \/ pc = "check" => tries - refused + cached[d].left <= TTL

\* A step after which less is known to be down, and no round is lost by it.
LEMMA CalmStep ==
    ASSUME HealthOK, ScriptOK, Counts, Patience, ScriptOK', Counts',
           Trial' => Trial, UNCHANGED <<previous, image, bad>>,
           tries' - refused' = tries - refused,
           Heard' => Heard,
           \A d \in Deps : IsDown(d)' => IsDown(d) /\ cached'[d].left \in 0 .. cached[d].left,
           pc' = "check" => pc = "check"
    PROVE  Patience'
<1> SUFFICES ASSUME Trial', previous # image, bad < 2 PROVE Patience'
  BY DEF Patience, ScriptOK
<1>0. /\ tries \in Nat /\ refused \in Nat /\ tries' \in Nat /\ refused' \in Nat /\ bad \in 0 .. 2
      /\ \A d \in Deps : cached[d].left \in Nat
  BY DEF Counts, ScriptOK, HealthOK, Probe
<1>1. (tries = refused) => tries' = refused'
  BY <1>0
<1>2. bad' = 0 => tries' = refused' /\ ~ Heard' /\ \A d \in Deps : ~ IsDown(d)'
  BY <1>1 DEF Patience
<1>3. tries' - refused' <= TTL /\ (Heard' => tries' - refused' < TTL)
  BY DEF Patience
<1>4. ASSUME NEW d \in Deps, IsDown(d)'
      PROVE  /\ tries' - refused' + cached'[d].left <= TTL + 1
             /\ Heard' \/ pc' = "check" => tries' - refused' + cached'[d].left <= TTL
  <2>1. cached'[d].left \in Nat /\ cached'[d].left <= cached[d].left /\ IsDown(d)
    BY <1>0, <1>4
  <2>2. tries - refused + cached[d].left <= TTL + 1
        /\ (Heard \/ pc = "check" => tries - refused + cached[d].left <= TTL)
    BY <2>1 DEF Patience
  <2>3. tries' - refused' + cached'[d].left <= tries - refused + cached[d].left
    <3>1. \A n \in Int, i, j \in Nat : i <= j => n + i <= n + j
      OBVIOUS
    <3>2. tries - refused \in Int /\ cached[d].left \in Nat
      BY <1>0
    <3>3. tries - refused + cached'[d].left <= tries - refused + cached[d].left
      BY <2>1, <3>1, <3>2
    <3>4. QED BY <3>3
  <2>4. Heard' \/ pc' = "check" => Heard \/ pc = "check"
    OBVIOUS
  <2>5. {tries - refused + cached[d].left, tries' - refused' + cached'[d].left} \subseteq Int
    BY <1>0, <2>1
  <2>6. QED BY <2>2, <2>3, <2>4, <2>5, ReleaseAssumption
<1>5. QED BY <1>2, <1>3, <1>4 DEF Patience

LEMMA PatienceStep ==
    ASSUME HealthOK, ScriptOK, Counts, CurlOK, Patience, [Next]_vars,
           HealthOK', ScriptOK', Counts', CurlOK'
    PROVE  Patience'
<1> USE ReleaseAssumption DEF machine, health, script, rounds
<1>0. /\ tries \in Nat /\ refused \in Nat /\ tries' \in Nat /\ refused' \in Nat /\ bad \in 0 .. 2
      /\ bad' \in 0 .. 2
      /\ \A d \in Deps : cached[d].left \in 0 .. TTL /\ cached'[d].left \in 0 .. TTL
  BY DEF Counts, ScriptOK, HealthOK, Probe
<1> DEFINE Same == UNCHANGED <<cached, previous, image, bad>> /\ tries' - refused' = tries - refused
                   /\ (pc' = "check" => pc = "check")
                   /\ \A d \in Deps : cached'[d].left \in 0 .. cached[d].left
<1>1. CASE Same /\ (Trial' => Trial) /\ (Heard' => Heard)
  BY <1>1, CalmStep DEF IsDown
<1>2. CASE ~ Trial'
  BY <1>2 DEF Patience
<1>3. CASE pc' = "idle"
  BY <1>3, <1>2 DEF Trial
<1>4. UNCHANGED cached => \A d \in Deps : cached'[d].left \in 0 .. cached[d].left
  BY <1>0
<1>5. Forget => ~ Heard' /\ \A d \in Deps : ~ IsDown(d)'
  BY DEF Forget, NotCached, Heard, IsDown
<1>6. CASE MigrateFails \/ PullFails \/ UpFails \/ Complete \/ RollBack \/ Interrupt
  BY <1>3, <1>6 DEF MigrateFails, PullFails, UpFails, Complete, RollBack, Interrupt,
     ExitOnError, Exit
<1>7. CASE Migrate \/ \E i \in Images : Deploy(i)
  BY <1>2, <1>7 DEF Migrate, Deploy, Trial
<1>8. CASE Up
  <2>1. previous' = previous /\ tries' = 0 /\ refused' = 0 /\ bad' = 0
    BY <1>8 DEF Up
  <2>2. CASE image' = image
    BY <1>8, <2>1, <2>2 DEF Patience, CurlOK, Up
  <2>3. CASE Forget
    BY <1>5, <2>1, <2>3 DEF Patience
  <2>4. QED BY <1>8, <2>2, <2>3 DEF Up, Container
<1>9. CASE CheckRefused \/ CurlFails
  <2>1. tries' - refused' = tries - refused
    <3>1. tries' = tries + 1 /\ refused' = refused + 1
      BY <1>9 DEF CheckRefused, CurlFails
    <3>2. QED BY <1>0, <3>1
  <2>2. Same /\ Trial /\ got' = got
    BY <1>4, <1>9, <2>1 DEF CheckRefused, CurlFails, Trial
  <2>3. QED BY <1>1, <2>2 DEF Heard
<1>10. CASE CheckAsks
  <2>1. /\ pc = "check" /\ pc' = "curl" /\ Trial
        /\ UNCHANGED <<cached, previous, image, bad, tries, refused>>
    BY <1>10 DEF CheckAsks, Ask, Trial
  <2>2. \A d \in Deps : got'[Script][d] = IF Fresh(d) THEN cached[d].value ELSE "none"
    BY <1>10 DEF CheckAsks, Ask, HealthOK
  <2>3. Heard' => \E d \in Deps : IsDown(d)
    BY <2>2 DEF Heard, IsDown, Fresh
  <2>4. \A d \in Deps : IsDown(d)' <=> IsDown(d)
    BY <2>1 DEF IsDown
  <2>5. SUFFICES ASSUME previous # image, bad < 2 PROVE Patience'
    BY <2>1 DEF Patience
  <2>6. \A d \in Deps : IsDown(d) => tries - refused + cached[d].left <= TTL /\ cached[d].left > 0
    BY <2>1, <2>5 DEF Patience, IsDown
  <2>7. Heard' => tries - refused < TTL
    BY <1>0, <2>3, <2>6
  <2>8. \A d \in Deps : IsDown(d) => tries - refused + cached[d].left <= TTL + 1
    BY <1>0, <2>6
  <2>9. bad = 0 => tries = refused /\ ~ Heard' /\ \A d \in Deps : ~ IsDown(d)
    BY <2>1, <2>3, <2>5 DEF Patience
  <2>10. tries - refused <= TTL
    BY <2>1, <2>5 DEF Patience
  <2>11. QED BY <2>1, <2>4, <2>6, <2>7, <2>8, <2>9, <2>10 DEF Patience
<1>11. CASE CurlHears
  <2>1. /\ UNCHANGED <<cached, flight, previous, image, bad, refused>> /\ Trial
        /\ pc' # "check" /\ pc' # "curl"
    BY <1>11 DEF CurlHears, Trial
  <2>2. ~ Heard'
    BY <2>1 DEF Heard, CurlOK
  <2>3. CASE tries' = tries
    BY <1>1, <1>4, <2>1, <2>2, <2>3
  <2>4. CASE ~ GoodEnough /\ tries' = tries + 1
    <3>1. Heard
      BY <1>11, <2>4 DEF CurlHears, GoodEnough, Healthy, Known, Heard, HealthOK
    <3>2. \A d \in Deps : IsDown(d)' <=> IsDown(d)
      BY <2>1 DEF IsDown
    <3>3. SUFFICES ASSUME previous # image, bad < 2 PROVE Patience'
      BY <2>1 DEF Patience
    <3>4. bad # 0 /\ tries' - refused <= TTL
      BY <1>0, <2>1, <2>4, <3>1, <3>3 DEF Patience
    <3>5. \A d \in Deps : IsDown(d) => tries - refused + cached[d].left <= TTL
      BY <2>1, <3>1, <3>3 DEF Patience
    <3>6. \A d \in Deps : IsDown(d) => tries' - refused + cached[d].left <= TTL + 1
      BY <1>0, <2>4, <3>5
    <3>7. QED BY <2>1, <2>2, <3>2, <3>4, <3>6 DEF Patience
  <2>5. QED BY <1>11, <2>3, <2>4 DEF CurlHears
<1>12. CASE Tick
  <2>1. /\ UNCHANGED <<previous, image, bad, tries, refused, got>> /\ pc # "check"
        /\ \A d \in Deps : cached'[d] = Aged(cached[d])
        /\ pc' = IF pc = "sleep" THEN "check" ELSE pc
    BY <1>12 DEF Tick
  <2>2. \A d \in Deps : IsDown(d)' => IsDown(d) /\ cached'[d].left = cached[d].left - 1
    <3>1. SUFFICES ASSUME NEW d \in Deps, IsDown(d)'
                   PROVE  IsDown(d) /\ cached'[d].left = cached[d].left - 1
      OBVIOUS
    <3>2. cached[d] \in Probe
      BY DEF HealthOK
    <3>3. cached'[d] = Aged(cached[d]) /\ cached'[d].left > 0 /\ cached'[d].value = "down"
      BY <2>1, <3>1 DEF IsDown
    <3>4. QED BY <3>2, <3>3, AgedStill DEF IsDown
  <2>3. CASE pc # "sleep"
    <3>1. \A d \in Deps : IsDown(d)' => IsDown(d) /\ cached'[d].left \in 0 .. cached[d].left
      BY <1>0, <2>2
    <3>2. tries' - refused' = tries - refused /\ (Heard' => Heard) /\ (Trial' => Trial)
          /\ pc' # "check"
      BY <2>1, <2>3 DEF Heard, Trial
    <3>3. QED BY <2>1, <3>1, <3>2, CalmStep
  <2>4. CASE pc = "sleep"
    <3>1. ~ Heard' /\ Trial
      BY <2>1, <2>4 DEF Heard, CurlOK, Trial
    <3>2. SUFFICES ASSUME previous # image, bad < 2 PROVE Patience'
      BY <2>1 DEF Patience
    <3>3. \A d \in Deps : IsDown(d) => tries - refused + cached[d].left <= TTL + 1
      BY <3>1, <3>2 DEF Patience
    <3>4. \A d \in Deps : IsDown(d)' => tries - refused + cached'[d].left <= TTL
      BY <1>0, <2>2, <3>3
    <3>5. \A d \in Deps : IsDown(d)' => tries - refused + cached'[d].left <= TTL + 1
      BY <1>0, <3>4
    <3>6. tries - refused <= TTL /\ (bad = 0 => tries = refused /\ \A d \in Deps : ~ IsDown(d)')
      BY <2>2, <3>1, <3>2 DEF Patience
    <3>7. QED BY <2>1, <3>1, <3>4, <3>5, <3>6 DEF Patience
  <2>5. QED BY <2>3, <2>4
<1>13. ASSUME NEW c \in Callers, OtherAsks(c) \/ OtherHears(c) PROVE Patience'
  <2>1. got'[Script] = got[Script]
    BY <1>13 DEF OtherAsks, OtherHears, Ask, Reported, HealthOK
  <2>2. Same /\ (Trial' => Trial)
    BY <1>4, <1>13 DEF OtherAsks, OtherHears, Ask, Trial
  <2>3. QED BY <1>1, <2>1, <2>2 DEF Heard
<1>14. ASSUME NEW c \in Callers, NEW dep \in Deps, ProbeReturns(c, dep) PROVE Patience'
  <2>0. PICK value \in {"ok", "down"} :
          /\ got' = [got EXCEPT ![c][dep] = value]
          /\ cached' = [cached EXCEPT ![dep] = Entry(value, flight[c][dep])]
          /\ bad' = IF value = "ok" \/ bad = 2 \/ pc = "idle" THEN bad ELSE bad + 1
    BY <1>14 DEF ProbeReturns
  <2>1. UNCHANGED <<pc, previous, image, tries, refused>> /\ flight[c][dep] \in Nat
    BY <1>14, ReleaseAssumption DEF ProbeReturns, HealthOK
  <2>2. SUFFICES ASSUME Trial, previous # image, bad < 2, bad' < 2 PROVE Patience'
    BY <1>0, <2>0, <2>1 DEF Patience, Trial
  <2>3. CASE value = "ok"
    <3>1. /\ got' = [got EXCEPT ![c][dep] = "ok"]
          /\ cached' = [cached EXCEPT ![dep] = Entry("ok", flight[c][dep])]
      BY <2>0, <2>3
    <3>2. \A d \in Deps : got'[Script][d] \in {"ok", got[Script][d]}
      BY <3>1 DEF HealthOK
    <3>3. cached'[dep].value \in {"ok", "none"} /\ \A d \in Deps : d # dep => cached'[d] = cached[d]
      BY <2>1, <3>1, EntryOK DEF HealthOK
    <3>4. \A d \in Deps : IsDown(d)' => IsDown(d) /\ cached'[d].left \in 0 .. cached[d].left
      BY <1>0, <3>3 DEF IsDown
    <3>5. (Heard' => Heard) /\ bad' = bad
      BY <2>0, <2>1, <2>3, <3>2 DEF Heard
    <3>6. (Trial' => Trial) /\ tries' - refused' = tries - refused /\ (pc' = "check" => pc = "check")
      BY <2>1 DEF Trial
    <3>7. QED BY <2>1, <3>4, <3>5, <3>6, CalmStep
  <2>4. CASE value = "down"
    <3>1. bad = 0 /\ bad' = 1
      BY <1>0, <2>0, <2>2, <2>4 DEF Trial
    <3>2. tries = refused /\ ~ Heard /\ \A d \in Deps : ~ IsDown(d)
      BY <2>2, <3>1 DEF Patience
    <3>3. Heard' => pc = "curl"
      BY <2>1 DEF Heard, CurlOK
    <3>4. tries' - refused' = 0
      BY <1>0, <2>1, <3>2
    <3>5. \A d \in Deps : cached'[d].left <= TTL
      BY <1>0
    <3>6. ASSUME NEW d \in Deps
          PROVE  tries' - refused' + cached'[d].left <= TTL
                 /\ tries' - refused' + cached'[d].left <= TTL + 1
      <4>1. cached'[d].left \in 0 .. TTL /\ TTL \in Nat
        BY <1>0
      <4>2. QED BY <4>1, <3>4
    <3>7. bad' # 0 /\ tries' - refused' <= TTL /\ tries' - refused' < TTL
      BY <3>1, <3>4
    <3>8. QED BY <3>6, <3>7 DEF Patience
  <2>5. QED BY <2>3, <2>4
<1>15. CASE Crash
  <2>1. UNCHANGED <<previous, image, bad, tries, refused, pc>>
    BY <1>15 DEF Crash
  <2>2. ~ Heard' /\ \A d \in Deps : ~ IsDown(d)'
    BY <1>5, <1>15 DEF Crash
  <2>3. QED BY <2>1, <2>2 DEF Patience, Trial
<1>16. CASE Push \/ Boot
  <2>1. Same /\ (Trial' => Trial) /\ got' = got
    BY <1>4, <1>16 DEF Push, Boot, Trial
  <2>2. QED BY <1>1, <2>1 DEF Heard
<1>17. CASE UNCHANGED vars
  BY <1>1, <1>4, <1>17 DEF vars, Trial, Heard
<1>18. QED
  BY <1>6, <1>7, <1>8, <1>9, <1>10, <1>11, <1>12, <1>13, <1>14, <1>15, <1>16, <1>17
     DEF Next, ScriptStep, Loop

\* SAFETY.  RollBackTakesTwoFailures, for any patience of the script and any
\* time to live: a cached bad probe costs TTL rounds at most.
THEOREM OneBadProbeIsSurvived == Spec => []RollBackTakesTwoFailures
<1>1. Init => CurlOK /\ Patience
  BY ReleaseAssumption DEF Init, CurlOK, Patience, Trial
<1>2. HealthOK /\ ScriptOK /\ Counts /\ CurlOK /\ Patience
      /\ HealthOK' /\ ScriptOK' /\ Counts' /\ [Next]_vars
         => CurlOK' /\ Patience'
  <2> SUFFICES ASSUME HealthOK, ScriptOK, Counts, CurlOK, Patience, [Next]_vars,
                      HealthOK', ScriptOK', Counts'
               PROVE  CurlOK' /\ Patience'
    OBVIOUS
  <2>1. CurlOK'
    BY CurlStep
  <2>2. QED BY <2>1, PatienceStep
<1>3. ScriptOK /\ Counts /\ Patience => RollBackTakesTwoFailures
  <2>1. ScriptOK /\ Counts => tries \in Nat /\ refused \in Nat /\ bad \in 0 .. 2
    BY DEF ScriptOK, Counts
  <2>2. QED BY <2>1, ReleaseAssumption DEF Patience, Trial, RollBackTakesTwoFailures
<1>4. QED BY <1>1, <1>2, <1>3, Invariant, PTL DEF Spec

-------------------------------------------------------------------------------
(* The script comes to its end. *)

\* What the script still has to do; a round that fails costs three: the
\* question, the answer and the sleep.
Rest(label) ==
    CASE label = "migrate" -> 5
      [] label = "up"      -> 4
      [] label = "sleep"   -> 4
      [] label = "check"   -> 3
      [] label = "curl"    -> 2
      [] label = "healthy" -> 1
      [] label = "idle"    -> 0

Work == IF pc = "idle" THEN 0 ELSE 3 * (Retries - tries) + Rest(pc)

LEMMA RestIs ==
    /\ Rest("migrate") = 5 /\ Rest("up") = 4 /\ Rest("sleep") = 4 /\ Rest("check") = 3
    /\ Rest("curl") = 2 /\ Rest("healthy") = 1 /\ Rest("idle") = 0
BY DEF Rest

LEMMA WorkBounded ==
    ASSUME ScriptOK, Counts
    PROVE  Work \in 0 .. 3 * Retries + 5
<1>1. Rest(pc) \in 0 .. 5
  BY RestIs DEF ScriptOK
<1>2. QED BY <1>1, ReleaseAssumption DEF Counts, Work

\* Outside its loop the script has counted no round.
NotCounting == pc \in {"idle", "migrate", "up"} => tries = 0

LEMMA NotCountingStep == ASSUME NotCounting, [Next]_vars PROVE NotCounting'
<1> USE DEF NotCounting, rounds
<1>1. CASE Push \/ Boot \/ Crash \/ Migrate
               \/ (\E i \in Images : Deploy(i))
  BY <1>1 DEF Push, Boot, Crash, Migrate, Deploy
<1>2. CASE MigrateFails \/ PullFails \/ UpFails \/ Complete \/ RollBack \/ Interrupt
  BY <1>2 DEF MigrateFails, PullFails, UpFails, Complete, RollBack, Interrupt,
     ExitOnError, Exit
<1>3. CASE Up \/ CheckRefused \/ CheckAsks \/ CurlFails \/ CurlHears
  BY <1>3 DEF Up, CheckRefused, CheckAsks, CurlFails, CurlHears
<1>4. CASE Tick
  BY <1>4 DEF Tick
<1>5. ASSUME NEW c \in Callers, OtherAsks(c) \/ OtherHears(c) PROVE NotCounting'
  BY <1>5 DEF OtherAsks, OtherHears, Ask
<1>6. ASSUME NEW c \in Callers, NEW d \in Deps, ProbeReturns(c, d) PROVE NotCounting'
  BY <1>6 DEF ProbeReturns
<1>7. CASE UNCHANGED vars
  BY <1>7 DEF vars
<1>8. QED BY <1>1, <1>2, <1>3, <1>4, <1>5, <1>6, <1>7 DEF Next, ScriptStep, Loop

\* A step of the script, the end of its sleep included, leaves it less to do;
\* nobody else gives it more, until it is started again.
ScriptAdvances ==
    [][pc # "idle" =>
          \/ Work' < Work
          \/ Work' = Work /\ pc' = pc /\ tries' = tries /\ ~ ScriptStep]_vars

\* What a step that moves the script leaves it.
LEMMA Moves ==
    ASSUME ScriptOK, Counts, ScriptOK', Counts', pc # "idle",
           \/ pc' = "idle"
           \/ tries' = tries /\ Rest(pc') < Rest(pc)
           \/ tries' = tries + 1 /\ Rest(pc') < Rest(pc) + 3
    PROVE  Work' < Work
<1>1. /\ tries \in 0 .. Retries /\ tries' \in 0 .. Retries /\ Retries \in Nat
      /\ Rest(pc) \in 1 .. 5 /\ Rest(pc') \in 0 .. 5
  BY RestIs, ReleaseAssumption DEF ScriptOK, Counts
<1>2. Work = 3 * (Retries - tries) + Rest(pc)
  BY DEF Work
<1>3. CASE pc' = "idle"
  <2>1. Work' = 0
    BY <1>3 DEF Work
  <2>2. QED BY <1>1, <1>2, <2>1
<1>4. CASE pc' # "idle"
  <2>1. Work' = 3 * (Retries - tries') + Rest(pc')
    BY <1>4 DEF Work
  <2>2. QED BY <1>1, <1>2, <1>4, <2>1
<1>5. QED BY <1>3, <1>4

\* ReleaseEnds, without its fairness: a release takes three steps for each of
\* its HEALTH_RETRIES rounds and five more at the most, the ends of its sleeps
\* included, whatever health answers, the container does and CI pushes.
THEOREM ReleaseAdvances == Spec => ScriptAdvances /\ [](Work <= 3 * Retries + 5)
<1>1. Init => NotCounting
  BY DEF Init, NotCounting
<1>2. NotCounting /\ [Next]_vars => NotCounting'
  BY NotCountingStep
<1> DEFINE Good == ScriptOK /\ Counts /\ NotCounting
<1>3. ASSUME Good, Good', [Next]_vars, pc # "idle"
      PROVE  \/ Work' < Work
             \/ Work' = Work /\ pc' = pc /\ tries' = tries /\ ~ ScriptStep
  <2> USE RestIs DEF Good
  <2>1. CASE MigrateFails \/ PullFails \/ UpFails \/ Complete \/ RollBack \/ Interrupt
    <3>1. pc' = "idle"
      BY <2>1 DEF MigrateFails, PullFails, UpFails, Complete, RollBack, Interrupt,
         ExitOnError, Exit
    <3>2. QED BY <1>3, <3>1, Moves
  <2>2. CASE Migrate
    <3>1. pc = "migrate" /\ pc' = "up" /\ tries' = tries
      BY <2>2 DEF Migrate, rounds
    <3>2. QED BY <1>3, <3>1, Moves
  <2>3. CASE Up
    <3>1. pc = "up" /\ pc' = "check" /\ tries' = tries
      BY <1>3, <2>3 DEF Up, NotCounting
    <3>2. QED BY <1>3, <3>1, Moves
  <2>4. CASE CheckRefused \/ CurlFails
    <3>1. pc \in {"check", "curl"} /\ pc' = "sleep" /\ tries' = tries + 1
      BY <2>4 DEF CheckRefused, CurlFails
    <3>2. QED BY <1>3, <3>1, Moves
  <2>5. CASE CheckAsks
    <3>1. pc = "check" /\ pc' = "curl" /\ tries' = tries
      BY <2>5 DEF CheckAsks, Ask, rounds
    <3>2. QED BY <1>3, <3>1, Moves
  <2>6. CASE CurlHears
    <3>1. /\ pc = "curl"
          /\ \/ pc' = "healthy" /\ tries' = tries
             \/ pc' = "sleep" /\ tries' = tries + 1
      BY <2>6 DEF CurlHears
    <3>2. QED BY <1>3, <3>1, Moves
  <2>7. CASE ScriptStep
    BY <2>1, <2>2, <2>3, <2>4, <2>5, <2>6, <2>7 DEF ScriptStep, Loop
  <2>8. CASE Tick /\ pc = "sleep"
    <3>1. pc' = "check" /\ tries' = tries
      BY <2>8 DEF Tick, rounds
    <3>2. QED BY <1>3, <2>8, <3>1, Moves
  <2>9. CASE UNCHANGED <<pc, tries>>
    BY <2>7, <2>9 DEF Work
  <2>10. CASE Tick /\ pc # "sleep"
    BY <2>9, <2>10 DEF Tick, rounds
  <2>11. CASE Push \/ Boot \/ Crash
    BY <2>9, <2>11 DEF Push, Boot, Crash, rounds
  <2>12. CASE \E c \in Callers : OtherAsks(c) \/ OtherHears(c)
    BY <2>9, <2>12 DEF OtherAsks, OtherHears, Ask, rounds
  <2>13. CASE \E c \in Callers, d \in Deps : ProbeReturns(c, d)
    BY <2>9, <2>13 DEF ProbeReturns
  <2>14. CASE \E i \in Images : Deploy(i)
    BY <1>3, <2>14 DEF Deploy
  <2>15. CASE UNCHANGED vars
    BY <2>9, <2>15 DEF vars, rounds
  <2>16. QED
    BY <1>3, <2>1, <2>7, <2>8, <2>10, <2>11, <2>12, <2>13, <2>14, <2>15 DEF Next
<1>4. ScriptOK /\ Counts => Work <= 3 * Retries + 5
  <2> SUFFICES ASSUME ScriptOK, Counts PROVE Work <= 3 * Retries + 5
    OBVIOUS
  <2>1. Work \in 0 .. 3 * Retries + 5
    BY WorkBounded
  <2>2. QED BY <2>1
<1>5. Good /\ Good' /\ [Next]_vars =>
         [pc # "idle" =>
             \/ Work' < Work
             \/ Work' = Work /\ pc' = pc /\ tries' = tries /\ ~ ScriptStep]_vars
  BY <1>3
<1> HIDE DEF Good
<1>6. ScriptOK /\ Counts /\ NotCounting => Good
  BY DEF Good
<1>7. QED BY <1>1, <1>2, <1>4, <1>5, <1>6, Invariant, PTL DEF Spec, ScriptAdvances

===============================================================================
