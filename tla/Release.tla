-------------------------------- MODULE Release --------------------------------
(***************************************************************************)
(* A release on the virtual machine: deploy.sh, the container it replaces, *)
(* the boot of index.ts with its secrets from Key Vault, and GET /health   *)
(* with its cached probes, by which the script decides.  A tick is the     *)
(* script's HEALTH_INTERVAL of 3 seconds.  The script is started by hand,  *)
(* one at a time; CI pushes images while it runs.                          *)
(***************************************************************************)
EXTENDS Integers

CONSTANTS
    Newest,     \* the images CI builds are 1 .. Newest, in this order
    Sound,      \* the images that boot
    Deps,       \* what health probes: the database and the vault
    Callers,    \* who asks for health at the same time
    Script,     \* the script's curl, one of them
    Retries,    \* HEALTH_RETRIES, 15
    TTL         \* PROBE_TTL_MS, 30 seconds

ASSUME ReleaseAssumption ==
    /\ Newest \in Nat \ {0}
    /\ Sound \subseteq 1 .. Newest
    /\ Script \in Callers
    /\ Retries \in Nat \ {0}
    /\ TTL \in Nat \ {0}

None == 0
Images == 1 .. Newest

VARIABLES
    latest,   \* the last image CI pushed
    schema,   \* the image whose migrations the database has
    image,    \* the image of the api container
    proc,     \* its process
    cached,   \* probeCache, with the age of each probe
    flight,   \* the age of each caller's probe under way
    got,      \* what each caller's health request has learnt
    pc,       \* where the script is
    target,   \* the image it pulled
    previous, \* previous_image
    tries,    \* the failed rounds of its loop
    before,   \* history: the image of record when it started
    proven,   \* history: the images that were healthy when it asked
    refused,  \* history: the rounds in which nothing listened
    bad,      \* history: the probes that found something down
    cut       \* history: a release was cut short, or its roll back failed

machine == <<image, proc>>
health == <<cached, flight, got>>
script == <<target, previous, before>>
rounds == <<tries, refused, bad>>
vars == <<latest, schema, machine, health, pc, script, rounds, proven, cut>>

NoFlight == -1
NotCached == [value |-> "none", left |-> 0, age |-> 0]
Asking(c) == \E d \in Deps : got[c][d] # "none" \/ flight[c][d] # NoFlight

Init ==
    /\ latest = 1
    /\ schema = None
    /\ image = None
    /\ proc = "stopped"
    /\ cached = [d \in Deps |-> NotCached]
    /\ flight = [c \in Callers |-> [d \in Deps |-> NoFlight]]
    /\ got = [c \in Callers |-> [d \in Deps |-> "none"]]
    /\ pc = "idle"
    /\ target = None /\ previous = None /\ before = None
    /\ tries = 0 /\ refused = 0 /\ bad = 0
    /\ proven = {}
    /\ cut = FALSE

\* Outside the script, CI pushes.  The database and the vault come and go too:
\* whatever asks one of them may find it down.
Push ==
    /\ latest < Newest
    /\ latest' = latest + 1
    /\ UNCHANGED <<schema, machine, health, pc, script, rounds, proven, cut>>

-------------------------------------------------------------------------------
(* The process: index.ts under `restart: unless-stopped'. *)

\* The module state of a process, and the requests it was serving, go with it.
Forget ==
    /\ cached' = [d \in Deps |-> NotCached]
    /\ flight' = [c \in Callers |-> [d \in Deps |-> NoFlight]]
    /\ got' = [c \in Callers |-> [d \in Deps |-> "none"]]

\* main: resolveSecrets gets every secret and the app listens, or it throws, for
\* as long as the vault does not answer.
Boot ==
    /\ proc = "booting"
    /\ image \in Sound
    /\ proc' = "up"
    /\ UNCHANGED <<latest, schema, image, health, pc, script, rounds, proven, cut>>

\* The process dies and Docker starts it again; main that fails exits too, and
\* is booting as before.
Crash ==
    /\ proc = "up"
    /\ proc' = "booting"
    /\ Forget
    /\ UNCHANGED <<latest, schema, image, pc, script, rounds, proven, cut>>

-------------------------------------------------------------------------------
(* GET /health. *)

\* hit && hit.expiresAt > now.
Fresh(d) == cached[d].left > 0

\* getHealth asks cachedProbe for both dependencies at once.
Ask(c) ==
    /\ proc = "up"
    /\ ~ Asking(c)
    /\ got' = [got EXCEPT ![c] = [d \in Deps |-> IF Fresh(d) THEN cached[d].value ELSE "none"]]
    /\ flight' = [flight EXCEPT ![c] = [d \in Deps |-> IF Fresh(d) THEN NoFlight ELSE 0]]
    /\ UNCHANGED <<latest, schema, machine, cached, script, rounds, proven, cut>>

\* Mutant of Entry: expiresAt is computed when the probe comes back.
EntryAfterwards(value, age) == [value |-> value, left |-> TTL, age |-> age]

\* `now' was read before the await.
Entry(value, age) ==
    IF age < TTL THEN [value |-> value, left |-> TTL - age, age |-> age] ELSE NotCached

\* A probe comes back and writes the cache, over what a later one may have
\* written.
ProbeReturns(c, d) ==
    /\ flight[c][d] # NoFlight
    /\ \E value \in {"ok", "down"} :
          /\ got' = [got EXCEPT ![c][d] = value]
          /\ cached' = [cached EXCEPT ![d] = Entry(value, flight[c][d])]
          /\ bad' = IF value = "ok" \/ bad = 2 \/ pc = "idle" THEN bad ELSE bad + 1
    /\ flight' = [flight EXCEPT ![c][d] = NoFlight]
    /\ UNCHANGED <<latest, schema, machine, pc, script, tries, refused, proven, cut>>

Known(c) == \A d \in Deps : got[c][d] # "none"

\* 200 when nothing is down, 503 otherwise.
Healthy(c) == \A d \in Deps : got[c][d] = "ok"

Reported(c) == got' = [got EXCEPT ![c] = [d \in Deps |-> "none"]]

\* Docker's own health check asks as well; nothing acts on what it hears.
OtherAsks(c) == c # Script /\ Ask(c) /\ UNCHANGED pc
OtherHears(c) ==
    /\ c # Script
    /\ Known(c)
    /\ Reported(c)
    /\ UNCHANGED <<latest, schema, machine, cached, flight, pc, script, rounds,
                   proven, cut>>

-------------------------------------------------------------------------------
(* deploy.sh. *)

Current == IF proc = "stopped" THEN None ELSE image

\* Preflight and previous_image; a tag may be named on the command line.
Deploy(i) ==
    /\ pc = "idle"
    /\ i <= latest
    /\ pc' = "migrate"
    /\ target' = i
    /\ previous' = image
    /\ before' = Current
    /\ UNCHANGED <<latest, schema, machine, health, rounds, proven, cut>>

\* The script exits: its variables are gone.
Exit ==
    /\ pc' = "idle"
    /\ target' = None /\ previous' = None /\ before' = None
    /\ tries' = 0 /\ refused' = 0 /\ bad' = 0

\* Mutant of ExitOnError: the script goes on, without `set -e'.
ExitOnErrorNot == pc' = "up" /\ UNCHANGED <<script, rounds>>

\* A command failed, under `set -e'.
ExitOnError == Exit

\* migrateDeploy.ts in a one-off container of the pulled image.  Migrations
\* are only ever added: an older image finds nothing to apply.
Migrate ==
    /\ pc = "migrate"
    /\ schema' = IF target > schema THEN target ELSE schema
    /\ pc' = "up"
    /\ UNCHANGED <<latest, machine, health, script, rounds, proven, cut>>

\* Some of the migrations may have been applied.
MigrateFails ==
    /\ pc = "migrate"
    /\ schema' \in schema .. (IF target > schema THEN target ELSE schema)
    /\ ExitOnError
    /\ UNCHANGED <<latest, machine, health, proven, cut>>

\* The pull fails: nothing has changed.
PullFails ==
    /\ pc = "migrate"
    /\ ExitOnError
    /\ UNCHANGED <<latest, schema, machine, health, proven, cut>>

\* docker compose up -d: the container is recreated when its image is another
\* or it does not run.
Container(i) ==
    IF image = i /\ proc # "stopped" THEN UNCHANGED <<machine, health>>
    ELSE image' = i /\ proc' = "booting" /\ Forget

\* It fails before it stops the old container, or when it starts the new one.
ContainerFails(i) ==
    \/ UNCHANGED <<machine, health>>
    \/ image' = i /\ proc' = "stopped" /\ Forget

Up ==
    /\ pc = "up"
    /\ Container(target)
    /\ pc' = "check"
    /\ tries' = 0 /\ refused' = 0 /\ bad' = 0
    /\ UNCHANGED <<latest, schema, script, proven, cut>>

UpFails ==
    /\ pc = "up"
    /\ ContainerFails(target)
    /\ ExitOnError
    /\ UNCHANGED <<latest, schema, proven, cut>>

\* Mutant of CheckRefused: the loop does not count its rounds.
CheckRefusedUncounted ==
    /\ pc = "check"
    /\ proc # "up"
    /\ pc' = "sleep"
    /\ UNCHANGED <<latest, schema, machine, health, script, rounds, proven, cut>>

\* A round of the loop: curl is refused, or waits for the report.
CheckRefused ==
    /\ pc = "check"
    /\ proc # "up"
    /\ pc' = "sleep"
    /\ tries' = tries + 1
    /\ refused' = refused + 1
    /\ UNCHANGED <<latest, schema, machine, health, script, bad, proven, cut>>

CheckAsks == pc = "check" /\ Ask(Script) /\ pc' = "curl"

\* The process died under curl.
CurlFails ==
    /\ pc = "curl"
    /\ ~ Asking(Script)
    /\ pc' = "sleep"
    /\ tries' = tries + 1
    /\ refused' = refused + 1
    /\ UNCHANGED <<latest, schema, machine, health, script, bad, proven, cut>>

\* curl -f fails on a 503.
GoodEnough == Healthy(Script)

CurlHears ==
    /\ pc = "curl"
    /\ Known(Script)
    /\ Reported(Script)
    /\ \/ /\ GoodEnough
          /\ pc' = "healthy"
          /\ proven' = IF Healthy(Script) THEN proven \cup {image} ELSE proven
          /\ UNCHANGED tries
       \/ /\ ~ GoodEnough
          /\ pc' = "sleep"
          /\ tries' = tries + 1
          /\ UNCHANGED proven
    /\ UNCHANGED <<latest, schema, machine, cached, flight, script, refused, bad, cut>>

Complete ==
    /\ pc = "healthy"
    /\ Exit
    /\ cut' = FALSE
    /\ UNCHANGED <<latest, schema, machine, health, proven>>

\* Mutant of RollBackTo: the script goes back to what runs now.
RollBackToImage == image

RollBackTo == previous

LoopOver == tries = Retries

\* The loop is over: back to the previous image, when there is another one.
RollBack ==
    /\ pc = "sleep" /\ LoopOver
    /\ \/ previous \in {None, image} /\ UNCHANGED <<machine, health, cut>>
       \/ previous \notin {None, image} /\ Container(RollBackTo) /\ UNCHANGED cut
       \/ previous \notin {None, image} /\ ContainerFails(RollBackTo) /\ cut' = TRUE
    /\ Exit
    /\ UNCHANGED <<latest, schema, proven>>

\* The operator's shell goes down under the script, with the request that
\* curl waits for; the container stays.
Interrupt ==
    /\ pc # "idle"
    /\ Exit
    /\ cut' = TRUE
    /\ got' = [got EXCEPT ![Script] = [d \in Deps |-> "none"]]
    /\ flight' = [flight EXCEPT ![Script] = [d \in Deps |-> NoFlight]]
    /\ UNCHANGED <<latest, schema, machine, cached, proven>>

-------------------------------------------------------------------------------
\* Mutant of Aged: expiresAt is not looked at, an entry stays.
AgedNever(e) == e

\* An entry that has expired is never read again: it is as good as none.
Aged(e) == IF e.left > 1 THEN [e EXCEPT !.left = @ - 1, !.age = @ + 1] ELSE NotCached

\* A probe takes any time: no client of it has a timeout that counts.  Its age
\* is told apart as far as the time to live.
Older(age) == IF age \in 0 .. TTL - 1 THEN age + 1 ELSE age

\* Time passes: a sleep ends, cache entries and probes grow older.
Tick ==
    /\ pc # "check"
    /\ pc = "sleep" => ~ LoopOver
    /\ pc' = IF pc = "sleep" THEN "check" ELSE pc
    /\ cached' = [d \in Deps |-> Aged(cached[d])]
    /\ flight' = [c \in Callers |-> [d \in Deps |-> Older(flight[c][d])]]
    /\ UNCHANGED <<latest, schema, machine, got, script, rounds, proven, cut>>

Loop == CheckRefused \/ CheckAsks \/ CurlFails \/ CurlHears

ScriptStep ==
    Migrate \/ MigrateFails \/ PullFails \/ Up \/ UpFails \/ Loop \/ Complete \/ RollBack

Next ==
    \/ Push \/ Boot \/ Crash \/ ScriptStep \/ Interrupt \/ Tick
    \/ \E i \in Images : Deploy(i)
    \/ \E c \in Callers : OtherAsks(c) \/ OtherHears(c)
    \/ \E c \in Callers, d \in Deps : ProbeReturns(c, d)

Spec == Init /\ [][Next]_vars

\* The clock runs and the script takes the steps of its loop.  Nothing else is
\* owed: a probe, the curl that waits for it and the commands of Docker have no
\* timeout, and may never come back.
FairSpec == Spec /\ WF_vars(Loop) /\ WF_vars(Tick)

-------------------------------------------------------------------------------
\* TYPE INVARIANT.  There is a process exactly when there is a container, and
\* only a process that is up has a cache and requests.
TypeOK ==
    /\ latest \in Images
    /\ schema \in Images \cup {None}
    /\ image \in Images \cup {None}
    /\ proc \in {"stopped", "booting", "up"}
    /\ cached \in [Deps -> [value : {"none", "ok", "down"}, left : 0 .. TTL, age : Nat]]
    /\ flight \in [Callers -> [Deps -> {NoFlight} \cup 0 .. TTL]]
    /\ got \in [Callers -> [Deps -> {"none", "ok", "down"}]]
    /\ pc \in {"idle", "migrate", "up", "check", "curl", "sleep", "healthy"}
    /\ target \in Images \cup {None}
    /\ previous \in Images \cup {None}
    /\ before \in Images \cup {None}
    /\ tries \in 0 .. Retries
    /\ refused \in 0 .. Retries
    /\ bad \in 0 .. 2
    /\ proven \subseteq Images
    /\ cut \in BOOLEAN
    /\ image = None => proc = "stopped"
    /\ pc # "idle" => target \in Images

\* SAFETY.  The database always has the migrations of the image that serves,
\* also after a migration that failed half way, a roll back and a release that
\* was cut short.
SchemaCoversRunning == image <= schema

\* SAFETY (action).  A report takes from the cache only what was probed less
\* than the time to live before it was asked for, however slow the probes are
\* and in whatever order they overwrite one another.  The report itself may be
\* later: it waits for the probes that its cached half did not need.
HealthIsRecent ==
    [][\A c \in Callers : Ask(c) =>
          \A d \in Deps : got'[c][d] # "none" => cached[d].age < TTL]_vars

\* SAFETY.  An image that boots is only rolled back when it was slow to listen
\* or something was found down twice: one bad probe stays in the cache for
\* fewer rounds than the script has patience for.
RollBackTakesTwoFailures ==
    pc = "sleep" /\ tries = Retries /\ previous # image
        => bad >= 2 \/ refused >= Retries - TTL

\* REFINEMENT.  While the new image is on trial the one before is still the
\* image of record.
Trial == pc \in {"check", "curl", "sleep", "healthy"}
Official == IF Trial THEN before ELSE Current

Promise == INSTANCE Rollout WITH
    Images <- Images, None <- None,
    official <- Official, proven <- proven, cut <- cut

ImplementsRollout == Promise!Spec

\* A command of the script is under way; the roll back is one.
InCommand == pc \in {"migrate", "up", "curl", "healthy"} \/ (pc = "sleep" /\ LoopOver)

\* LIVENESS.  The loop comes to its end, however health answers, the process
\* crashes or CI pushes: a script that never ends hangs in one
\* command for ever.
ReleaseEnds == []<>(pc = "idle") \/ <>[]InCommand

===============================================================================
