------------------------------ MODULE SessionQueue ------------------------------
(***************************************************************************)
(* The queue of the front end (App.tsx): it recovers the saved queue,      *)
(* takes over the browser's requests, enqueues, registers, runs, cancels   *)
(* and saves downloads, and quits; with the store (DurableState), the      *)
(* browser's inbox and the coordinator's registrations around it.          *)
(*                                                                         *)
(* JavaScript runs to its next await: a step here is what happens between  *)
(* two awaits.  A state update takes effect on the list at once and on     *)
(* what the effects see with the next Render.  The queue is sequential.    *)
(***************************************************************************)
EXTENDS Naturals, Sequences, FiniteSets

CONSTANTS
  Requests,      \* ids of the browser's requests
  Locals,        \* ids of downloads that the user adds
  Found,         \* bound: the queues that the first session may find
  EarlyAnswers,  \* bound: a listing of the inbox may answer before the queue is shown
  MaxRestarts,   \* bound: sessions after the first
  MaxFaults,     \* bound: calls that fail
  MaxClicks,     \* bound: what the user does
  MaxEvents      \* bound: restarts, failures and clicks together

ASSUME BoundsAssumption ==
  /\ Requests \cap Locals = {}
  /\ EarlyAnswers \in BOOLEAN
  /\ {MaxRestarts, MaxFaults, MaxClicks, MaxEvents} \subseteq Nat

Ids == Requests \cup Locals
\* A download runs by itself (added, retried or recovered) or by its request.
Runs == (Ids \X {"own"}) \cup (Requests \X {"bridge"})
Load == <<"page", "load">>
Timer == <<"page", "timer">>
Quitting == <<"page", "quit">>
Nobody == <<"page", "nobody">>
Calls == Runs \cup {Load, Timer, Quitting}

VARIABLES
  value, possible, call,   \* the store
  inbox,       \* requests whose file is in the inbox
  unsure,      \* requests whose removal a power loss may undo
  page,        \* the memory of the web view
  run,         \* run -> the await it is at
  ticket,      \* the coordinator: id -> none, registered or started
  cancelled,   \* the coordinator: ids whose control is cancelled
  given,       \* history: requests that were accepted
  handed,      \* history: request -> how often its run was registered
  wanted,      \* history: ids whose last click was a cancellation
  early,       \* history: ids cancelled last before runDownload was past the gate
  unsaved,     \* history: the load or a save has failed, and no save since then has not
  forfeited,   \* history: a load has failed, or a quit has saved out of turn
  restarts, faults, clicks

store == <<value, possible, call>>
host == <<ticket, cancelled>>
bridge == <<inbox, unsure, given>>
past == <<handed, wanted, early, unsaved, forfeited>>
bounds == <<restarts, faults, clicks>>
vars == <<store, bridge, page, run, host, past, bounds>>

Waiting == {"queued", "scheduled"}
\* "ended" is completed, cancelled or failed: what no start recovers.
Statuses == {"queued", "downloading", "paused", "cancelling", "ended"}
Items == [id: Ids, status: Statuses, place: Nat]
Lists == Seq(Items)

\* A queue has no place twice (AppSnapshot::validate) and no download twice (runDownload).
Distinct(l) ==
  \A j, k \in DOMAIN l: l[j].place = l[k].place \/ l[j].id = l[k].id => j = k

ASSUME FoundAssumption == \A l \in Found: l \in Lists /\ Distinct(l)

\* The store hands running downloads out as paused (Snapshots!Opened).
Reopened(l) == [k \in DOMAIN l |->
  IF l[k].status \in {"downloading", "cancelling"} THEN [l[k] EXCEPT !.status = "paused"] ELSE l[k]]

Store == INSTANCE DurableState WITH
  Values <- Lists, Nothing <- << >>, Reading <- [l \in Lists |-> Reopened(l)]

Steps == {"idle", "known", "inspect", "gate", "wait", "save", "asked", "answered", "refused",
          "recovered", "acknowledge", "calling", "running", "ended"}

Has(l, i) == \E k \in DOMAIN l: l[k].id = i
ItemOf(l, i) == l[CHOOSE k \in DOMAIN l: l[k].id = i]
StatusOf(l, i) == ItemOf(l, i).status
WithStatus(l, i, status) ==
  [k \in DOMAIN l |-> IF l[k].id = i THEN [l[k] EXCEPT !.status = status] ELSE l[k]]
Without(l, i) ==
  LET kept[n \in 0 .. Len(l)] ==
        IF n = 0 THEN << >>
        ELSE IF l[n].id = i THEN kept[n - 1] ELSE Append(kept[n - 1], l[n])
  IN  kept[Len(l)]
WithItem(l, item) ==
  IF Has(l, item.id) THEN [k \in DOMAIN l |-> IF l[k].id = item.id THEN item ELSE l[k]]
                     ELSE <<item>> \o l

NewPage ==
  [ready |-> "loading", list |-> << >>, latest |-> << >>, changed |-> {}, listing |-> {},
   answered |-> FALSE, requests |-> {}, handled |-> {}, next |-> 0, timer |-> FALSE, saver |-> Nobody,
   again |-> FALSE, recovery |-> {}, open |-> FALSE, cancelling |-> {}, registered |-> {},
   quit |-> "no"]

Pages ==
  [ready: {"loading", "loaded", "ready"}, list: Lists, latest: Lists,
   changed: SUBSET {"list", "requests", "ready"}, listing: SUBSET Requests, answered: BOOLEAN,
   requests: SUBSET Requests, handled: SUBSET Requests, next: Nat, timer: BOOLEAN,
   saver: Runs \cup {Timer, Nobody}, again: BOOLEAN, recovery: SUBSET Ids, open: BOOLEAN,
   cancelling: SUBSET Ids, registered: SUBSET Ids, quit: {"no", "wait", "save"}]

TypeOK ==
  /\ value \in Lists /\ possible \subseteq Lists
  /\ call \in [Calls -> [pc: Store!Pcs, value: Lists]]
  /\ inbox \subseteq Requests /\ unsure \subseteq Requests /\ given \subseteq Requests
  /\ page \in Pages
  /\ run \in [Runs -> Steps]
  /\ ticket \in [Ids -> {"none", "registered", "started"}]
  /\ cancelled \subseteq Ids
  /\ handed \in [Requests -> Nat] /\ wanted \subseteq Ids /\ early \subseteq Ids
  /\ unsaved \in BOOLEAN /\ forfeited \in BOOLEAN

\* The load is asked for when the page is mounted.
NewCalls == [c \in Calls |-> IF c = Load THEN [pc |-> "loading", value |-> << >>] ELSE Store!Idle]

Init ==
  /\ value \in Found /\ possible = {value} /\ call = NewCalls
  /\ inbox = {} /\ unsure = {} /\ given = {r \in Requests: Has(value, r)}
  /\ page = NewPage
  /\ run = [p \in Runs |-> "idle"]
  /\ ticket = [i \in Ids |-> "none"] /\ cancelled = {}
  /\ handed = [r \in Requests |-> IF Has(value, r) THEN 1 ELSE 0]
  /\ wanted = {} /\ early = {} /\ unsaved = FALSE /\ forfeited = FALSE
  /\ restarts = 0 /\ faults = 0 /\ clicks = 0

Id(p) == p[1]
Own(i) == <<i, "own">>
Bridge(r) == <<r, "bridge">>

\* setDownloads
Listed(pg, list) == [pg EXCEPT !.list = list, !.changed = @ \cup {"list"}]
\* updateDownload
Shown(pg, i, status) == Listed(pg, WithStatus(pg.list, i, status))
RunGoes(p, from, to) == run[p] = from /\ run' = [run EXCEPT ![p] = to]

Eventful == restarts + faults + clicks < MaxEvents
Fault == Eventful /\ faults < MaxFaults /\ faults' = faults + 1 /\ UNCHANGED <<restarts, clicks>>
Click == Eventful /\ clicks < MaxClicks /\ clicks' = clicks + 1 /\ UNCHANGED <<restarts, faults>>

-----------------------------------------------------------------------------
(* The store at work.                                                      *)

StoreWorks ==
  /\ \/ Store!Load(Load) /\ UNCHANGED bounds
     \/ \E c \in Calls: (Store!Replace(c) \/ Store!Succeed(c)) /\ UNCHANGED bounds
     \/ \E c \in Calls: Store!Fail(c) /\ Fault
  /\ UNCHANGED <<bridge, page, run, host, past>>

-----------------------------------------------------------------------------
(* The start of the page.                                                  *)

\* Slip: the last place is given again.
NextPlace_Reused(l) == IF l = << >> THEN 0 ELSE
  CHOOSE n \in {l[k].place: k \in DOMAIN l}: \A k \in DOMAIN l: n >= l[k].place

NextPlace(l) == IF l = << >> THEN 0 ELSE
  1 + (CHOOSE n \in {l[k].place: k \in DOMAIN l}: \A k \in DOMAIN l: n >= l[k].place)

Loaded ==
  /\ call[Load].pc = "loaded"
  /\ Store!Collect(Load)
  /\ LET l == call[Load].value IN
     page' = [Listed(page, l) EXCEPT
       !.ready = "loaded", !.changed = @ \cup {"ready"}, !.next = NextPlace(l),
       !.recovery = {i \in Ids: Has(l, i) /\ StatusOf(l, i) \in Waiting}]
  /\ UNCHANGED <<bridge, run, host, past, bounds>>

\* The page goes on with an empty queue.
LoadFailed ==
  /\ call[Load].pc = "error"
  /\ Store!Collect(Load)
  /\ page' = [page EXCEPT !.ready = "loaded", !.changed = @ \cup {"ready"}]
  /\ forfeited' = TRUE /\ unsaved' = TRUE
  /\ UNCHANGED <<bridge, run, host, handed, wanted, early, bounds>>

\* browserProcessing
Busy == \E r \in Requests: run[Bridge(r)] \notin {"idle", "calling", "running", "ended"}

\* Slip: a request in the queue is taken for a new one.
FirstStep_Fresh(r) == "inspect"

FirstStep(r) == IF Has(page.latest, r) THEN "known" ELSE "inspect"

\* The effect that follows the list; with the list it sets the timer for a save.
Follow(pg) ==
  IF "list" \in pg.changed
    THEN [pg EXCEPT !.latest = pg.list, !.timer = @ \/ (pg.ready # "loading" /\ pg.quit = "no")]
    ELSE pg

Render ==
  /\ page.changed # {}
  /\ LET shown == [Follow(page) EXCEPT !.changed = {}, !.ready = IF @ = "loaded" THEN "ready" ELSE @]
         open == page.ready # "loading" /\ ~Busy /\ {"ready", "requests"} \cap page.changed # {}
                 /\ page.requests \ page.handled # {}
     IN  IF open
           THEN \E r \in page.requests \ page.handled:
                  /\ page' = [shown EXCEPT !.handled = @ \cup {r}]
                  /\ run' = [run EXCEPT ![Bridge(r)] = FirstStep(r)]
           ELSE page' = shown /\ UNCHANGED run
  /\ UNCHANGED <<store, bridge, host, past, bounds>>

Place(i) == ItemOf(page.list, i).place

\* registerDownload up to its call of the coordinator.
Register(pg, p) ==
  IF Id(p) \in pg.cancelling
    THEN /\ page' = Shown([pg EXCEPT !.cancelling = @ \ {Id(p)}], Id(p), "ended")
         /\ run' = [run EXCEPT ![p] = "idle"]
    ELSE page' = pg /\ run' = [run EXCEPT ![p] = "asked"]

\* executeDownload up to its call of start_download.
ShowQueued(pg, ids) ==
  Listed(pg, [k \in DOMAIN pg.list |->
    IF pg.list[k].id \in ids THEN [pg.list[k] EXCEPT !.status = "queued"] ELSE pg.list[k]])

\* Slip: in the order of the list, which shows the newest first.
First_Listed(i) == \E k \in DOMAIN page.list:
  page.list[k].id = i /\ \A n \in 1..(k - 1): page.list[n].id \notin page.recovery

First(i) == \A j \in page.recovery: Place(i) <= Place(j)

\* One by one in the order of their places; then the gate opens and all of them start.
Recover ==
  /\ page.ready = "ready" /\ ~page.open
  /\ \A i \in Ids: run[Own(i)] \notin {"asked", "answered", "refused"}
  /\ \/ \E i \in page.recovery:
          /\ First(i)
          /\ Register([page EXCEPT !.recovery = @ \ {i}], Own(i))
     \/ /\ page.recovery = {}
        /\ LET done == {i \in Ids: run[Own(i)] = "recovered"} IN
           /\ page' = [IF done = {} THEN page ELSE ShowQueued(page, done) EXCEPT !.open = TRUE]
           /\ run' = [p \in Runs |-> IF run[p] = "recovered" THEN "calling" ELSE run[p]]
  /\ UNCHANGED <<store, bridge, host, past, bounds>>
-----------------------------------------------------------------------------
(* The browser's requests.                                                 *)

\* A request has been accepted, is whole in the inbox and no power loss can undo
\* that any more: on Unix when it is answered, on Windows some time later
\* (LoopbackServer).
Accept(r) ==
  /\ r \notin given
  /\ given' = given \cup {r} /\ inbox' = inbox \cup {r}
  /\ UNCHANGED <<store, unsure, page, run, host, past, bounds>>

\* list_browser_requests reads the inbox; its answer comes later.  An answer
\* that changes nothing is left out.
ListInbox ==
  /\ ~page.answered
  /\ inbox # page.requests \/ ~(inbox \subseteq page.handled)
  /\ page' = [page EXCEPT !.listing = inbox, !.answered = TRUE]
  /\ UNCHANGED <<store, bridge, run, host, past, bounds>>

ReceiveListing ==
  /\ page.answered
  /\ EarlyAnswers \/ page.ready = "ready"
  /\ page' = [page EXCEPT !.requests = page.listing, !.listing = {}, !.answered = FALSE,
                          !.changed = @ \cup {"requests"}]
  /\ UNCHANGED <<store, bridge, run, host, past, bounds>>

Remove(r) == inbox' = inbox \ {r} /\ unsure' = unsure \cup ({r} \cap inbox) /\ UNCHANGED given

\* A request that is in the queue already is only acknowledged.
AcknowledgeKnown(r) ==
  /\ RunGoes(Bridge(r), "known", "idle")
  /\ \/ Remove(r) /\ UNCHANGED bounds
     \/ Fault /\ UNCHANGED bridge
  /\ UNCHANGED <<store, page, host, past>>

\* inspect_url and resolve_browser_destination.
Inspect(r) ==
  /\ \/ RunGoes(Bridge(r), "inspect", "gate") /\ UNCHANGED bounds
     \/ RunGoes(Bridge(r), "inspect", "idle") /\ Fault
  /\ UNCHANGED <<store, bridge, page, host, past>>

-----------------------------------------------------------------------------
(* runDownload.                                                            *)

\* The page asks for a save of its latest snapshot on behalf of c; the last
\* save of a quit may overtake it, or be overtaken.
AskSave(c, pg) ==
  /\ page' = [pg EXCEPT !.saver = c, !.again = FALSE]
  /\ Store!AskSave(c, pg.latest)
  /\ forfeited' = (forfeited \/ pg.quit = "save")

NoSave == UNCHANGED <<store, forfeited>>

\* Slip: the download is registered while the save is under way.
Enqueue_NotAwaited(p) ==
  LET i == Id(p)
      item == [id |-> i, status |-> "queued", place |-> page.next]
      list == IF Has(page.list, i) /\ p = Bridge(i) THEN page.list ELSE WithItem(page.list, item)
      pg == [Listed(page, list) EXCEPT !.next = @ + 1, !.timer = TRUE,
               !.cancelling = @ \ {i}, !.latest = WithItem(@, item)]
  IN  /\ page.open /\ run[p] = "gate"
      /\ Register(pg, p) /\ NoSave
      /\ UNCHANGED <<bridge, host, handed, wanted, early, unsaved, bounds>>

\* The gate is open: the download gets its place, is shown and is to be saved
\* at once, or after the save that is in flight.
Enqueue(p) ==
  LET i == Id(p)
      item == [id |-> i, status |-> "queued", place |-> page.next]
      list == IF Has(page.list, i) /\ p = Bridge(i) THEN page.list ELSE WithItem(page.list, item)
      pg == [Listed(page, list) EXCEPT !.next = @ + 1, !.timer = FALSE,
               !.cancelling = @ \ {i}, !.latest = WithItem(@, item)]
  IN  /\ page.open /\ run[p] = "gate"
      /\ IF page.saver = Nobody
           THEN AskSave(p, pg) /\ run' = [run EXCEPT ![p] = "save"]
           ELSE /\ page' = [pg EXCEPT !.again = TRUE]
                /\ run' = [run EXCEPT ![p] = "wait"]
                /\ NoSave
      /\ UNCHANGED <<bridge, host, handed, wanted, early, unsaved, bounds>>

\* persistSnapshotNow finds no save in flight any more.
StopWaiting(p) ==
  /\ RunGoes(p, "wait", "save")
  /\ page.saver = Nobody
  /\ AskSave(p, page)
  /\ UNCHANGED <<bridge, host, handed, wanted, early, unsaved, bounds>>

\* Slip: a change during a save is not saved again.
TimerFires_Drops ==
  /\ page.timer
  /\ IF page.saver = Nobody
       THEN AskSave(Timer, [page EXCEPT !.timer = FALSE])
       ELSE page' = [page EXCEPT !.timer = FALSE] /\ NoSave
  /\ UNCHANGED <<bridge, run, host, handed, wanted, early, unsaved, bounds>>

TimerFires ==
  /\ page.timer
  /\ IF page.saver = Nobody
       THEN AskSave(Timer, [page EXCEPT !.timer = FALSE])
       ELSE page' = [page EXCEPT !.timer = FALSE, !.again = TRUE] /\ NoSave
  /\ UNCHANGED <<bridge, run, host, handed, wanted, early, unsaved, bounds>>

\* Another change came while the save was in flight.
SaveAgain(c) ==
  /\ page.saver = c /\ call[c].pc = "ok" /\ page.again
  /\ AskSave(c, page)
  /\ UNCHANGED <<bridge, run, host, handed, wanted, early, unsaved, bounds>>

Saved(c) ==
  /\ page.saver = c /\ call[c].pc = "ok" /\ ~page.again
  /\ Store!Collect(c)
  /\ IF c = Timer THEN page' = [page EXCEPT !.saver = Nobody] /\ UNCHANGED run
                    ELSE Register([page EXCEPT !.saver = Nobody], c)
  /\ unsaved' = FALSE
  /\ UNCHANGED <<bridge, host, handed, wanted, early, forfeited, bounds>>

\* A browser's download disappears again, another one is shown as failed.
SaveFailed(c) ==
  LET pg == [page EXCEPT !.saver = Nobody] IN
  /\ page.saver = c /\ call[c].pc = "error"
  /\ Store!Collect(c)
  /\ IF c = Timer THEN page' = pg /\ UNCHANGED run
     ELSE /\ run' = [run EXCEPT ![c] = "idle"]
          /\ page' = IF c = Bridge(Id(c)) THEN Listed(pg, Without(pg.list, Id(c)))
                                          ELSE Shown(pg, Id(c), "ended")
  /\ unsaved' = TRUE
  /\ UNCHANGED <<bridge, host, handed, wanted, early, forfeited, bounds>>

\* register_download; it refuses a second registration, and any while an
\* update of the app is being installed.
HostRegisters(p) ==
  LET i == Id(p) IN
  /\ \/ /\ ticket[i] = "none"
        /\ RunGoes(p, "asked", "answered")
        /\ ticket' = [ticket EXCEPT ![i] = "registered"]
        /\ cancelled' = cancelled \ {i}
        /\ handed' = IF p = Bridge(i) THEN [handed EXCEPT ![i] = @ + 1] ELSE handed
        /\ UNCHANGED bounds
     \/ /\ RunGoes(p, "asked", "refused")
        /\ IF ticket[i] = "none" THEN Fault ELSE UNCHANGED bounds
        /\ UNCHANGED <<host, handed>>
  /\ UNCHANGED <<store, bridge, page, wanted, early, unsaved, forfeited>>

\* discard_registered_download: what has started is left alone.
Discard(i) ==
  /\ ticket' = [ticket EXCEPT ![i] = IF @ = "registered" THEN "none" ELSE @]
  /\ cancelled' = IF ticket[i] = "registered" THEN cancelled \ {i} ELSE cancelled

\* Where a registered run goes on: a recovered one waits for the others.
Registered(p) ==
  IF p = Bridge(Id(p)) THEN "acknowledge" ELSE IF page.open THEN "calling" ELSE "recovered"

\* Slip: nobody looks at the cancellations that came before the answer.
Answered_Deaf(p) ==
  /\ run[p] = "answered"
  /\ LET pg == [page EXCEPT !.registered = @ \cup {Id(p)}]
     IN  page' = IF Registered(p) = "calling" THEN ShowQueued(pg, {Id(p)}) ELSE pg
  /\ run' = [run EXCEPT ![p] = Registered(p)]
  /\ UNCHANGED <<store, bridge, host, past, bounds>>

\* A cancellation that came before the answer takes effect now.
Answered(p) ==
  LET i == Id(p) IN
  /\ run[p] = "answered"
  /\ IF i \in page.cancelling
       THEN /\ page' = Shown([page EXCEPT !.cancelling = @ \ {i}, !.registered = @ \ {i}], i, "ended")
            /\ Discard(i)
            /\ run' = [run EXCEPT ![p] = "idle"]
       ELSE /\ LET pg == [page EXCEPT !.registered = @ \cup {i}]
               IN  page' = IF Registered(p) = "calling" THEN ShowQueued(pg, {i}) ELSE pg
            /\ run' = [run EXCEPT ![p] = Registered(p)]
            /\ UNCHANGED host
  /\ UNCHANGED <<store, bridge, past, bounds>>

Refused(p) ==
  LET i == Id(p) IN
  /\ RunGoes(p, "refused", "idle")
  /\ page' = Shown([page EXCEPT !.cancelling = @ \ {i}, !.registered = @ \ {i}], i, "ended")
  /\ Discard(i)
  /\ UNCHANGED <<store, bridge, past, bounds>>

Acknowledge(r) ==
  /\ RunGoes(Bridge(r), "acknowledge", "calling")
  /\ \/ /\ Remove(r)
        /\ page' = [ShowQueued(page, {r}) EXCEPT !.requests = @ \ {r}, !.changed = @ \cup {"requests"}]
        /\ UNCHANGED bounds
     \/ page' = ShowQueued(page, {r}) /\ Fault /\ UNCHANGED bridge
  /\ UNCHANGED <<store, host, past>>

-----------------------------------------------------------------------------
(* The transfer.                                                           *)

\* start_download claims the registration.
Claim(p) ==
  LET i == Id(p) IN
  /\ IF ticket[i] = "registered"
       THEN /\ RunGoes(p, "calling", "running")
            /\ ticket' = [ticket EXCEPT ![i] = "started"]
            /\ page' = IF Has(page.list, i) /\ StatusOf(page.list, i) = "queued"
                         THEN Shown(page, i, "downloading") ELSE page
       ELSE RunGoes(p, "calling", "ended") /\ UNCHANGED <<page, ticket>>
  /\ UNCHANGED <<store, bridge, cancelled, past, bounds>>

\* The transfer ends by itself, or because its control is cancelled.
Finish(p) ==
  /\ RunGoes(p, "running", "ended")
  /\ ticket' = [ticket EXCEPT ![Id(p)] = "none"]
  /\ cancelled' = cancelled \ {Id(p)}
  /\ UNCHANGED <<store, bridge, page, past, bounds>>

\* The page hears of the end.
Ended(p) ==
  LET i == Id(p) IN
  /\ RunGoes(p, "ended", "idle")
  /\ page' = [Shown(page, i, "ended") EXCEPT !.registered = @ \ {i}]
  /\ Discard(i)
  /\ wanted' = wanted \ {i}
  /\ UNCHANGED <<store, bridge, handed, early, unsaved, forfeited, bounds>>

-----------------------------------------------------------------------------
(* The user.                                                               *)

\* createTaskId gives an id that nothing has yet.
Add(i) ==
  /\ Click
  /\ \A l \in {page.list, value, call[Load].value}: ~Has(l, i)
  /\ RunGoes(Own(i), "idle", "gate")
  /\ wanted' = wanted \ {i}
  /\ UNCHANGED <<store, bridge, page, host, handed, early, unsaved, forfeited>>

Unfinished == {"queued", "downloading", "paused"}

AtGate(i) == \E p \in Runs: Id(p) = i /\ run[p] \in {"inspect", "gate"}
Wants(i) ==
  /\ wanted' = wanted \cup {i}
  /\ early' = IF AtGate(i) THEN early \cup {i} ELSE early \ {i}

\* controlDownload(cancel): remembered until the registration, or passed on.
Cancel(i) ==
  /\ Click
  /\ Has(page.list, i) /\ StatusOf(page.list, i) \in Unfinished
  /\ IF i \notin page.registered
       THEN /\ page' = Shown([page EXCEPT !.cancelling = @ \cup {i}], i, "cancelling")
            /\ Wants(i)
            /\ UNCHANGED host
       ELSE IF ticket[i] = "none" THEN UNCHANGED <<page, host, wanted, early>>
       ELSE /\ page' = Shown(page, i, "cancelling")
            /\ cancelled' = cancelled \cup {i}
            /\ Wants(i)
            /\ UNCHANGED ticket
  /\ UNCHANGED <<store, bridge, run, handed, unsaved, forfeited>>

\* retryDownload, also of a download that the last session left paused.
Retry(i) ==
  /\ Click
  /\ Has(page.list, i) /\ StatusOf(page.list, i) \in {"ended", "paused"}
  /\ RunGoes(Own(i), "idle", "gate")
  /\ wanted' = wanted \ {i}
  /\ UNCHANGED <<store, bridge, page, host, handed, early, unsaved, forfeited>>

-----------------------------------------------------------------------------
(* Quitting, crashes and power losses.                                     *)

RequestQuit ==
  /\ Click
  /\ page.quit = "no"
  /\ page' = [page EXCEPT !.quit = "wait", !.timer = FALSE]
  /\ UNCHANGED <<store, bridge, run, host, past>>

\* The last save does not count as one in flight, and does not wait for the queue to be there.
QuitSaves ==
  /\ page.quit = "wait" /\ page.saver = Nobody
  /\ page' = [page EXCEPT !.quit = "save"]
  /\ Store!AskSave(Quitting, page.latest)
  /\ forfeited' = (forfeited \/ page.ready # "ready")
  /\ UNCHANGED <<bridge, run, host, handed, wanted, early, unsaved, bounds>>

QuitFails ==
  /\ page.quit = "save" /\ call[Quitting].pc = "error"
  /\ Store!Collect(Quitting)
  /\ page' = [page EXCEPT !.quit = "no"]
  /\ unsaved' = TRUE
  /\ UNCHANGED <<bridge, run, host, handed, wanted, early, forfeited, bounds>>

NewSession ==
  /\ Eventful /\ restarts < MaxRestarts
  /\ restarts' = restarts + 1
  /\ call' = NewCalls
  /\ page' = NewPage
  /\ run' = [p \in Runs |-> "idle"]
  /\ ticket' = [i \in Ids |-> "none"] /\ cancelled' = {}
  /\ wanted' = {} /\ early' = {} /\ unsaved' = FALSE
  /\ UNCHANGED <<given, handed, forfeited, faults, clicks>>

Quit ==
  /\ page.quit = "save" /\ call[Quitting].pc = "ok"
  /\ NewSession
  /\ UNCHANGED <<value, possible, inbox, unsure>>

\* The process dies; the machine goes on and writes everything back.
Crash ==
  /\ NewSession
  /\ possible' = {value} /\ unsure' = {}
  /\ UNCHANGED <<value, inbox>>

PowerLoss ==
  /\ NewSession
  /\ value' \in possible /\ possible' = {value'}
  /\ \E back \in SUBSET unsure: inbox' = inbox \cup back
  /\ unsure' = {}

Next ==
  \/ StoreWorks \/ Loaded \/ LoadFailed \/ Render \/ Recover
  \/ ListInbox \/ ReceiveListing \/ TimerFires
  \/ \E r \in Requests: Accept(r) \/ AcknowledgeKnown(r) \/ Inspect(r) \/ Acknowledge(r)
  \/ \E p \in Runs: \/ Enqueue(p) \/ StopWaiting(p) \/ HostRegisters(p) \/ Answered(p) \/ Refused(p)
                    \/ Claim(p) \/ Finish(p) \/ Ended(p)
  \/ \E c \in Runs \cup {Timer}: SaveAgain(c) \/ Saved(c) \/ SaveFailed(c)
  \/ \E i \in Ids: Cancel(i) \/ Retry(i)
  \/ \E i \in Locals: Add(i)
  \/ RequestQuit \/ QuitSaves \/ QuitFails \/ Quit \/ Crash \/ PowerLoss

Spec == Init /\ [][Next]_vars

-----------------------------------------------------------------------------
\* What the browser has handed over is in its inbox or in the queue, and what
\* has been started is in the queue, whatever crashes, power losses and failed
\* calls come in between.
NothingIsForgotten ==
  ~forfeited =>
    /\ \A r \in given: r \in inbox \/ \A v \in possible: Has(v, r)
    /\ \A i \in Ids: ticket[i] = "started" => \A v \in possible: Has(v, i)

\* A request starts at most one download, also when its acknowledgement is lost.
HandedOverOnce == ~forfeited => \A r \in Requests: handed[r] <= 1

\* A registration leaves nothing behind: whoever waited in the last session is
\* registered, in the order of the places, before anyone else.
RecoveredComeFirst ==
  [][\A i \in Ids: /\ ticket[i] = "none" /\ ticket'[i] = "registered"
                   => \A j \in page.recovery: Place(i) < Place(j)]_vars

\* Cancellations that came after runDownload was past the recovery gate.  An earlier
\* one, of a paused download that is being resumed while the recovery still runs,
\* is deleted when the gate opens.
InTime == wanted \ early

\* A cancellation in time reaches the transfer, whether it comes before, during or
\* after the registration: no transfer runs on uncancelled.
CancellationArrives ==
  \A p \in Runs: Id(p) \in InTime /\ run[p] \in {"calling", "running"}
                 => Id(p) \in cancelled \/ ticket[Id(p)] = "none"

\* Once nothing is left to do, the queue on disk is the one on the screen.
ComesToRestSaved ==
  /\ page.ready = "ready" /\ page.changed = {} /\ ~page.timer /\ page.saver = Nobody
  /\ page.quit = "no" /\ \A p \in Runs: run[p] # "wait"
  /\ ~unsaved /\ ~forfeited
  => value = page.latest /\ page.latest = page.list

\* No snapshot is refused for a place that is none or given twice (Snapshots!Accepts):
\* saving never gets stuck.
SnapshotsAreValid ==
  /\ TypeOK
  /\ \A j, k \in DOMAIN page.latest: page.latest[j].place = page.latest[k].place => j = k
=============================================================================
