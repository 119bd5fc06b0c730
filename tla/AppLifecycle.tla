---------------------------- MODULE AppLifecycle ----------------------------
(***************************************************************************)
(* The browser-owned life of `samosa app`: src/src/samosa_gateway.c,       *)
(* app_client*_locked, app_lifecycle_handler, app_lifecycle_watchdog, and  *)
(* the page's side in src/assets/app.html.                                 *)
(*                                                                         *)
(* Each open document reports itself under its own id; the gateway keeps   *)
(* the reports in a small table and closes itself once the table has been  *)
(* empty for a grace period.  Every report is a request of its own, on a   *)
(* connection of its own, so two of them may be handled in either order.   *)
(*                                                                         *)
(* Times are relative: a slot holds how long its client has been silent    *)
(* and the deadline how much of it is left, in ticks of at least the       *)
(* shortest grace.  The clock is read and used in one step: the lock is    *)
(* only ever held for a walk over the table.                               *)
(***************************************************************************)
EXTENDS Integers, FiniteSets

CONSTANTS
    Pages,           \* documents: each has one random client id
    Slots,           \* g->app_clients
    None,
    STALE,           \* APP_CLIENT_STALE_MS
    CLOSE_GRACE,     \* APP_CLOSE_GRACE_MS
    STALE_GRACE,     \* APP_STALE_CLOSE_GRACE_MS
    Hides,           \* whether documents are ever hidden
    Fails,           \* whether browsers die and requests are lost
    MaxInFlight      \* bound on the requests under way at once

ASSUME LifecycleAssumption ==
    /\ None \notin Pages
    /\ {CLOSE_GRACE, STALE_GRACE, STALE, MaxInFlight} \subseteq Nat \ {0}
    /\ CLOSE_GRACE < STALE_GRACE /\ STALE_GRACE < STALE
    /\ Hides \in BOOLEAN /\ Fails \in BOOLEAN

\* A silence longer than this has no further effect.
MaxAge == STALE + STALE_GRACE + 1
NoDeadline == -1

Request == [action : {"open", "heartbeat", "visibility", "close"}, page : Pages, hidden : BOOLEAN]

VARIABLES
    page,      \* the documents: "none", "visible", "hidden", "closed"
    requests,  \* lifecycle requests under way
    table,     \* g->app_clients: id, age of seen_mono_ms, hidden
    deadline,  \* g->app_close_deadline_mono_ms: what is left of it, 0 once reached
    seen,      \* g->app_client_seen
    watch,     \* the watchdog: "look", "stop" (decided, lock released), "done"
    stopping,  \* g->stopping, as this watchdog sets it
    report     \* history: what each document last said and how long ago

vars == <<page, requests, table, deadline, seen, watch, stopping, report>>

Free == [id |-> None, age |-> 0, hidden |-> FALSE]

Init ==
    /\ page = [p \in Pages |-> "none"] /\ requests = {}
    /\ table = [s \in Slots |-> Free] /\ deadline = NoDeadline /\ seen = FALSE
    /\ watch = "look" /\ stopping = FALSE
    /\ report = [p \in Pages |-> [said |-> "nothing", age |-> 0]]

(***************************************************************************)
(* The page: src/assets/app.html, reportAppLifecycle and its callers.      *)
(***************************************************************************)
Live(p) == page[p] \in {"visible", "hidden"}

\* reportAppLifecycle: document.hidden is read when the report is made.
Report(p, action, hidden) ==
    /\ ~stopping
    /\ Cardinality(requests) < MaxInFlight
    /\ requests' = requests \cup {[action |-> action, page |-> p, hidden |-> hidden]}

\* A document is loaded, or shown again from the back/forward cache.
OpenPage(p) ==
    /\ ~Live(p)
    /\ \E hidden \in BOOLEAN :
          /\ hidden => Hides
          /\ page' = [page EXCEPT ![p] = IF hidden THEN "hidden" ELSE "visible"]
          /\ Report(p, "open", hidden)
    /\ UNCHANGED <<table, deadline, seen, watch, stopping, report>>

\* The interval timer; a throttled tab may let it rest for as long as it likes.
Heartbeat(p) ==
    /\ Live(p)
    /\ Report(p, "heartbeat", page[p] = "hidden")
    /\ UNCHANGED <<page, table, deadline, seen, watch, stopping, report>>

ChangeVisibility(p) ==
    /\ Hides /\ Live(p)
    /\ page' = [page EXCEPT ![p] = IF page[p] = "hidden" THEN "visible" ELSE "hidden"]
    /\ Report(p, "visibility", page[p] = "visible")
    /\ UNCHANGED <<table, deadline, seen, watch, stopping, report>>

\* pagehide: the timer is cleared and the close beacon queued.
ClosePage(p) ==
    /\ Live(p)
    /\ page' = [page EXCEPT ![p] = "closed"]
    /\ Report(p, "close", page[p] = "hidden")
    /\ UNCHANGED <<table, deadline, seen, watch, stopping, report>>

\* The browser, or the machine under it, is gone: nothing is reported.
KillPage(p) ==
    /\ Fails /\ ~stopping /\ Live(p)
    /\ page' = [page EXCEPT ![p] = "closed"]
    /\ UNCHANGED <<requests, table, deadline, seen, watch, stopping, report>>

(***************************************************************************)
(* The gateway: one request.                                               *)
(***************************************************************************)
\* app_clients_prune_and_count_locked: a hidden client is never stale.  What a free slot
\* says of its last client is never read.
Pruned(t) == [s \in Slots |-> IF ~t[s].hidden /\ t[s].age > STALE THEN Free ELSE t[s]]
Active(t) == {s \in Slots : t[s].id # None}

\* Mutant of Target: the search ends at the first free slot.
Target_first_free(t, p) ==
    LET free == {s \in Slots : t[s].id = None}
    IN IF free # {} THEN free ELSE {s \in Slots : \A q \in Slots : t[q].age <= t[s].age}

\* app_client_upsert_locked: the client's own slot, else a free one, else the oldest.
\* The code takes the first of several; which one makes no difference here.
Target(t, p) ==
    LET own  == {s \in Slots : t[s].id = p}
        free == {s \in Slots : t[s].id = None}
    IN IF own # {} THEN own
       ELSE IF free # {} THEN free
       ELSE {s \in Slots : \A q \in Slots : t[q].age <= t[s].age}

\* app_client_remove_locked.
Removed(t, p) == [s \in Slots |-> IF t[s].id = p THEN Free ELSE t[s]]

\* What the handler makes of the pruned table.
Registered(t, r) ==
    IF r.action = "close" THEN {Removed(t, r.page)}
    ELSE {[t EXCEPT ![s] = [id |-> r.page, age |-> 0, hidden |-> r.hidden]] : s \in Target(t, r.page)}

\* An open client cancels the cleanup; the last close starts it.
NewDeadline(t, action) ==
    IF Active(t) # {} THEN NoDeadline
    ELSE IF action = "close" THEN CLOSE_GRACE
    ELSE deadline

\* The document a registration pushed out of a full table is no longer known.
Heard(t, r) ==
    [p \in Pages |->
        IF p = r.page THEN [said |-> IF r.action = "close" THEN "closed" ELSE "open", age |-> 0]
        ELSE IF \E s \in Slots : table[s].id = p /\ t[s].id = r.page
          THEN [report[p] EXCEPT !.said = "evicted"]
        ELSE report[p]]

\* app_lifecycle_handler.
Handle ==
    /\ ~stopping
    /\ \E r \in requests :
          /\ \E t \in Registered(Pruned(table), r) :
                /\ table' = Pruned(t)
                /\ deadline' = NewDeadline(Pruned(t), r.action)
                /\ report' = Heard(Pruned(t), r)
          /\ seen' = (seen \/ r.action \in {"open", "visibility"})
          /\ requests' = requests \ {r}
    /\ UNCHANGED <<page, watch, stopping>>

\* A request whose connection fails is dropped by the page.
Lose ==
    /\ Fails /\ ~stopping
    /\ \E r \in requests : requests' = requests \ {r}
    /\ UNCHANGED <<page, table, deadline, seen, watch, stopping, report>>

(***************************************************************************)
(* The gateway: the watchdog.                                              *)
(***************************************************************************)
HadVisible == \E s \in Slots : table[s].id # None /\ ~table[s].hidden

\* Mutant of Expiry: stale clients get no grace of their own.
Expiry_at_once(t) ==
    IF seen /\ Active(t) = {} /\ deadline = NoDeadline /\ HadVisible THEN 0 ELSE deadline

\* When the last clients have gone silent the longer grace starts.
Expiry(t) ==
    IF seen /\ Active(t) = {} /\ deadline = NoDeadline /\ HadVisible THEN STALE_GRACE ELSE deadline

\* Mutant of Look: only a table that was empty before the pruning counts.
Look_before_pruning ==
    /\ watch = "look"
    /\ deadline' = Expiry(table) /\ table' = Pruned(table)
    /\ watch' = IF Active(table) = {} /\ deadline' = 0 THEN "stop" ELSE "look"
    /\ UNCHANGED <<page, requests, seen, stopping, report>>

\* One turn of app_lifecycle_watchdog, up to the release of the lock.
Look ==
    /\ watch = "look"
    /\ table' = Pruned(table)
    /\ deadline' = Expiry(Pruned(table))
    /\ watch' = IF Active(Pruned(table)) = {} /\ deadline' = 0 THEN "stop" ELSE "look"
    /\ UNCHANGED <<page, requests, seen, stopping, report>>

\* The decision is carried out without looking again.
Stop ==
    /\ watch = "stop"
    /\ stopping' = TRUE /\ watch' = "done"
    /\ UNCHANGED <<page, requests, table, deadline, seen, report>>

(***************************************************************************)
(* Time; nothing is followed once the gateway has closed.                  *)
(***************************************************************************)
Older(n, limit) == IF n < limit THEN n + 1 ELSE limit

Tick ==
    /\ ~stopping
    /\ table' = [s \in Slots |-> IF table[s] = Free THEN Free ELSE [table[s] EXCEPT !.age = Older(@, MaxAge)]]
    /\ deadline' = IF deadline > 0 THEN deadline - 1 ELSE deadline
    /\ report' = [p \in Pages |->
                     CASE report[p].said = "nothing" -> report[p]
                       [] report[p].said = "open" -> [report[p] EXCEPT !.age = Older(@, MaxAge)]
                       [] OTHER -> [report[p] EXCEPT !.age = Older(@, CLOSE_GRACE)]]
    /\ UNCHANGED <<page, requests, seen, watch, stopping>>

PageStep(p) == OpenPage(p) \/ Heartbeat(p) \/ ChangeVisibility(p) \/ ClosePage(p) \/ KillPage(p)

Next == (\E p \in Pages : PageStep(p)) \/ Handle \/ Lose \/ Look \/ Stop \/ Tick

\* The watchdog thread runs, time passes and every request ends.
Spec ==
    /\ Init /\ [][Next]_vars
    /\ WF_vars(Look \/ Stop) /\ WF_vars(Tick) /\ WF_vars(Handle \/ Lose)

(***************************************************************************)
(* Properties.                                                             *)
(***************************************************************************)
\* Every variable keeps its type.
TypeOK ==
    /\ page \in [Pages -> {"none", "visible", "hidden", "closed"}]
    /\ requests \subseteq Request /\ Cardinality(requests) <= MaxInFlight
    /\ table \in [Slots -> [id : Pages \cup {None}, age : 0 .. MaxAge, hidden : BOOLEAN]]
    /\ deadline \in {NoDeadline} \cup 0 .. STALE_GRACE
    /\ seen \in BOOLEAN /\ watch \in {"look", "stop", "done"} /\ stopping \in BOOLEAN
    /\ report \in [Pages -> [said : {"nothing", "open", "closed", "evicted"}, age : 0 .. MaxAge]]

\* A document is in the table once, so that its close takes it out for good.
OneSlotEach ==
    /\ TypeOK
    /\ \A s, q \in Slots : table[s].id = table[q].id /\ s # q => table[s].id = None

Decides == watch = "look" /\ watch' = "stop"

\* The watchdog never decides to close too early: the last report, of whatever kind, is
\* at least the close grace old, and a document the gateway has heard of and that has not
\* closed has been silent for longer than the stale limit and that grace.
NoEarlyClose ==
    [][Decides => \A p \in Pages :
           /\ report[p].said # "nothing" => report[p].age >= CLOSE_GRACE
           /\ report[p].said = "open" => report[p].age > STALE + CLOSE_GRACE]_vars

\* Closing the last tab stops the gateway, unless another one is opened in time.
AllClosed == seen /\ \A p \in Pages : ~Live(p)
LastTabStops == AllClosed ~> (stopping \/ ~AllClosed)

\* It does whenever nothing the gateway holds or has yet to handle was said by a hidden
\* document, also when close beacons are lost and browsers die.
NothingHidden == (\A s \in Slots : ~table[s].hidden) /\ (\A r \in requests : ~r.hidden)
LastVisibleTabStops == (AllClosed /\ NothingHidden) ~> (stopping \/ ~AllClosed)
=============================================================================
