------------------------- MODULE AppLifecycleProofs -------------------------
(***************************************************************************)
(* Theorems about AppLifecycle for any number of documents and slots and   *)
(* any limits in the order the code has them.                              *)
(***************************************************************************)
EXTENDS AppLifecycle, FiniteSetTheorems, TLAPS

\* A document that was last heard of as open is still in the table, as old as its last
\* report, or has been silent for longer than a visible client may be.
Known ==
    \A p \in Pages : report[p].said = "open" =>
        \/ \E s \in Slots : table[s].id = p /\ table[s].age = report[p].age
        \/ report[p].age > STALE

\* A cleanup is scheduled only while the table is empty.
EmptyWhenClosing == deadline # NoDeadline => Active(table) = {}

\* What is left of the deadline and the silence so far make up the whole grace.
SilentEnough ==
    deadline # NoDeadline => \A p \in Pages :
        /\ report[p].said # "nothing" => report[p].age + deadline >= CLOSE_GRACE
        /\ report[p].said = "open" => report[p].age + deadline > STALE + CLOSE_GRACE

OneSlot == \A s, q \in Slots : table[s].id = table[q].id /\ s # q => table[s].id = None

Inv ==
    /\ TypeOK /\ IsFiniteSet(requests)
    /\ OneSlot /\ Known /\ EmptyWhenClosing /\ SilentEnough

Entry == [id : Pages \cup {None}, age : 0 .. MaxAge, hidden : BOOLEAN]

\* The limits are positive and in the order of APP_CLOSE_GRACE_MS, APP_STALE_CLOSE_GRACE_MS
\* and APP_CLIENT_STALE_MS.
LEMMA Limits ==
    /\ None \notin Pages
    /\ STALE \in Nat /\ CLOSE_GRACE \in Nat /\ STALE_GRACE \in Nat /\ MaxInFlight \in Nat
    /\ 0 < CLOSE_GRACE /\ CLOSE_GRACE < STALE_GRACE /\ STALE_GRACE < STALE
    /\ MaxAge \in Nat /\ MaxAge = STALE + STALE_GRACE + 1
  BY LifecycleAssumption DEF MaxAge

\* A report under way is a request and their number stays bounded (reportAppLifecycle).
LEMMA ReportAdds ==
  ASSUME requests \subseteq Request, IsFiniteSet(requests), Cardinality(requests) <= MaxInFlight,
         NEW p \in Pages, NEW a \in {"open", "heartbeat", "visibility", "close"},
         NEW h \in BOOLEAN, Report(p, a, h)
  PROVE  requests' \subseteq Request /\ IsFiniteSet(requests') /\ Cardinality(requests') <= MaxInFlight
<1> DEFINE r == [action |-> a, page |-> p, hidden |-> h]
<1>1. requests' = requests \cup {r} /\ Cardinality(requests) < MaxInFlight /\ r \in Request
  BY DEF Report, Request
<1> HIDE DEF r
<1>2. Cardinality(requests) \in Nat
  BY FS_CardinalityType
<1>3. /\ IsFiniteSet(requests \cup {r})
      /\ Cardinality(requests \cup {r}) = IF r \in requests THEN Cardinality(requests)
                                          ELSE Cardinality(requests) + 1
  BY FS_AddElement
<1>4. Cardinality(requests \cup {r}) <= MaxInFlight
  BY <1>1, <1>2, <1>3, Limits
<1>5. requests \cup {r} \subseteq Request
  BY <1>1
<1> QED
  BY <1>1, <1>3, <1>4, <1>5

\* A request that has ended no longer counts (app_lifecycle_handler, or a lost connection).
LEMMA EndRemoves ==
  ASSUME requests \subseteq Request, IsFiniteSet(requests), Cardinality(requests) <= MaxInFlight,
         NEW r \in requests, requests' = requests \ {r}
  PROVE  requests' \subseteq Request /\ IsFiniteSet(requests') /\ Cardinality(requests') <= MaxInFlight
<1>1. Cardinality(requests) \in Nat
  BY FS_CardinalityType
<1>2. IsFiniteSet(requests') /\ Cardinality(requests') = Cardinality(requests) - 1
  BY FS_RemoveElement
<1> QED
  BY <1>1, <1>2, Limits

\* Pruning drops whole entries and only those a visible client has let grow stale.
LEMMA PrunedKeeps ==
  ASSUME NEW t \in [Slots -> Entry]
  PROVE  /\ Pruned(t) \in [Slots -> Entry]
         /\ \A s \in Slots : \/ Pruned(t)[s] = t[s]
                             \/ Pruned(t)[s] = Free /\ t[s].age > STALE
         /\ \A s \in Slots : t[s].age = 0 => Pruned(t)[s] = t[s]
  BY Limits DEF Pruned, Free, Entry

\* Registering a client writes one slot, and the client is nowhere else then; closing one
\* takes it out of every slot.  Nothing else changes (app_client_upsert_locked,
\* app_client_remove_locked).
LEMMA RegisteredEffect ==
  ASSUME NEW t \in [Slots -> Entry], NEW r \in Request, NEW u \in Registered(t, r),
         \A s, q \in Slots : t[s].id = t[q].id /\ s # q => t[s].id = None
  PROVE  /\ u \in [Slots -> Entry]
         /\ \A s, q \in Slots : u[s].id = u[q].id /\ s # q => u[s].id = None
         /\ r.action = "close" => \A s \in Slots : u[s] = IF t[s].id = r.page THEN Free ELSE t[s]
         /\ r.action # "close" => \E s \in Slots :
               /\ u[s] = [id |-> r.page, age |-> 0, hidden |-> r.hidden]
               /\ \A q \in Slots \ {s} : u[q] = t[q] /\ t[q].id # r.page
<1>1. r.page \in Pages /\ r.page # None /\ r.hidden \in BOOLEAN
  BY Limits DEF Request
<1>2. CASE r.action = "close"
  <2>1. u = Removed(t, r.page)
    BY <1>2 DEF Registered
  <2> QED
    BY <1>1, <1>2, <2>1, Limits DEF Removed, Free, Entry
<1>3. CASE r.action # "close"
  <2>1. PICK s \in Target(t, r.page) :
           u = [t EXCEPT ![s] = [id |-> r.page, age |-> 0, hidden |-> r.hidden]]
    BY <1>3 DEF Registered
  <2>2. s \in Slots /\ \A q \in Slots \ {s} : t[q].id # r.page
    BY <1>1, <2>1 DEF Target
  <2> QED
    BY <1>1, <1>3, <2>1, <2>2, Limits DEF Entry
<1> QED
  BY <1>2, <1>3

\* The first state satisfies the invariant.
LEMMA InitInv == Init => Inv
<1> SUFFICES ASSUME Init PROVE Inv
  OBVIOUS
<1>1. IsFiniteSet(requests) /\ Cardinality(requests) = 0
  BY FS_EmptySet DEF Init
<1>2. TypeOK
  <2>1. table \in [Slots -> [id : Pages \cup {None}, age : 0 .. MaxAge, hidden : BOOLEAN]]
    BY Limits DEF Init, Free
  <2>2. report \in [Pages -> [said : {"nothing", "open", "closed", "evicted"}, age : 0 .. MaxAge]]
    BY Limits DEF Init
  <2>3. requests \subseteq Request /\ Cardinality(requests) <= MaxInFlight
    BY <1>1, Limits DEF Init
  <2> QED
    BY <2>1, <2>2, <2>3 DEF Init, TypeOK
<1> QED
  BY <1>1, <1>2, Limits DEF Init, Inv, OneSlot, Known, EmptyWhenClosing, SilentEnough, Free, NoDeadline

\* A step that leaves what the gateway knows alone keeps what is said of it.
LEMMA PageKeeps ==
  ASSUME Inv, UNCHANGED <<table, deadline, report>>, TypeOK', IsFiniteSet(requests')
  PROVE  Inv'
  BY DEF Inv, OneSlot, Known, EmptyWhenClosing, SilentEnough, Active

\* The steps of a document: reportAppLifecycle and its callers.
LEMMA PageStepInv ==
  ASSUME Inv, NEW p \in Pages, PageStep(p)
  PROVE  Inv'
<1> USE DEF Inv, TypeOK
<1>1. CASE OpenPage(p)
  <2>1. PICK h \in BOOLEAN : Report(p, "open", h)
           /\ page' = [page EXCEPT ![p] = IF h THEN "hidden" ELSE "visible"]
    BY <1>1 DEF OpenPage
  <2> QED
    BY <1>1, <2>1, ReportAdds, PageKeeps DEF OpenPage
<1>2. CASE Heartbeat(p)
  <2>1. Report(p, "heartbeat", page[p] = "hidden")
    BY <1>2 DEF Heartbeat
  <2> QED
    BY <1>2, <2>1, ReportAdds, PageKeeps DEF Heartbeat
<1>3. CASE ChangeVisibility(p)
  <2>1. Report(p, "visibility", page[p] = "visible")
    BY <1>3 DEF ChangeVisibility
  <2> QED
    BY <1>3, <2>1, ReportAdds, PageKeeps DEF ChangeVisibility
<1>4. CASE ClosePage(p)
  <2>1. Report(p, "close", page[p] = "hidden")
    BY <1>4 DEF ClosePage
  <2> QED
    BY <1>4, <2>1, ReportAdds, PageKeeps DEF ClosePage
<1>5. CASE KillPage(p)
  BY <1>5, PageKeeps DEF KillPage
<1> QED
  BY <1>1, <1>2, <1>3, <1>4, <1>5 DEF PageStep

\* A request that the gateway handles: app_lifecycle_handler.
LEMMA HandleInv ==
  ASSUME Inv, Handle
  PROVE  Inv'
<1> USE Limits
<1>0. PICK r \in requests :
         /\ \E t \in Registered(Pruned(table), r) :
               /\ table' = Pruned(t)
               /\ deadline' = NewDeadline(Pruned(t), r.action)
               /\ report' = Heard(Pruned(t), r)
         /\ requests' = requests \ {r}
         /\ seen' = (seen \/ r.action \in {"open", "visibility"})
  BY DEF Handle
<1>1. PICK t \in Registered(Pruned(table), r) :
         /\ table' = Pruned(t)
         /\ deadline' = NewDeadline(Pruned(t), r.action)
         /\ report' = Heard(Pruned(t), r)
  BY <1>0
<1>2. r \in Request /\ r.page \in Pages /\ r.page # None
  BY DEF Inv, TypeOK, Request
<1>3. table \in [Slots -> Entry]
  BY DEF Inv, TypeOK, Entry
<1> DEFINE old == Pruned(table)
<1>4. /\ old \in [Slots -> Entry]
      /\ \A s \in Slots : old[s] = table[s] \/ (old[s] = Free /\ table[s].age > STALE)
  BY <1>3, PrunedKeeps
<1>5. \A s, q \in Slots : old[s].id = old[q].id /\ s # q => old[s].id = None
  BY <1>3, <1>4 DEF Inv, OneSlot, Free
<1> HIDE DEF old
<1>6. /\ t \in [Slots -> Entry]
      /\ \A s, q \in Slots : t[s].id = t[q].id /\ s # q => t[s].id = None
      /\ r.action = "close" => \A s \in Slots : t[s] = IF old[s].id = r.page THEN Free ELSE old[s]
      /\ r.action # "close" => \E s \in Slots :
            /\ t[s] = [id |-> r.page, age |-> 0, hidden |-> r.hidden]
            /\ \A q \in Slots \ {s} : t[q] = old[q] /\ old[q].id # r.page
  BY <1>1, <1>2, <1>4, <1>5, RegisteredEffect DEF old
<1>7. /\ table' \in [Slots -> Entry]
      /\ \A s \in Slots : table'[s] = t[s] \/ (table'[s] = Free /\ t[s].age > STALE)
      /\ \A s \in Slots : t[s].age = 0 => table'[s] = t[s]
  BY <1>1, <1>6, PrunedKeeps
<1>8. OneSlot'
  BY <1>6, <1>7 DEF OneSlot, Free
<1>9. report \in [Pages -> [said : {"nothing", "open", "closed", "evicted"}, age : 0 .. MaxAge]]
  BY DEF Inv, TypeOK
<1>10. /\ report'[r.page] = [said |-> IF r.action = "close" THEN "closed" ELSE "open", age |-> 0]
       /\ \A p \in Pages \ {r.page} :
             IF \E s \in Slots : table[s].id = p /\ table'[s].id = r.page
               THEN report'[p] = [report[p] EXCEPT !.said = "evicted"] ELSE report'[p] = report[p]
  BY <1>1, <1>2 DEF Heard
<1>11. report' \in [Pages -> [said : {"nothing", "open", "closed", "evicted"}, age : 0 .. MaxAge]]
  BY <1>1, <1>2, <1>9 DEF Heard
<1>12. deadline' \in {NoDeadline} \cup 0 .. STALE_GRACE
  BY <1>1 DEF NewDeadline, Inv, TypeOK
<1>13. r.action # "close" => \E s \in Slots :
          /\ table'[s] = [id |-> r.page, age |-> 0, hidden |-> r.hidden]
          /\ \A q \in Slots \ {s} : t[q] = old[q] /\ old[q].id # r.page
  <2>1. ASSUME r.action # "close", NEW s \in Slots,
               t[s] = [id |-> r.page, age |-> 0, hidden |-> r.hidden]
        PROVE  table'[s] = t[s]
    <3>1. t[s].age = 0
      BY <2>1
    <3> QED
      BY <3>1, <1>7
  <2> QED
    BY <1>6, <2>1
<1>14. deadline' # NoDeadline => r.action = "close" /\ deadline' = CLOSE_GRACE /\ Active(table') = {}
  BY <1>1, <1>2, <1>13 DEF NewDeadline, Active
<1>15. Known'
  <2> SUFFICES ASSUME NEW p \in Pages, report'[p].said = "open"
               PROVE  \/ \E s \in Slots : table'[s].id = p /\ table'[s].age = report'[p].age
                      \/ report'[p].age > STALE
    BY DEF Known
  <2>1. CASE p = r.page
    BY <1>10, <1>13, <2>1
  <2>2. CASE p # r.page
    <3>1. report'[p] = report[p] /\ ~\E s \in Slots : table[s].id = p /\ table'[s].id = r.page
      <4>1. CASE \E s \in Slots : table[s].id = p /\ table'[s].id = r.page
        <5>1. report'[p] = [report[p] EXCEPT !.said = "evicted"]
          BY <1>10, <2>2, <4>1
        <5>2. report'[p].said = "evicted"
          BY <1>9, <5>1
        <5> QED
          BY <5>2
      <4> QED
        BY <1>10, <2>2, <4>1
    <3>2. CASE report[p].age > STALE
      BY <3>1, <3>2
    <3>3. CASE \E s \in Slots : table[s].id = p /\ table[s].age = report[p].age
      <4>1. PICK s \in Slots : table[s].id = p /\ table[s].age = report[p].age
        BY <3>3
      <4>2. CASE old[s] # table[s]
        BY <1>4, <3>1, <4>1, <4>2
      <4>3. CASE old[s] = table[s]
        <5>1. t[s] = old[s]
          BY <1>6, <1>7, <2>2, <3>1, <4>1, <4>3
        <5> QED
          BY <1>7, <3>1, <4>1, <4>3, <5>1
      <4> QED
        BY <4>2, <4>3
    <3> QED
      BY <3>1, <3>2, <3>3 DEF Inv, Known
  <2> QED
    BY <2>1, <2>2
<1>16. EmptyWhenClosing'
  BY <1>14 DEF EmptyWhenClosing
<1>17. SilentEnough'
  <2> SUFFICES ASSUME deadline' # NoDeadline, NEW p \in Pages
               PROVE  /\ report'[p].said # "nothing" => report'[p].age + deadline' >= CLOSE_GRACE
                      /\ report'[p].said = "open" => report'[p].age + deadline' > STALE + CLOSE_GRACE
    BY DEF SilentEnough
  <2>1. deadline' = CLOSE_GRACE /\ Active(table') = {}
    BY <1>14
  <2>2. report'[p].age \in Nat
    BY <1>11
  <2>3. report'[p].said = "open" => report'[p].age > STALE
    BY <1>15, <2>1 DEF Known, Active
  <2> QED
    BY <2>1, <2>2, <2>3
<1>18. /\ requests' \subseteq Request /\ IsFiniteSet(requests')
       /\ Cardinality(requests') <= MaxInFlight
  BY <1>0, EndRemoves DEF Inv, TypeOK
<1>19. TypeOK'
  BY <1>0, <1>7, <1>11, <1>12, <1>18 DEF Handle, Inv, TypeOK, Entry
<1> QED
  BY <1>8, <1>15, <1>16, <1>17, <1>18, <1>19 DEF Inv

\* A turn of app_lifecycle_watchdog.
LEMMA LookInv ==
  ASSUME Inv, Look
  PROVE  Inv'
<1> USE Limits
<1>1. table \in [Slots -> Entry]
  BY DEF Inv, TypeOK, Entry
<1>2. /\ table' \in [Slots -> Entry]
      /\ \A s \in Slots : table'[s] = table[s] \/ (table'[s] = Free /\ table[s].age > STALE)
      /\ report' = report /\ requests' = requests
  BY <1>1, PrunedKeeps DEF Look
<1>3. report \in [Pages -> [said : {"nothing", "open", "closed", "evicted"}, age : 0 .. MaxAge]]
  BY DEF Inv, TypeOK
<1>4. OneSlot'
  BY <1>2 DEF Inv, OneSlot, Free
<1>5. Known'
  BY <1>2 DEF Inv, Known
<1>6. \/ deadline' = deadline
      \/ deadline' = STALE_GRACE /\ Active(table') = {}
  BY DEF Look, Expiry
<1>7. EmptyWhenClosing'
  BY <1>2, <1>6 DEF Inv, EmptyWhenClosing, Active, Free
<1>8. SilentEnough'
  <2>1. CASE deadline' = deadline
    BY <1>2, <2>1 DEF Inv, SilentEnough
  <2>2. CASE deadline' = STALE_GRACE /\ Active(table') = {}
    <3> SUFFICES ASSUME NEW p \in Pages
                 PROVE  /\ report'[p].age + STALE_GRACE >= CLOSE_GRACE
                        /\ report'[p].said = "open" => report'[p].age + STALE_GRACE > STALE + CLOSE_GRACE
      BY <2>2 DEF SilentEnough
    <3>1. report'[p].age \in Nat
      BY <1>2, <1>3
    <3>2. report'[p].said = "open" => report'[p].age > STALE
      BY <1>5, <2>2 DEF Known, Active
    <3> QED
      BY <3>1, <3>2
  <2> QED
    BY <1>6, <2>1, <2>2
<1>9. TypeOK'
  <2>1. deadline' \in {NoDeadline} \cup 0 .. STALE_GRACE /\ watch' \in {"look", "stop", "done"}
    BY <1>6 DEF Look, Inv, TypeOK
  <2> QED
    BY <1>2, <2>1 DEF Look, Inv, TypeOK, Entry
<1> QED
  BY <1>2, <1>4, <1>5, <1>7, <1>8, <1>9 DEF Inv

\* Time passes: what is in the table and what was said of it age together, and the
\* deadline loses what the silence gains.
LEMMA TickInv ==
  ASSUME Inv, Tick
  PROVE  Inv'
<1> USE Limits
<1>1. table \in [Slots -> Entry]
  BY DEF Inv, TypeOK, Entry
<1>2. report \in [Pages -> [said : {"nothing", "open", "closed", "evicted"}, age : 0 .. MaxAge]]
  BY DEF Inv, TypeOK
<1>3. table' \in [Slots -> Entry]
  BY <1>1 DEF Tick, Older, Free, Entry
<1>4. \A s \in Slots : table'[s].id = table[s].id
  BY <1>1 DEF Tick, Entry
<1>5. \A s \in Slots : table[s].id # None => table'[s].age = Older(table[s].age, MaxAge)
  BY <1>1 DEF Tick, Free, Entry
<1>6. \A p \in Pages :
        /\ report'[p].said = report[p].said
        /\ report[p].said = "nothing" => report'[p].age = report[p].age
        /\ report[p].said = "open" => report'[p].age = Older(report[p].age, MaxAge)
        /\ report[p].said \notin {"nothing", "open"} => report'[p].age = Older(report[p].age, CLOSE_GRACE)
  BY <1>2 DEF Tick
<1>7. report' \in [Pages -> [said : {"nothing", "open", "closed", "evicted"}, age : 0 .. MaxAge]]
  BY <1>2 DEF Tick, Older
<1>8. /\ deadline \in {NoDeadline} \cup 0 .. STALE_GRACE
      /\ deadline' = IF deadline > 0 THEN deadline - 1 ELSE deadline
      /\ deadline' \in {NoDeadline} \cup 0 .. STALE_GRACE
      /\ deadline' # NoDeadline => deadline # NoDeadline /\ deadline \in Nat
  BY DEF Tick, Inv, TypeOK, NoDeadline
<1>9. OneSlot'
  BY <1>4 DEF Inv, OneSlot
<1>10. Known'
  BY <1>1, <1>2, <1>4, <1>5, <1>6 DEF Inv, Known, Older, Entry
<1>11. EmptyWhenClosing'
  BY <1>4, <1>8 DEF Inv, EmptyWhenClosing, Active
<1>12. SilentEnough'
  <2> SUFFICES ASSUME deadline' # NoDeadline, NEW p \in Pages
               PROVE  /\ report'[p].said # "nothing" => report'[p].age + deadline' >= CLOSE_GRACE
                      /\ report'[p].said = "open" => report'[p].age + deadline' > STALE + CLOSE_GRACE
    BY DEF SilentEnough
  <2>1. /\ report[p].said # "nothing" => report[p].age + deadline >= CLOSE_GRACE
        /\ report[p].said = "open" => report[p].age + deadline > STALE + CLOSE_GRACE
        /\ report[p].age \in Nat /\ report[p].age <= MaxAge /\ deadline \in Nat
    BY <1>2, <1>8 DEF Inv, SilentEnough
  <2> QED
    BY <1>6, <1>8, <2>1 DEF Older
<1>13. TypeOK'
  BY <1>3, <1>7, <1>8 DEF Tick, Inv, TypeOK, Entry
<1> QED
  BY <1>9, <1>10, <1>11, <1>12, <1>13 DEF Inv, Tick

\* The invariant holds in every reachable state.
LEMMA Invariance == Spec => []Inv
<1>1. Inv /\ [Next]_vars => Inv'
  <2> SUFFICES ASSUME Inv, [Next]_vars PROVE Inv'
    OBVIOUS
  <2>1. ASSUME NEW p \in Pages, PageStep(p) PROVE Inv'
    BY <2>1, PageStepInv
  <2>2. CASE Handle
    BY <2>2, HandleInv
  <2>3. CASE Lose
    <3>1. requests' \subseteq Request /\ IsFiniteSet(requests') /\ Cardinality(requests') <= MaxInFlight
      BY <2>3, EndRemoves DEF Lose, Inv, TypeOK
    <3>2. TypeOK'
      BY <2>3, <3>1 DEF Lose, Inv, TypeOK
    <3> QED
      BY <2>3, <3>1, <3>2, PageKeeps DEF Lose
  <2>4. CASE Look
    BY <2>4, LookInv
  <2>5. CASE Stop
    <3>1. TypeOK' /\ IsFiniteSet(requests')
      BY <2>5 DEF Stop, Inv, TypeOK
    <3> QED
      BY <2>5, <3>1, PageKeeps DEF Stop
  <2>6. CASE Tick
    BY <2>6, TickInv
  <2>7. CASE UNCHANGED vars
    <3>1. TypeOK' /\ IsFiniteSet(requests')
      BY <2>7 DEF vars, Inv, TypeOK
    <3> QED
      BY <2>7, <3>1, PageKeeps DEF vars
  <2> QED
    BY <2>1, <2>2, <2>3, <2>4, <2>5, <2>6, <2>7 DEF Next
<1> QED
  BY <1>1, InitInv, PTL DEF Spec

\* However reports overtake each other and whichever client a full table gives up, a
\* document has one slot of g->app_clients at most, so that its close takes it out for
\* good: for any number of documents, slots and requests under way.
THEOREM OneSlotEachHolds == Spec => []OneSlotEach
<1>1. Inv => OneSlotEach
  BY DEF Inv, OneSlot, OneSlotEach
<1> QED
  BY <1>1, Invariance, PTL

\* app_lifecycle_watchdog decides to close only when every document it ever heard of has
\* said nothing for the close grace, and one that has not closed for the stale limit more.
THEOREM NoEarlyCloseHolds == Spec => NoEarlyClose
<1> DEFINE A == Decides => \A p \in Pages :
                  /\ report[p].said # "nothing" => report[p].age >= CLOSE_GRACE
                  /\ report[p].said = "open" => report[p].age > STALE + CLOSE_GRACE
<1>1. Inv /\ [Next]_vars => [A]_vars
  <2> SUFFICES ASSUME Inv, Next, Decides, NEW p \in Pages
               PROVE  /\ report[p].said # "nothing" => report[p].age >= CLOSE_GRACE
                      /\ report[p].said = "open" => report[p].age > STALE + CLOSE_GRACE
    OBVIOUS
  <2>1. Look
    BY DEF Next, PageStep, Decides, OpenPage, Heartbeat, ChangeVisibility, ClosePage, KillPage,
           Handle, Lose, Stop, Tick
  <2>2. deadline = 0
    BY <2>1, Limits DEF Look, Decides, Expiry
  <2>3. report[p].age \in Nat
    BY Limits DEF Inv, TypeOK
  <2> QED
    BY <2>2, <2>3, Limits DEF Inv, SilentEnough, NoDeadline
<1> QED
  BY <1>1, Invariance, PTL DEF Spec, NoEarlyClose
=============================================================================
