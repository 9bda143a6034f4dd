------------------------------ MODULE EventSync ------------------------------
(***************************************************************************)
(* The event manager and the node caches it keeps honest                   *)
(* (proton-drive-rs/src/event_manager.rs; client.rs: enumerate_events,     *)
(* invalidate_caches_for_event, and the readers get_node, build_node_ctx   *)
(* and folder_node_key that fill the caches).                              *)
(*                                                                         *)
(* The server is a log of events; entry i names the node it changed, or    *)
(* Hidden when this client is not shown it.  The version of a node is the  *)
(* index of its last entry, so an event id, a cursor and a version are all *)
(* positions in the log.  Readers fetch a node and later put what they     *)
(* fetched into a cache: "key" (DriveCache::folder_keys, in memory) or     *)
(* "entity" (DriveEntityCache, which outlives the process).  The manager   *)
(* pages through the log from its cursor, applies each event to the caches *)
(* and broadcasts it, then saves the cursor.                               *)
(***************************************************************************)
EXTENDS Integers, Sequences, FiniteSetsExt

CONSTANTS
    Node, Hidden,
    Reader,        \* concurrent fetches that will fill a cache
    PageSize,      \* events the server puts on a page
    MaxEvents,     \* bound: length of the log
    MaxFailures,   \* bound: failed requests, store and cache operations
    MaxCrashes,    \* bound: process restarts
    LoadMayFail    \* whether CursorStore::load may fail

ASSUME PageAssumption == PageSize \in Nat \ {0} /\ Hidden \notin Node

None == -1
Cache == {"key", "entity"}

VARIABLES
    log, floor,    \* server: the events, and how many of them it no longer serves
    stored,        \* the cursor in the CursorStore, None before the first save
    pc, cursor,    \* the manager: where it stands and its cursor
    page,          \* enumerate_events: its paging cursor
    batch, at,     \* the events it collected, and the one being applied
    cached,        \* cached[k][n]: the version cache k holds of n, or None
    held,          \* held[r]: what reader r fetched and has not put yet
    raced,         \* history: readers whose entry was invalidated after their fetch
    excused,       \* history: entries that may be stale, by cause (see below)
    applied,       \* history: the newest position broadcast to subscribers
    failures, crashes

server == <<log, floor>>
caches == <<cached, held, raced, excused>>
budget == <<failures, crashes>>
vars == <<log, floor, stored, pc, cursor, page, batch, at, cached, held, raced,
          excused, applied, failures, crashes>>

Nothing == [cache |-> "none", node |-> Hidden, version |-> None]

InitWith(saved) ==
    /\ log = <<>> /\ floor = 0
    /\ stored = saved
    /\ pc = "start" /\ cursor = None /\ page = None
    /\ batch = <<>> /\ at = 1
    /\ cached = [k \in Cache |-> [n \in Node |-> None]]
    /\ held = [r \in Reader |-> Nothing]
    /\ raced = {} /\ excused = {}
    /\ applied = 0 /\ failures = 0 /\ crashes = 0

\* A first-ever run, and one that finds the cursor of an earlier run.
Init == InitWith(None)
InitResumed == InitWith(0)

HeadId == Len(log)

\* The version of n in the log up to position i.
LastTouch(n, i) == Max({0} \cup {j \in 1 .. i : log[j] = n})

MayFail == failures < MaxFailures /\ failures' = failures + 1 /\ UNCHANGED crashes

-----------------------------------------------------------------------------
(* The server and the readers.                                             *)

\* Another client changes a node.
Change(e) ==
    /\ Len(log) < MaxEvents
    /\ log' = Append(log, e)
    /\ UNCHANGED <<floor, stored, pc, cursor, page, batch, at, caches, applied, budget>>

\* The server drops its oldest events: a cursor below floor gets a Refresh page.
Truncate ==
    /\ floor < HeadId
    /\ floor' = HeadId
    /\ UNCHANGED <<log, stored, pc, cursor, page, batch, at, caches, applied, budget>>

\* load_node or enumerate_nodes ("entity"), folder_node_key ("key"): the link
\* details arrive.
Fetch(r, k, n) ==
    /\ held[r] = Nothing
    /\ k = "key" => cached["key"][n] = None
    /\ held' = [held EXCEPT ![r] = [cache |-> k, node |-> n, version |-> LastTouch(n, HeadId)]]
    /\ raced' = raced \ {r}
    /\ UNCHANGED <<server, stored, pc, cursor, page, batch, at, cached, excused, applied, budget>>

\* The tail of build_node_ctx (set_node) and of folder_node_key (put): what was
\* fetched goes into the cache, whatever happened since.
Put(r) ==
    /\ held[r] # Nothing
    /\ LET k == held[r].cache
           n == held[r].node
       IN  /\ cached' = [cached EXCEPT ![k][n] = held[r].version]
           /\ excused' = IF r \in raced THEN excused \cup {<<k, n>>}
                                        ELSE excused \ {<<k, n>>}
    /\ held' = [held EXCEPT ![r] = Nothing]
    /\ raced' = raced \ {r}
    /\ UNCHANGED <<server, stored, pc, cursor, page, batch, at, applied, budget>>

\* An LRU drops an entry.
Evict(k, n) ==
    /\ cached[k][n] # None
    /\ cached' = [cached EXCEPT ![k][n] = None]
    /\ excused' = excused \ {<<k, n>>}
    /\ UNCHANGED <<server, stored, pc, cursor, page, batch, at, held, raced, applied, budget>>

\* Forget the entries of the nodes ns in cache k; readers that fetched one of
\* them before are not told.
Forget(k, ns) ==
    /\ cached' = [cached EXCEPT ![k] = [n \in Node |-> IF n \in ns THEN None ELSE @[n]]]
    /\ raced' = raced \cup {r \in Reader : held[r].cache = k /\ held[r].node \in ns}
    /\ excused' = excused \ ({k} \X ns)
    /\ UNCHANGED held

-----------------------------------------------------------------------------
(* resolve_start_cursor.                                                   *)

\* A persisted cursor resumes without a network call.
Resume ==
    /\ pc = "start" /\ stored # None
    /\ cursor' = stored
    /\ pc' = "sleep"
    /\ UNCHANGED <<server, stored, page, batch, at, caches, applied, budget>>

\* No cursor yet, or CursorStore::load failed: seed from the head.
MustSeed ==
    /\ pc = "start"
    /\ \/ stored = None /\ UNCHANGED budget
       \/ LoadMayFail /\ MayFail
    /\ pc' = "seed"
    /\ UNCHANGED <<server, stored, cursor, page, batch, at, caches, applied>>

\* enumerate_events(None): the head becomes the cursor and is saved.  What
\* changed before it is never announced.
Seed ==
    /\ pc = "seed"
    /\ cursor' = HeadId
    /\ \/ stored' = HeadId /\ UNCHANGED budget
       \/ MayFail /\ UNCHANGED stored
    /\ pc' = "sleep"
    /\ applied' = HeadId
    /\ excused' = Cache \X Node
    /\ raced' = {r \in Reader : held[r] # Nothing}
    /\ UNCHANGED <<server, page, batch, at, cached, held>>

\* The seed request fails and is retried after a delay.
SeedFails ==
    /\ pc = "seed" /\ MayFail
    /\ UNCHANGED <<server, stored, pc, cursor, page, batch, at, caches, applied>>

-----------------------------------------------------------------------------
(* run and enumerate_events.                                               *)

\* The interval is over: start paging from the cursor.
Poll ==
    /\ pc = "sleep"
    /\ pc' = "page" /\ page' = cursor /\ batch' = <<>> /\ at' = 1
    /\ UNCHANGED <<server, stored, cursor, caches, applied, budget>>

\* Positions in the order of the log.
InOrder(ids) ==
    CHOOSE s \in Bijection(1 .. Cardinality(ids), ids) :
        \A x, y \in 1 .. Cardinality(ids) : x < y => s[x] < s[y]

\* The end of the page after position i, and the events on it.
PageEnd(i) == Min({i + PageSize, HeadId})
PageEvents(i) ==
    LET visible == InOrder({j \in i + 1 .. PageEnd(i) : log[j] # Hidden})
    IN  [x \in DOMAIN visible |->
            [kind |-> "node", id |-> visible[x], node |-> log[visible[x]]]]

Marker(kind, id) == [kind |-> kind, id |-> id, node |-> Hidden]

\* enumerate_events is done: an empty batch goes back to sleep.
Collected(events) ==
    /\ batch' = events
    /\ pc' = IF events = <<>> THEN "sleep" ELSE "apply"
    /\ UNCHANGED page

\* One GET of a page.
Page ==
    /\ pc = "page"
    /\ LET events == PageEvents(page)
           end == PageEnd(page)
       IN  IF page < floor
           THEN Collected(Append(batch, Marker("lost", HeadId)))
           ELSE IF events = <<>>
           THEN Collected(IF end # page THEN Append(batch, Marker("advance", end)) ELSE batch)
           ELSE IF end = HeadId
           THEN Collected(batch \o events)
           ELSE batch' = batch \o events /\ page' = end /\ UNCHANGED pc
    /\ UNCHANGED <<server, stored, cursor, at, caches, applied, budget>>

\* Mutant of PageFails: the next poll goes on after the pages already read.
PageFailsMidway ==
    /\ pc = "page" /\ MayFail
    /\ pc' = "sleep"
    /\ cursor' = page
    /\ UNCHANGED <<server, stored, page, batch, at, caches, applied>>

\* A page fails: everything collected is dropped and the poll is repeated.
PageFails ==
    /\ pc = "page" /\ MayFail
    /\ pc' = "sleep"
    /\ UNCHANGED <<server, stored, cursor, page, batch, at, caches, applied>>

\* Mutant of Affected: a lost continuity invalidates nothing.
AffectedByNamedOnly(e) == IF e.kind = "node" THEN {e.node} ELSE {}

\* The nodes whose entries an event invalidates.
Affected(e) ==
    IF e.kind = "node" THEN {e.node} ELSE IF e.kind = "lost" THEN Node ELSE {}

\* invalidate_caches_for_event, first part: the folder keys.
ApplyKeys ==
    /\ pc = "apply"
    /\ Forget("key", Affected(batch[at]))
    /\ pc' = "entity"
    /\ UNCHANGED <<server, stored, cursor, page, batch, at, applied, budget>>

\* Second part: the entity cache.
ApplyEntities ==
    /\ pc = "entity"
    /\ Forget("entity", Affected(batch[at]))
    /\ pc' = "send"
    /\ UNCHANGED <<server, stored, cursor, page, batch, at, applied, budget>>

\* The cache repository fails; run logs it and goes on with the event.
ApplyFails ==
    /\ pc = "entity" /\ MayFail /\ Affected(batch[at]) # {}
    /\ excused' = excused \cup ({"entity"} \X Affected(batch[at]))
    /\ raced' = raced \cup {r \in Reader : held[r].cache = "entity"
                                            /\ held[r].node \in Affected(batch[at])}
    /\ pc' = "send"
    /\ UNCHANGED <<server, stored, cursor, page, batch, at, cached, held, applied>>

\* The event is broadcast; the next one follows, or the cursor is saved.
Send ==
    /\ pc = "send"
    /\ applied' = Max({applied, batch[at].id})
    /\ at' = at + 1
    /\ pc' = IF at = Len(batch) THEN "save" ELSE "apply"
    /\ UNCHANGED <<server, stored, cursor, page, batch, caches, budget>>

\* The id of the last event becomes the cursor and is saved; a failed save is
\* logged and the loop goes on.
Save ==
    /\ pc = "save"
    /\ cursor' = batch[Len(batch)].id
    /\ \/ stored' = batch[Len(batch)].id /\ UNCHANGED budget
       \/ MayFail /\ UNCHANGED stored
    /\ pc' = "sleep" /\ batch' = <<>> /\ at' = 1
    /\ UNCHANGED <<server, page, caches, applied>>

\* The process stops and starts again: memory is gone, the stores are not.
Crash ==
    /\ crashes < MaxCrashes /\ crashes' = crashes + 1
    /\ pc' = "start" /\ cursor' = None /\ page' = None /\ batch' = <<>> /\ at' = 1
    /\ cached' = [cached EXCEPT !["key"] = [n \in Node |-> None]]
    /\ held' = [r \in Reader |-> Nothing]
    /\ raced' = {}
    /\ excused' = excused \ ({"key"} \X Node)
    /\ UNCHANGED <<server, stored, applied, failures>>

Manager ==
    \/ Resume \/ MustSeed \/ Seed \/ Poll \/ Page
    \/ ApplyKeys \/ ApplyEntities \/ Send \/ Save

Next ==
    \/ \E e \in Node \cup {Hidden} : Change(e)
    \/ Truncate
    \/ \E r \in Reader, k \in Cache, n \in Node : Fetch(r, k, n)
    \/ \E r \in Reader : Put(r)
    \/ \E k \in Cache, n \in Node : Evict(k, n)
    \/ Manager \/ SeedFails \/ PageFails \/ ApplyFails \/ Crash

Spec == Init /\ [][Next]_vars

\* The manager's task is polled and, failures being finite, its requests succeed
\* in the end.
Fairness == WF_vars(Manager)

ResumedSpec == InitResumed /\ [][Next]_vars
FairSpec == (Init \/ InitResumed) /\ [][Next]_vars /\ Fairness

-----------------------------------------------------------------------------
(* Properties.                                                             *)

Stale(k, n) == cached[k][n] # None /\ cached[k][n] < LastTouch(n, applied)

\* A subscriber that was told of a change finds an older version in a cache
\* only for one of three reasons: a fetch was under way when the entry was
\* invalidated, the cache repository failed, or the manager had to seed.
StaleHasCause ==
    \A k \in Cache, n \in Node : Stale(k, n) => <<k, n>> \in excused

\* Subscribers are shown every visible event in order, across failed polls,
\* failed saves and restarts; a jump is announced as ContinuityLost or happens
\* when the manager seeds.
NoEventSkipped ==
    [][applied' > applied =>
          \/ pc = "seed"
          \/ batch[at].kind = "lost"
          \/ \A j \in (applied + 1) .. (applied' - 1) : log[j] = Hidden]_vars

\* A cached version that is behind the server is eventually dropped, replaced
\* or known to have slipped through for one of the three reasons.
CachesConverge ==
    \A k \in Cache, n \in Node :
        (cached[k][n] # None /\ cached[k][n] < LastTouch(n, HeadId))
            ~> \/ cached[k][n] = None
               \/ cached[k][n] = LastTouch(n, HeadId)
               \/ <<k, n>> \in excused

\* What the comment on get_node says: a hit is as fresh as the last event poll.
HitFreshAsLastPoll == \A n \in Node : ~Stale("entity", n)
======================================================================
