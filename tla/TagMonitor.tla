------------------------------ MODULE TagMonitor ------------------------------
(***************************************************************************)
(* The web server's TagMonitor and the threads around it (web/server.py):  *)
(* the watcher that learns of arrivals and removals from PC/SC, the        *)
(* handler threads that write to the tag and then refresh the snapshot,    *)
(* and the handlers that stream the snapshot to the browsers.              *)
(*                                                                         *)
(* io_lock serialises connections to the card; the snapshot and its        *)
(* version have a lock of their own, held for one assignment or one copy   *)
(* at a time, so _publish, snapshot and wait_for_change are one step each. *)
(* What a tag holds is the number of times it was written.                 *)
(***************************************************************************)
EXTENDS Naturals, FiniteSets

CONSTANTS
    Tags,       \* the tags that can be laid on the reader
    Posts,      \* the write requests, each a handler thread
    Streams,    \* the subscribed browsers, each a handler thread
    Watcher,    \* the tag-monitor thread
    NoTag,      \* nothing lies on the reader
    MaxEvents   \* bound on the times the reader or the tag is moved

Threads == Posts \cup {Watcher}
Writes  == 0 .. Cardinality(Posts)

(* The owner of a lock that is free. *)
NoOne == "no one"

ASSUME MonitorAssumption ==
    /\ Watcher \notin Posts
    /\ NoOne \notin Threads
    /\ NoTag \notin Tags
    /\ MaxEvents \in Nat
    /\ IsFiniteSet(Posts)

VARIABLES
    plugged,    \* the reader is there
    field,      \* the tag on the reader, or NoTag
    events,     \* PC/SC's count of insertions and removals
    text,       \* what each tag holds
    io,         \* the owner of io_lock, or NoOne
    mode,       \* _loop: "watch", or "poll" once the watch has failed
    pc,         \* where each thread is
    known,      \* _watch's states: the status last reported to it
    present,    \* _watch's present: "unknown", "yes" or "no"
    link,       \* each thread's card connection: the tag, and when it was made
    seen,       \* what each thread's _read_once has made of the tag
    state,      \* the published snapshot
    version,    \* _version
    shown,      \* what each browser was last sent
    since       \* the version each stream handler has sent

world   == <<plugged, field, events, text>>
board   == <<state, version>>
watch   == <<mode, known, present>>
clients == <<shown, since>>
vars    == <<world, io, pc, watch, link, seen, board, clients>>

(* Snapshots, by what tells them apart: a tag that was read; a tag whose    *)
(* read failed; an empty reader; no reader; a watch or a poll that failed;  *)
(* and the one before the first.                                            *)
Shown(t, w) == [kind |-> "tag", tag |-> t, writes |-> w]
Other(kind) == [kind |-> kind, tag |-> NoTag, writes |-> 0]
Snapshots   == [kind : {"tag"}, tag : Tags, writes : Writes]
               \cup {Other(k) : k \in {"unreadable", "empty", "no reader", "failed", "start"}}

Statuses == [events : Nat, tag : BOOLEAN]
Unaware  == [events |-> MaxEvents + 1, tag |-> FALSE]
Status   == [events |-> events, tag |-> field # NoTag]

Links  == [tag : Tags \cup {NoTag}, events : Nat]
NoLink == [tag |-> NoTag, events |-> 0]

(* Connecting reaches the tag on the reader; with no tag it raises.         *)
Contact == IF field = NoTag THEN NoLink ELSE [tag |-> field, events |-> events]

(* The tag has not left the reader since thread p connected to it.          *)
Linked(p) == plugged /\ link[p].events = events

Points == {"resolve", "status", "removed",                  \* _watch
           "poll", "report",                                \* _poll_loop
           "lock", "list", "connect", "read", "publish",    \* _read_once and callers
           "idle", "perform", "open", "write", "written",   \* perform
           "answered", "refused", "dropped"}                \* do_POST

TypeOK ==
    /\ plugged \in BOOLEAN
    /\ field \in Tags \cup {NoTag}
    /\ events \in 0..MaxEvents
    /\ text \in [Tags -> Writes]
    /\ io \in Threads \cup {NoOne}
    /\ mode \in {"watch", "poll"}
    /\ pc \in [Threads -> Points]
    /\ known \in Statuses
    /\ present \in {"unknown", "yes", "no"}
    /\ link \in [Threads -> Links]
    /\ seen \in [Threads -> Snapshots]
    /\ state \in Snapshots
    /\ version \in Nat
    /\ shown \in [Streams -> Snapshots]
    /\ since \in [Streams -> Nat]

Init ==
    /\ plugged \in BOOLEAN
    /\ field \in Tags \cup {NoTag}
    /\ events = 0
    /\ text = [t \in Tags |-> 0]
    /\ io = NoOne
    /\ mode = "watch"
    /\ pc = [p \in Threads |-> IF p = Watcher THEN "resolve" ELSE "idle"]
    /\ known = Unaware
    /\ present = "unknown"
    /\ link = [p \in Threads |-> NoLink]
    /\ seen = [p \in Threads |-> Other("start")]
    /\ state = Other("start")
    /\ version = 0
    /\ shown = [c \in Streams |-> Other("start")]
    /\ since = [c \in Streams |-> 0]

Goto(p, point) == pc' = [pc EXCEPT ![p] = point]

(* Mutant: a snapshot of the same kind is not a new version.                *)
PublishKind(s) ==
    /\ state' = s
    /\ version' = IF s.kind = state.kind THEN version ELSE version + 1

(* _publish: an unchanged snapshot is not a new version.                    *)
Publish(s) ==
    /\ state' = s
    /\ version' = IF s = state THEN version ELSE version + 1

-----------------------------------------------------------------------------
(* People move the tags and the reader.  Every move is an event to PC/SC.   *)
Move == events < MaxEvents /\ events' = events + 1

Lay(t) ==
    /\ Move
    /\ field = NoTag
    /\ field' = t
    /\ UNCHANGED <<plugged, text, io, pc, watch, link, seen, board, clients>>

Lift ==
    /\ Move
    /\ field # NoTag
    /\ field' = NoTag
    /\ UNCHANGED <<plugged, text, io, pc, watch, link, seen, board, clients>>

Replug ==
    /\ Move
    /\ plugged' = ~plugged
    /\ UNCHANGED <<field, text, io, pc, watch, link, seen, board, clients>>

-----------------------------------------------------------------------------
(* _watch: find the reader, or say there is none and try again.             *)
Resolve ==
    /\ pc[Watcher] = "resolve"
    /\ plugged
    /\ known' = Unaware
    /\ present' = "unknown"
    /\ Goto(Watcher, "status")
    /\ UNCHANGED <<world, io, mode, link, seen, board, clients>>

NoReaderYet ==
    /\ pc[Watcher] = "resolve"
    /\ ~plugged
    /\ Publish(Other("no reader"))
    /\ UNCHANGED <<world, io, pc, watch, link, seen, clients>>

(* SCardGetStatusChange returns when the status is not the one it is given. *)
(* Only a change of presence is acted on.                                   *)
StatusChange ==
    /\ pc[Watcher] = "status"
    /\ plugged
    /\ known # Status
    /\ known' = Status
    /\ LET now == IF Status.tag THEN "yes" ELSE "no" IN
          /\ present' = now
          /\ Goto(Watcher, CASE now = present -> "status"
                             [] now = "no"    -> "removed"
                             [] OTHER         -> "lock")
    /\ UNCHANGED <<world, io, mode, link, seen, board, clients>>

ReaderLost ==
    /\ pc[Watcher] = "status"
    /\ ~plugged
    /\ Goto(Watcher, "resolve")
    /\ UNCHANGED <<world, io, watch, link, seen, board, clients>>

(* The removal is published without io_lock.                                *)
PublishRemoval ==
    /\ pc[Watcher] = "removed"
    /\ Publish(Other("empty"))
    /\ Goto(Watcher, "status")
    /\ UNCHANGED <<world, io, watch, link, seen, clients>>

-----------------------------------------------------------------------------
(* _read_once, under io_lock: by the watcher when a tag has arrived, by the *)
(* poll loop, and by the refresh after a write.                             *)
Lock(p) ==
    /\ pc[p] \in {"lock", "poll", "written"}
    /\ io = NoOne
    /\ io' = p
    /\ Goto(p, "list")
    /\ UNCHANGED <<world, watch, link, seen, board, clients>>

ListReaders(p) ==
    /\ pc[p] = "list"
    /\ seen' = [seen EXCEPT ![p] = Other("no reader")]
    /\ Goto(p, IF plugged THEN "connect" ELSE "publish")
    /\ UNCHANGED <<world, io, watch, link, board, clients>>

Connect(p) ==
    /\ pc[p] = "connect"
    /\ plugged
    /\ link' = [link EXCEPT ![p] = Contact]
    /\ seen' = [seen EXCEPT ![p] = Other("empty")]
    /\ Goto(p, IF field = NoTag THEN "publish" ELSE "read")
    /\ UNCHANGED <<world, io, watch, board, clients>>

(* Mutant: the error leaves io_lock taken.                                  *)
ReaderVanishedAndKept(p) ==
    /\ pc[p] = "connect"
    /\ ~plugged
    /\ seen' = [seen EXCEPT ![p] = Other("failed")]
    /\ mode' = IF p = Watcher THEN "poll" ELSE mode
    /\ Goto(p, IF p = Watcher THEN "report" ELSE "answered")
    /\ UNCHANGED <<world, io, known, present, link, board, clients>>

(* The reader vanished after it was listed: NfcReader raises ReaderError,   *)
(* outside _read_once's try.  do_POST passes over it; the watch is given up *)
(* for the poll loop, and the poll loop says so and goes on.                *)
ReaderVanished(p) ==
    /\ pc[p] = "connect"
    /\ ~plugged
    /\ io' = NoOne
    /\ seen' = [seen EXCEPT ![p] = Other("failed")]
    /\ mode' = IF p = Watcher THEN "poll" ELSE mode
    /\ Goto(p, IF p = Watcher THEN "report" ELSE "answered")
    /\ UNCHANGED <<world, known, present, link, board, clients>>

(* Mutant: io_lock is released between the read and its publication.        *)
ReadAndUnlock(p) ==
    /\ pc[p] = "read"
    /\ seen' = [seen EXCEPT ![p] = IF Linked(p) THEN Shown(link[p].tag, text[link[p].tag])
                                                ELSE Other("unreadable")]
    /\ link' = [link EXCEPT ![p] = NoLink]
    /\ io' = NoOne
    /\ Goto(p, "publish")
    /\ UNCHANGED <<world, watch, board, clients>>

Read(p) ==
    /\ pc[p] = "read"
    /\ seen' = [seen EXCEPT ![p] = IF Linked(p) THEN Shown(link[p].tag, text[link[p].tag])
                                                ELSE Other("unreadable")]
    /\ link' = [link EXCEPT ![p] = NoLink]
    /\ Goto(p, "publish")
    /\ UNCHANGED <<world, io, watch, board, clients>>

(* The watch and the refresh publish before they release io_lock ...        *)
PublishRead(p) ==
    /\ pc[p] = "publish"
    /\ p = Watcher => mode = "watch"
    /\ Publish(seen[p])
    /\ seen' = [seen EXCEPT ![p] = Other("start")]
    /\ io' = NoOne
    /\ Goto(p, IF p = Watcher THEN "status" ELSE "answered")
    /\ UNCHANGED <<world, watch, link, clients>>

(* ... the poll loop afterwards, and then it sleeps.                        *)
PollRelease ==
    /\ pc[Watcher] = "publish"
    /\ mode = "poll"
    /\ io' = NoOne
    /\ Goto(Watcher, "report")
    /\ UNCHANGED <<world, watch, link, seen, board, clients>>

(* Mutant: the poll loop publishes changes of presence only.                *)
PollPublishPresence ==
    /\ pc[Watcher] = "report"
    /\ IF seen[Watcher].kind = state.kind THEN UNCHANGED board ELSE Publish(seen[Watcher])
    /\ seen' = [seen EXCEPT ![Watcher] = Other("start")]
    /\ Goto(Watcher, "poll")
    /\ UNCHANGED <<world, io, watch, link, clients>>

PollPublish ==
    /\ pc[Watcher] = "report"
    /\ Publish(seen[Watcher])
    /\ seen' = [seen EXCEPT ![Watcher] = Other("start")]
    /\ Goto(Watcher, "poll")
    /\ UNCHANGED <<world, io, watch, link, clients>>

-----------------------------------------------------------------------------
(* do_POST: perform, under io_lock, and a refresh when it went well.        *)
Request(p) ==
    /\ pc[p] = "idle"
    /\ Goto(p, "perform")
    /\ UNCHANGED <<world, io, watch, link, seen, board, clients>>

(* Mutant: the write does not wait for io_lock.                             *)
LockPerformNever(p) ==
    /\ pc[p] = "perform"
    /\ Goto(p, "open")
    /\ UNCHANGED <<world, io, watch, link, seen, board, clients>>

LockPerform(p) ==
    /\ pc[p] = "perform"
    /\ io = NoOne
    /\ io' = p
    /\ Goto(p, "open")
    /\ UNCHANGED <<world, watch, link, seen, board, clients>>

(* No reader: NfcReader raises out of perform, and the request is dropped.  *)
Open(p) ==
    /\ pc[p] = "open"
    /\ IF plugged /\ field # NoTag
       THEN Goto(p, "write") /\ link' = [link EXCEPT ![p] = Contact] /\ UNCHANGED io
       ELSE Goto(p, IF plugged THEN "refused" ELSE "dropped") /\ io' = NoOne /\ UNCHANGED link
    /\ UNCHANGED <<world, watch, seen, board, clients>>

(* Mutant: a write that failed is tried again by itself.                    *)
WriteTwice(p) ==
    /\ pc[p] = "write"
    /\ text' = [text EXCEPT ![link[p].tag] = @ + 2]
    /\ Goto(p, "refused")
    /\ link' = [link EXCEPT ![p] = NoLink]
    /\ io' = NoOne
    /\ UNCHANGED <<plugged, field, events, watch, seen, board, clients>>

(* The write: verified, or failed with or without a trace on the tag.       *)
Write(p) ==
    /\ pc[p] = "write"
    /\ \E wrote, ok \in BOOLEAN :
          /\ ok => wrote /\ Linked(p)
          /\ text' = IF wrote THEN [text EXCEPT ![link[p].tag] = @ + 1] ELSE text
          /\ Goto(p, IF ok THEN "written" ELSE "refused")
    /\ link' = [link EXCEPT ![p] = NoLink]
    /\ io' = NoOne
    /\ UNCHANGED <<plugged, field, events, watch, seen, board, clients>>

-----------------------------------------------------------------------------
(* _stream_events: the snapshot is sent again whenever its version moves.   *)
Send(c) ==
    /\ since[c] # version
    /\ since' = [since EXCEPT ![c] = version]
    /\ shown' = [shown EXCEPT ![c] = state]
    /\ UNCHANGED <<world, io, pc, watch, link, seen, board>>

People      == Lift \/ Replug \/ \E t \in Tags : Lay(t)
WatcherStep == Resolve \/ NoReaderYet \/ StatusChange \/ ReaderLost \/ PublishRemoval
               \/ PollRelease \/ PollPublish
ReadStep(p) == Lock(p) \/ ListReaders(p) \/ Connect(p) \/ ReaderVanished(p)
               \/ Read(p) \/ PublishRead(p)
PostStep(p) == LockPerform(p) \/ Open(p) \/ Write(p)

Next == \/ People
        \/ WatcherStep
        \/ \E p \in Threads : ReadStep(p)
        \/ \E p \in Posts : Request(p) \/ PostStep(p)
        \/ \E c \in Streams : Send(c)

(* The threads run; the poll loop sleeps without io_lock, so a request that *)
(* waits for it gets it.                                                    *)
Fairness ==
    /\ WF_vars(WatcherStep)
    /\ \A p \in Threads : WF_vars(ReadStep(p)) /\ SF_vars(Lock(p))
    /\ \A p \in Posts : WF_vars(PostStep(p)) /\ SF_vars(LockPerform(p))
    /\ \A c \in Streams : WF_vars(Send(c))

Spec == Init /\ [][Next]_vars /\ Fairness

-----------------------------------------------------------------------------
(* A card connection is exclusive: no two threads have one at a time        *)
(* (server.py:66-72, WEBUI.md:50-52).                                       *)
ExclusiveConnection ==
    \A p, q \in Threads :
        pc[p] \in {"read", "write"} /\ pc[q] \in {"read", "write"} => p = q

(* As long as the watch works, the page never goes back from what a tag     *)
(* holds to what it held before: a read is published before the lock it was *)
(* made under is released (server.py:255-257, 352-355).                     *)
NeverGoesBack ==
    [][mode = "watch" /\ state.kind = "tag" /\ state'.kind = "tag" /\ state'.tag = state.tag
          => state'.writes >= state.writes]_vars

(* A browser that has been sent the current version has been sent the       *)
(* current snapshot, so what it misses it will be sent (server.py:87-102,   *)
(* 516-537).                                                                *)
SentIsCurrent == \A c \in Streams : since[c] = version => shown[c] = state

(* Every request that arrives ends: the two locks never block each other    *)
(* (server.py:541-561).                                                     *)
EveryRequestEnds ==
    \A p \in Posts : pc[p] = "perform" ~> pc[p] \in {"answered", "refused", "dropped"}

(* Once tags and reader come to rest, every browser ends with the snapshot. *)
BrowsersCatchUp == <>[](\A c \in Streams : shown[c] = state)

(* What the page should show.                                               *)
Truth == IF ~plugged THEN Other("no reader")
         ELSE IF field = NoTag THEN Other("empty")
         ELSE Shown(field, text[field])

(* In the fallback, every snapshot, however stale, is corrected by the next *)
(* poll (server.py:261-270).                                                *)
PollSettles == <>(mode = "poll") => <>[](state = Truth)

(* server.py:7-8 says that "the page reacts the moment a tag lands on the   *)
(* reader": when all has come to rest, a tag the page shows is the one that *)
(* is there.                                                                *)
ShownTagIsThere == <>[](state.kind = "tag" => state.tag = field)
===============================================================================
