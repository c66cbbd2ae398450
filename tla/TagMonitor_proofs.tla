-------------------------- MODULE TagMonitor_proofs --------------------------
(***************************************************************************)
(* What is proved of the web server's threads for every set of tags, write *)
(* requests and browsers, however often tags and reader are moved.         *)
(***************************************************************************)
EXTENDS TagMonitor, FiniteSetTheorems, TLAPS

-----------------------------------------------------------------------------
(* The invariant, in parts.                                                *)

(* A thread between taking io_lock and releasing it.                       *)
Held == {"list", "connect", "read", "publish", "open", "write"}

Owned == \A p \in Threads : pc[p] \in Held => io = p

(* The points a request and the watcher can be at.                         *)
Places ==
    /\ \A p \in Posts : pc[p] \in {"idle", "perform", "open", "write", "written", "list",
                                   "connect", "read", "publish", "answered", "refused", "dropped"}
    /\ pc[Watcher] \in {"resolve", "status", "removed", "poll", "report", "lock", "list",
                        "connect", "read", "publish"}
    /\ pc[Watcher] = "report" => mode = "poll"

Reached == \A p \in Threads : pc[p] \in {"read", "write"} => link[p].tag \in Tags

(* The requests whose write is behind them: no tag was written more often  *)
(* than that.                                                              *)
Past    == {"written", "list", "connect", "read", "publish", "answered", "refused", "dropped"}
Done    == {p \in Posts : pc[p] \in Past}
Counted == \A t \in Tags : text[t] =< Cardinality(Done)

(* What was read is older than what the tag holds, and no older while      *)
(* io_lock has not been released since.                                    *)
NotAhead(s) == s.kind = "tag" => s.writes =< text[s.tag]
Behind ==
    /\ NotAhead(state)
    /\ \A p \in Threads : NotAhead(seen[p])
    /\ \A p \in Threads : pc[p] = "publish" /\ seen[p].kind = "tag"
                             => seen[p].writes = text[seen[p].tag]

Sent == \A c \in Streams : since[c] =< version /\ (since[c] = version => shown[c] = state)

MonitorInv == TypeOK /\ Owned /\ Places /\ Reached /\ Counted /\ Behind /\ Sent

-----------------------------------------------------------------------------
(* Types.                                                                  *)

LEMMA OtherType ==
    ASSUME NEW k \in {"unreadable", "empty", "no reader", "failed", "start"}
    PROVE  Other(k) \in Snapshots /\ Other(k).kind = k /\ Other(k).kind # "tag"
BY DEF Other, Snapshots

LEMMA ShownType ==
    ASSUME NEW t \in Tags, NEW w \in Writes
    PROVE  /\ Shown(t, w) \in Snapshots
           /\ Shown(t, w).kind = "tag" /\ Shown(t, w).tag = t /\ Shown(t, w).writes = w
BY DEF Shown, Snapshots

LEMMA SnapshotType ==
    ASSUME NEW s \in Snapshots, s.kind = "tag"
    PROVE  s.tag \in Tags /\ s.writes \in Writes
<1>1. CASE s \in [kind : {"tag"}, tag : Tags, writes : Writes]
    BY <1>1
<1>2. ASSUME NEW k \in {"unreadable", "empty", "no reader", "failed", "start"}, s = Other(k)
      PROVE  FALSE
    BY <1>2, OtherType
<1>3. QED
    BY <1>1, <1>2 DEF Snapshots

LEMMA StatusType ==
    ASSUME events \in Nat
    PROVE  Status \in Statuses
<1>1. PICK b \in BOOLEAN : b = (field # NoTag)
    OBVIOUS
<1>2. Status = [events |-> events, tag |-> b]
    BY <1>1 DEF Status
<1>3. QED
    BY <1>2 DEF Statuses

LEMMA UnawareType == Unaware \in Statuses
<1>1. PICK b \in BOOLEAN : b = FALSE
    OBVIOUS
<1>2. Unaware = [events |-> MaxEvents + 1, tag |-> b]
    BY <1>1 DEF Unaware
<1>3. QED
    BY <1>2, MonitorAssumption DEF Statuses

LEMMA ContactType ==
    ASSUME TypeOK
    PROVE  Contact \in Links /\ NoLink \in Links
BY MonitorAssumption DEF TypeOK, Contact, NoLink, Links

LEMMA WritesType == Cardinality(Posts) \in Nat /\ 0 \in Writes
BY FS_CardinalityType, MonitorAssumption DEF Writes

LEMMA DoneFinite ==
    /\ Cardinality(Done) \in Nat
    /\ Cardinality(Done) =< Cardinality(Posts)
    /\ IsFiniteSet(Done)
<1>1. Done \in SUBSET Posts
    BY DEF Done
<1>2. QED
    BY <1>1, FS_Subset, FS_CardinalityType, MonitorAssumption

LEMMA MonitorInit == Init => MonitorInv
<1> SUFFICES ASSUME Init
             PROVE  MonitorInv
    OBVIOUS
<1>1. Other("start") \in Snapshots /\ Other("start").kind # "tag"
    BY OtherType
<1>2. NoLink \in Links /\ Unaware \in Statuses
    BY UnawareType DEF NoLink, Links
<1>3. text \in [Tags -> Writes]
    BY WritesType DEF Init
<1>4. TypeOK
    BY <1>1, <1>2, <1>3, MonitorAssumption DEF Init, TypeOK, Points, Threads
<1>5. Owned /\ Places /\ Reached
    BY MonitorAssumption DEF Init, Owned, Places, Reached, Held, Threads
<1>6. Counted
    BY DoneFinite DEF Init, Counted
<1>7. Behind /\ Sent
    BY <1>1 DEF Init, Behind, NotAhead, Sent
<1>8. QED
    BY <1>4, <1>5, <1>6, <1>7 DEF MonitorInv

-----------------------------------------------------------------------------
(* The steps, by what they leave alone.                                    *)

LEMMA PublishType ==
    ASSUME TypeOK, NEW s \in Snapshots, Publish(s)
    PROVE  state' \in Snapshots /\ version' \in Nat
BY DEF Publish, TypeOK

LEMMA ThreadFacts ==
    /\ Watcher \in Threads
    /\ \A p \in Posts : p \in Threads /\ p # Watcher
    /\ \A p \in Threads : p # NoOne /\ p \in Posts \cup {Watcher}
BY MonitorAssumption DEF Threads

(* People move tags and reader; no thread is involved.                     *)
LEMMA PeopleStep ==
    ASSUME TypeOK, People
    PROVE  /\ UNCHANGED <<text, io, pc, mode, known, present, link, seen, state, version, shown, since>>
           /\ plugged' \in BOOLEAN /\ field' \in Tags \cup {NoTag} /\ events' \in 0..MaxEvents
<1>1. CASE Lift
    BY <1>1, MonitorAssumption DEF Lift, Move, TypeOK, watch, board, clients
<1>2. CASE Replug
    BY <1>2, MonitorAssumption DEF Replug, Move, TypeOK, watch, board, clients
<1>3. ASSUME NEW t \in Tags, Lay(t)
      PROVE  /\ UNCHANGED <<text, io, pc, mode, known, present, link, seen, state, version, shown, since>>
             /\ plugged' \in BOOLEAN /\ field' \in Tags \cup {NoTag} /\ events' \in 0..MaxEvents
    BY <1>3, MonitorAssumption DEF Lay, Move, TypeOK, watch, board, clients
<1>4. QED
    BY <1>1, <1>2, <1>3 DEF People

(* The watcher's own steps touch neither tags nor connections.             *)
LEMMA WatcherTypes ==
    ASSUME TypeOK, Places, WatcherStep
    PROVE  /\ UNCHANGED <<plugged, field, events, text, link, shown, since>>
           /\ io' \in {io, NoOne}
           /\ mode' = mode
           /\ pc' \in [Threads -> Points]
           /\ known' \in Statuses /\ present' \in {"unknown", "yes", "no"}
           /\ seen' \in [Threads -> Snapshots]
           /\ state' \in Snapshots /\ version' \in Nat
<1> DEFINE Goal == /\ UNCHANGED <<plugged, field, events, text, link, shown, since>>
                   /\ io' \in {io, NoOne}
                   /\ mode' = mode
                   /\ pc' \in [Threads -> Points]
                   /\ known' \in Statuses /\ present' \in {"unknown", "yes", "no"}
                   /\ seen' \in [Threads -> Snapshots]
                   /\ state' \in Snapshots /\ version' \in Nat
<1>1. CASE Resolve
    BY <1>1, UnawareType, ThreadFacts
    DEF Resolve, TypeOK, Goto, Points, world, board, clients
<1>2. CASE NoReaderYet
  <2>1. state' \in Snapshots /\ version' \in Nat
      BY <1>2, OtherType, PublishType DEF NoReaderYet
  <2>2. QED
      BY <1>2, <2>1 DEF NoReaderYet, TypeOK, world, watch, clients
<1>3. CASE StatusChange
  <2>1. Status \in Statuses
      BY StatusType DEF TypeOK
  <2>2. PICK now \in {"yes", "no"} :
            /\ present' = now
            /\ Goto(Watcher, CASE now = present -> "status"
                               [] now = "no"    -> "removed"
                               [] OTHER         -> "lock")
      BY <1>3 DEF StatusChange
  <2>3. pc' \in [Threads -> Points]
      BY <2>2, ThreadFacts DEF Goto, TypeOK, Points
  <2>4. QED
      BY <1>3, <2>1, <2>2, <2>3 DEF StatusChange, TypeOK, world, board, clients
<1>4. CASE ReaderLost
    BY <1>4, ThreadFacts DEF ReaderLost, TypeOK, Goto, Points, world, watch, board, clients
<1>5. CASE PublishRemoval
  <2>1. state' \in Snapshots /\ version' \in Nat
      BY <1>5, OtherType, PublishType DEF PublishRemoval
  <2>2. QED
      BY <1>5, <2>1, ThreadFacts DEF PublishRemoval, TypeOK, Goto, Points, world, watch, clients
<1>6. CASE PollRelease
    BY <1>6, ThreadFacts DEF PollRelease, TypeOK, Goto, Points, world, watch, board, clients
<1>7. CASE PollPublish
  <2>1. state' \in Snapshots /\ version' \in Nat
      BY <1>7, ThreadFacts, PublishType DEF PollPublish, TypeOK
  <2>2. seen' \in [Threads -> Snapshots]
      BY <1>7, OtherType DEF PollPublish, TypeOK
  <2>3. QED
      BY <1>7, <2>1, <2>2, ThreadFacts DEF PollPublish, TypeOK, Goto, Points, world, watch, clients
<1>8. QED
    BY <1>1, <1>2, <1>3, <1>4, <1>5, <1>6, <1>7 DEF WatcherStep

(* Neither do the steps of _read_once, which makes its connection and      *)
(* gives it up.                                                            *)
LEMMA ReadTypes ==
    ASSUME TypeOK, Reached, NEW p \in Threads, ReadStep(p)
    PROVE  /\ UNCHANGED <<plugged, field, events, text, known, present, shown, since>>
           /\ io' \in {io, NoOne, p}
           /\ mode' \in {"watch", "poll"}
           /\ pc' \in [Threads -> Points]
           /\ link' \in [Threads -> Links]
           /\ seen' \in [Threads -> Snapshots]
           /\ state' \in Snapshots /\ version' \in Nat
<1>1. CASE Lock(p)
    BY <1>1 DEF Lock, TypeOK, Goto, Points, world, watch, board, clients
<1>2. CASE ListReaders(p)
    BY <1>2, OtherType DEF ListReaders, TypeOK, Goto, Points, world, watch, board, clients
<1>3. CASE Connect(p)
    BY <1>3, OtherType, ContactType DEF Connect, TypeOK, Goto, Points, world, watch, board, clients
<1>4. CASE ReaderVanished(p)
    BY <1>4, OtherType DEF ReaderVanished, TypeOK, Goto, Points, world, board, clients
<1>5. CASE Read(p)
  <2>1. Shown(link[p].tag, text[link[p].tag]) \in Snapshots
      BY <1>5, ShownType DEF Read, Reached, TypeOK
  <2>2. seen' \in [Threads -> Snapshots]
      BY <1>5, <2>1, OtherType DEF Read, TypeOK
  <2>3. link' \in [Threads -> Links]
      BY <1>5, ContactType DEF Read, TypeOK
  <2>4. QED
      BY <1>5, <2>2, <2>3 DEF Read, TypeOK, Goto, Points, world, watch, board, clients
<1>6. CASE PublishRead(p)
  <2>1. state' \in Snapshots /\ version' \in Nat
      BY <1>6, PublishType DEF PublishRead, TypeOK
  <2>2. seen' \in [Threads -> Snapshots]
      BY <1>6, OtherType DEF PublishRead, TypeOK
  <2>3. QED
      BY <1>6, <2>1, <2>2 DEF PublishRead, TypeOK, Goto, Points, world, watch, clients
<1>7. QED
    BY <1>1, <1>2, <1>3, <1>4, <1>5, <1>6 DEF ReadStep

(* A request writes to the tag it connected to, once, and is then past it. *)
LEMMA PostFrame ==
    ASSUME TypeOK, NEW p \in Posts, Request(p) \/ PostStep(p)
    PROVE  /\ UNCHANGED <<plugged, field, events, mode, known, present, seen, state, version,
                          shown, since>>
           /\ io' \in {io, NoOne, p}
           /\ pc' \in [Threads -> Points]
           /\ link' \in [Threads -> Links]
<1>1. p \in Threads
    BY ThreadFacts
<1>2. CASE Request(p)
    BY <1>1, <1>2 DEF Request, TypeOK, Goto, Points, world, watch, board, clients
<1>3. CASE LockPerform(p)
    BY <1>1, <1>3 DEF LockPerform, TypeOK, Goto, Points, world, watch, board, clients
<1>4. CASE Open(p)
    BY <1>1, <1>4, ContactType DEF Open, TypeOK, Goto, Points, world, watch, board, clients
<1>5. CASE Write(p)
  <2>1. link' \in [Threads -> Links]
      BY <1>1, <1>5, ContactType DEF Write, TypeOK
  <2>2. QED
      BY <1>1, <1>5, <2>1 DEF Write, TypeOK, Goto, Points, watch, board, clients
<1>6. QED
    BY <1>2, <1>3, <1>4, <1>5 DEF PostStep

(* A write is by a request that has not written yet, and adds at most one. *)
LEMMA WriteEffect ==
    ASSUME TypeOK, Reached, NEW p \in Posts, Write(p)
    PROVE  /\ pc[p] = "write" /\ pc'[p] \in {"written", "refused"}
           /\ \A q \in Threads \ {p} : pc'[q] = pc[q]
           /\ link[p].tag \in Tags
           /\ \/ text' = text
              \/ text' = [text EXCEPT ![link[p].tag] = @ + 1]
BY ThreadFacts DEF Write, Goto, TypeOK, Reached

(* Any other step leaves the tags alone.                                   *)
LEMMA TextStep ==
    ASSUME TypeOK, Places, Reached, [Next]_vars
    PROVE  text' = text \/ \E p \in Posts : Write(p)
<1>1. CASE People
    BY <1>1, PeopleStep
<1>2. CASE WatcherStep
    BY <1>2, WatcherTypes
<1>3. ASSUME NEW p \in Threads, ReadStep(p)
      PROVE  text' = text
    BY <1>3, ReadTypes
<1>4. ASSUME NEW p \in Posts, Request(p) \/ LockPerform(p) \/ Open(p)
      PROVE  text' = text
    BY <1>4 DEF Request, LockPerform, Open, world
<1>5. ASSUME NEW c \in Streams, Send(c)
      PROVE  text' = text
    BY <1>5 DEF Send, world
<1>6. CASE UNCHANGED vars
    BY <1>6 DEF vars, world
<1>7. QED
    BY <1>1, <1>2, <1>3, <1>4, <1>5, <1>6 DEF Next, PostStep

(* No step takes a request back to before its write.                       *)
LEMMA PastStays ==
    ASSUME TypeOK, Places, Reached, [Next]_vars, NEW p \in Posts, pc[p] \in Past
    PROVE  pc'[p] \in Past
<1>0. p \in Threads /\ p # Watcher
    BY ThreadFacts
<1>1. CASE People
    BY <1>1, PeopleStep
<1>2. CASE WatcherStep
    BY <1>0, <1>2 DEF WatcherStep, Resolve, NoReaderYet, StatusChange, ReaderLost, PublishRemoval,
                      PollRelease, PollPublish, Goto, TypeOK
<1>3. ASSUME NEW q \in Threads, ReadStep(q)
      PROVE  pc'[p] \in Past
  <2>1. CASE q # p
      BY <1>0, <1>3, <2>1 DEF ReadStep, Lock, ListReaders, Connect, ReaderVanished, Read,
                              PublishRead, Goto, TypeOK
  <2>2. CASE q = p
      BY <1>0, <1>3, <2>2 DEF ReadStep, Lock, ListReaders, Connect, ReaderVanished, Read,
                              PublishRead, Goto, TypeOK, Past
  <2>3. QED
      BY <2>1, <2>2
<1>4. ASSUME NEW q \in Posts, Request(q) \/ PostStep(q)
      PROVE  pc'[p] \in Past
  <2>1. q # p
      BY <1>4 DEF Request, PostStep, LockPerform, Open, Write, Past
  <2>2. QED
      BY <1>0, <1>4, <2>1 DEF Request, PostStep, LockPerform, Open, Write, Goto, TypeOK
<1>5. ASSUME NEW c \in Streams, Send(c)
      PROVE  pc' = pc
    BY <1>5 DEF Send
<1>6. CASE UNCHANGED vars
    BY <1>6 DEF vars
<1>7. QED
    BY <1>1, <1>2, <1>3, <1>4, <1>5, <1>6 DEF Next

LEMMA CountedNext ==
    ASSUME TypeOK, Places, Reached, Counted, [Next]_vars
    PROVE  Counted' /\ text' \in [Tags -> Writes]
<1>1. Done \subseteq Done'
    BY PastStays DEF Done
<1>2. /\ Done \in SUBSET Posts /\ Done' \in SUBSET Posts /\ IsFiniteSet(Posts)
    BY MonitorAssumption DEF Done
<1>3. IsFiniteSet(Done') /\ Cardinality(Done') \in Nat /\ Cardinality(Done') =< Cardinality(Posts)
    BY <1>2, FS_Subset, FS_CardinalityType
<1>4. IsFiniteSet(Done) /\ Cardinality(Done) \in Nat
    BY DoneFinite
<1>5. Cardinality(Done) =< Cardinality(Done')
    BY <1>1, <1>3, FS_Subset
<1>6. \A t \in Tags : text[t] \in Nat /\ text[t] =< Cardinality(Done)
    BY DEF Counted, TypeOK, Writes
<1>7. \A t \in Tags : text'[t] \in Nat /\ text'[t] =< Cardinality(Done')
  <2>1. CASE text' = text
      BY <1>3, <1>4, <1>5, <1>6, <2>1
  <2>2. ASSUME NEW p \in Posts, Write(p)
        PROVE  \A t \in Tags : text'[t] \in Nat /\ text'[t] =< Cardinality(Done')
    <3>1. p \notin Done /\ p \in Done'
        BY <2>2, WriteEffect DEF Done, Past
    <3>2. Done \cup {p} \in SUBSET Done'
        BY <1>1, <3>1
    <3>3. Cardinality(Done \cup {p}) = Cardinality(Done) + 1
        BY <1>4, <3>1, FS_AddElement
    <3>4. Cardinality(Done) + 1 =< Cardinality(Done')
        BY <1>3, <3>2, <3>3, FS_Subset
    <3>5. \A t \in Tags : text'[t] = text[t] \/ text'[t] = text[t] + 1
        BY <2>2, WriteEffect DEF TypeOK
    <3>6. QED
        BY <1>3, <1>4, <1>6, <3>4, <3>5
  <2>3. QED
      BY <2>1, <2>2, TextStep
<1>8. DOMAIN text' = Tags /\ text' = [t \in Tags |-> text'[t]]
    BY TextStep, WriteEffect DEF TypeOK
<1>9. \A t \in Tags : text'[t] \in Writes
    BY <1>3, <1>7, WritesType DEF Writes
<1>10. QED
    BY <1>7, <1>8, <1>9 DEF Counted

LEMMA SendFrame ==
    ASSUME TypeOK, NEW c \in Streams, Send(c)
    PROVE  /\ UNCHANGED <<plugged, field, events, text, io, mode, known, present, pc, link, seen,
                          state, version>>
           /\ shown' \in [Streams -> Snapshots] /\ since' \in [Streams -> Nat]
BY DEF Send, TypeOK, world, watch, board

LEMMA TypeNext ==
    ASSUME TypeOK, Places, Reached, Counted, [Next]_vars
    PROVE  TypeOK'
<1>t. text' \in [Tags -> Writes]
    BY CountedNext
<1>1. CASE People
    BY <1>t, <1>1, PeopleStep DEF TypeOK
<1>2. CASE WatcherStep
    BY <1>t, <1>2, WatcherTypes DEF TypeOK
<1>3. ASSUME NEW p \in Threads, ReadStep(p)
      PROVE  TypeOK'
    BY <1>t, <1>3, ReadTypes DEF TypeOK
<1>4. ASSUME NEW p \in Posts, Request(p) \/ PostStep(p)
      PROVE  TypeOK'
    BY <1>t, <1>4, PostFrame, ThreadFacts DEF TypeOK
<1>5. ASSUME NEW c \in Streams, Send(c)
      PROVE  TypeOK'
    BY <1>5, SendFrame DEF TypeOK
<1>6. CASE UNCHANGED vars
    BY <1>6 DEF vars, world, watch, board, clients, TypeOK
<1>7. QED
    BY <1>1, <1>2, <1>3, <1>4, <1>5, <1>6 DEF Next

-----------------------------------------------------------------------------
(* Control: whoever has taken io_lock goes on to release it, and nobody    *)
(* else is between taking and releasing it.                                *)

LEMMA PlacesNext ==
    ASSUME TypeOK, Places, [Next]_vars
    PROVE  Places'
<1>0. Watcher \in Threads /\ \A p \in Posts : p \in Threads /\ p # Watcher
    BY ThreadFacts
<1>1. CASE People
    BY <1>1, PeopleStep DEF Places
<1>2. CASE WatcherStep
  <2>1. \A p \in Posts : pc'[p] = pc[p]
      BY <1>0, <1>2 DEF WatcherStep, Resolve, NoReaderYet, StatusChange, ReaderLost,
                        PublishRemoval, PollRelease, PollPublish, Goto, TypeOK
  <2>2. /\ pc'[Watcher] \in {"resolve", "status", "removed", "poll", "report", "lock", "list",
                             "connect", "read", "publish"}
        /\ pc'[Watcher] = "report" => mode' = "poll"
      BY <1>0, <1>2 DEF WatcherStep, Resolve, NoReaderYet, StatusChange, ReaderLost,
                        PublishRemoval, PollRelease, PollPublish, Goto, TypeOK, Places, watch
  <2>3. QED
      BY <2>1, <2>2 DEF Places
<1>3. ASSUME NEW p \in Threads, ReadStep(p)
      PROVE  Places'
  <2>1. CASE p = Watcher
    <3>1. \A q \in Posts : pc'[q] = pc[q]
        BY <1>0, <1>3, <2>1 DEF ReadStep, Lock, ListReaders, Connect, ReaderVanished, Read,
                                PublishRead, Goto, TypeOK
    <3>2. /\ pc'[Watcher] \in {"status", "report", "list", "connect", "read", "publish"}
          /\ pc'[Watcher] = "report" => mode' = "poll"
        BY <1>0, <1>3, <2>1 DEF ReadStep, Lock, ListReaders, Connect, ReaderVanished, Read,
                                PublishRead, Goto, TypeOK
    <3>3. QED
        BY <3>1, <3>2 DEF Places
  <2>2. CASE p # Watcher
    <3>1. p \in Posts
        BY <2>2, ThreadFacts
    <3>2. /\ \A q \in Threads \ {p} : pc'[q] = pc[q]
          /\ pc'[p] \in {"list", "connect", "read", "publish", "answered"}
          /\ mode' = mode
        BY <1>3, <2>2 DEF ReadStep, Lock, ListReaders, Connect, ReaderVanished, Read,
                          PublishRead, Goto, TypeOK, watch
    <3>3. QED
        BY <1>0, <3>1, <3>2 DEF Places
  <2>3. QED
      BY <2>1, <2>2
<1>4. ASSUME NEW p \in Posts, Request(p) \/ PostStep(p)
      PROVE  Places'
  <2>1. /\ \A q \in Threads \ {p} : pc'[q] = pc[q]
        /\ pc'[p] \in {"perform", "open", "write", "written", "refused", "dropped"}
      BY <1>0, <1>4 DEF Request, PostStep, LockPerform, Open, Write, Goto, TypeOK
  <2>2. mode' = mode
      BY <1>4, PostFrame
  <2>3. QED
      BY <1>0, <2>1, <2>2 DEF Places
<1>5. ASSUME NEW c \in Streams, Send(c)
      PROVE  Places'
    BY <1>5, SendFrame DEF Places
<1>6. CASE UNCHANGED vars
    BY <1>6 DEF vars, watch, Places
<1>7. QED
    BY <1>1, <1>2, <1>3, <1>4, <1>5, <1>6 DEF Next

(* What a thread does with io_lock: it takes it when it is free, releases  *)
(* its own, or leaves it and does not start holding it.                    *)
LEMMA OwnedBy ==
    ASSUME TypeOK, Owned, NEW p \in Threads,
           \A q \in Threads \ {p} : pc'[q] = pc[q],
           \/ io = NoOne /\ io' = p
           \/ pc[p] \in Held /\ io' = NoOne /\ pc'[p] \notin Held
           \/ io' = io /\ (pc'[p] \in Held => pc[p] \in Held)
    PROVE  Owned'
BY ThreadFacts DEF Owned

LEMMA OwnedNext ==
    ASSUME TypeOK, Places, Owned, [Next]_vars
    PROVE  Owned'
<1>0. Watcher \in Threads /\ \A p \in Posts : p \in Threads /\ p # Watcher
    BY ThreadFacts
<1>1. CASE People
    BY <1>1, PeopleStep DEF Owned
<1>2. CASE WatcherStep
  <2>1. \A q \in Threads \ {Watcher} : pc'[q] = pc[q]
      BY <1>0, <1>2 DEF WatcherStep, Resolve, NoReaderYet, StatusChange, ReaderLost,
                        PublishRemoval, PollRelease, PollPublish, Goto, TypeOK
  <2>2. \/ pc[Watcher] \in Held /\ io' = NoOne /\ pc'[Watcher] \notin Held
        \/ io' = io /\ (pc'[Watcher] \in Held => pc[Watcher] \in Held)
      BY <1>0, <1>2 DEF WatcherStep, Resolve, NoReaderYet, StatusChange, ReaderLost,
                        PublishRemoval, PollRelease, PollPublish, Goto, TypeOK, Held
  <2>3. QED
      BY <1>0, <2>1, <2>2, OwnedBy
<1>3. ASSUME NEW p \in Threads, ReadStep(p)
      PROVE  Owned'
  <2>1. \A q \in Threads \ {p} : pc'[q] = pc[q]
      BY <1>3 DEF ReadStep, Lock, ListReaders, Connect, ReaderVanished, Read, PublishRead, Goto,
                  TypeOK
  <2>2. \/ io = NoOne /\ io' = p
        \/ pc[p] \in Held /\ io' = NoOne /\ pc'[p] \notin Held
        \/ io' = io /\ (pc'[p] \in Held => pc[p] \in Held)
      BY <1>3 DEF ReadStep, Lock, ListReaders, Connect, ReaderVanished, Read, PublishRead, Goto,
                  TypeOK, Held
  <2>3. QED
      BY <2>1, <2>2, OwnedBy
<1>4. ASSUME NEW p \in Posts, Request(p) \/ PostStep(p)
      PROVE  Owned'
  <2>1. \A q \in Threads \ {p} : pc'[q] = pc[q]
      BY <1>0, <1>4 DEF Request, PostStep, LockPerform, Open, Write, Goto, TypeOK
  <2>2. \/ io = NoOne /\ io' = p
        \/ pc[p] \in Held /\ io' = NoOne /\ pc'[p] \notin Held
        \/ io' = io /\ (pc'[p] \in Held => pc[p] \in Held)
      BY <1>0, <1>4 DEF Request, PostStep, LockPerform, Open, Write, Goto, TypeOK, Held
  <2>3. QED
      BY <1>0, <2>1, <2>2, OwnedBy
<1>5. ASSUME NEW c \in Streams, Send(c)
      PROVE  Owned'
    BY <1>5, SendFrame DEF Owned
<1>6. CASE UNCHANGED vars
    BY <1>6 DEF vars, Owned
<1>7. QED
    BY <1>1, <1>2, <1>3, <1>4, <1>5, <1>6 DEF Next

LEMMA ReachedNext ==
    ASSUME TypeOK, Reached, [Next]_vars
    PROVE  Reached'
<1>0. Watcher \in Threads /\ \A p \in Posts : p \in Threads /\ p # Watcher
    BY ThreadFacts
<1>1. CASE People
    BY <1>1, PeopleStep DEF Reached
<1>2. CASE WatcherStep
    BY <1>0, <1>2 DEF WatcherStep, Resolve, NoReaderYet, StatusChange, ReaderLost,
                      PublishRemoval, PollRelease, PollPublish, Goto, TypeOK, Reached
<1>3. ASSUME NEW p \in Threads, ReadStep(p)
      PROVE  Reached'
  <2>1. CASE Connect(p)
    <3>1. field # NoTag => Contact.tag \in Tags
        BY DEF Contact, TypeOK
    <3>2. pc'[p] \in {"read", "write"} => link'[p].tag \in Tags
        BY <2>1, <3>1 DEF Connect, Goto, TypeOK
    <3>3. \A q \in Threads \ {p} : pc'[q] = pc[q] /\ link'[q] = link[q]
        BY <2>1 DEF Connect, Goto, TypeOK
    <3>4. QED
        BY <3>2, <3>3 DEF Reached
  <2>2. CASE ~Connect(p)
    <3>1. pc'[p] \notin {"read", "write"}
        BY <1>3, <2>2 DEF ReadStep, Lock, ListReaders, ReaderVanished, Read, PublishRead, Goto,
                          TypeOK
    <3>2. \A q \in Threads \ {p} : pc'[q] = pc[q] /\ link'[q] = link[q]
        BY <1>3, <2>2 DEF ReadStep, Lock, ListReaders, ReaderVanished, Read, PublishRead, Goto,
                          TypeOK
    <3>3. QED
        BY <3>1, <3>2 DEF Reached
  <2>3. QED
      BY <2>1, <2>2
<1>4. ASSUME NEW p \in Posts, Request(p) \/ PostStep(p)
      PROVE  Reached'
  <2>1. field # NoTag => Contact.tag \in Tags
      BY DEF Contact, TypeOK
  <2>2. pc'[p] \in {"read", "write"} => link'[p].tag \in Tags
      BY <1>0, <1>4, <2>1 DEF Request, PostStep, LockPerform, Open, Write, Goto, TypeOK
  <2>3. \A q \in Threads \ {p} : pc'[q] = pc[q] /\ link'[q] = link[q]
      BY <1>0, <1>4 DEF Request, PostStep, LockPerform, Open, Write, Goto, TypeOK
  <2>4. QED
      BY <2>2, <2>3 DEF Reached
<1>5. ASSUME NEW c \in Streams, Send(c)
      PROVE  Reached'
    BY <1>5, SendFrame DEF Reached
<1>6. CASE UNCHANGED vars
    BY <1>6 DEF vars, Reached
<1>7. QED
    BY <1>1, <1>2, <1>3, <1>4, <1>5, <1>6 DEF Next

-----------------------------------------------------------------------------
(* Reads and publications.                                                 *)

(* What a step makes of a thread's seen: it stays, it is not a tag, or it  *)
(* is what the tag of its connection holds at that moment.                 *)
LEMMA SeenStep ==
    ASSUME TypeOK, Places, Reached, [Next]_vars, NEW q \in Threads
    PROVE  \/ seen'[q] = seen[q] /\ (pc'[q] = "publish" => pc[q] = "publish")
           \/ seen'[q].kind # "tag"
           \/ /\ link[q].tag \in Tags /\ text' = text
              /\ seen'[q] = Shown(link[q].tag, text[link[q].tag])
<1>0. /\ Watcher \in Threads /\ \A p \in Posts : p \in Threads /\ p # Watcher
      /\ \A k \in {"unreadable", "empty", "no reader", "failed", "start"} : Other(k).kind # "tag"
    BY ThreadFacts, OtherType
<1>1. CASE People
    BY <1>1, PeopleStep
<1>2. CASE WatcherStep
  <2>1. CASE PollPublish
    <3>1. seen' = [seen EXCEPT ![Watcher] = Other("start")] /\ pc' = [pc EXCEPT ![Watcher] = "poll"]
        BY <2>1 DEF PollPublish, Goto
    <3>2. CASE q = Watcher
        BY <1>0, <3>1, <3>2 DEF TypeOK
    <3>3. CASE q # Watcher
        BY <3>1, <3>3 DEF TypeOK
    <3>4. QED
        BY <3>2, <3>3
  <2>2. CASE ~PollPublish
    <3>1. seen' = seen
        BY <1>2, <2>2 DEF WatcherStep, Resolve, NoReaderYet, StatusChange, ReaderLost,
                          PublishRemoval, PollRelease
    <3>2. pc'[q] = "publish" => pc[q] = "publish"
        BY <1>0, <1>2, <2>2 DEF WatcherStep, Resolve, NoReaderYet, StatusChange, ReaderLost,
                                PublishRemoval, PollRelease, Goto, TypeOK
    <3>3. QED
        BY <3>1, <3>2
  <2>3. QED
      BY <2>1, <2>2
<1>3. ASSUME NEW p \in Threads, ReadStep(p)
      PROVE  \/ seen'[q] = seen[q] /\ (pc'[q] = "publish" => pc[q] = "publish")
             \/ seen'[q].kind # "tag"
             \/ /\ link[q].tag \in Tags /\ text' = text
                /\ seen'[q] = Shown(link[q].tag, text[link[q].tag])
  <2>1. CASE q # p
    <3>1. seen'[q] = seen[q] /\ pc'[q] = pc[q]
        BY <1>3, <2>1 DEF ReadStep, Lock, ListReaders, Connect, ReaderVanished, Read, PublishRead,
                          Goto, TypeOK
    <3>2. QED
        BY <3>1
  <2>2. CASE q = p /\ Read(p)
    <3>1. link[q].tag \in Tags /\ text' = text
        BY <2>2 DEF Read, Reached, world
    <3>2. seen'[q] = Shown(link[q].tag, text[link[q].tag]) \/ seen'[q] = Other("unreadable")
        BY <2>2 DEF Read, TypeOK
    <3>3. QED
        BY <1>0, <3>1, <3>2
  <2>3. CASE q = p /\ Lock(p)
      BY <2>3 DEF Lock, Goto, TypeOK
  <2>4. CASE q = p /\ (ListReaders(p) \/ Connect(p) \/ ReaderVanished(p) \/ PublishRead(p))
    <3>1. \E k \in {"empty", "no reader", "failed", "start"} : seen'[q] = Other(k)
        BY <2>4 DEF ListReaders, Connect, ReaderVanished, PublishRead, TypeOK
    <3>2. QED
        BY <1>0, <3>1
  <2>5. QED
      BY <1>3, <2>1, <2>2, <2>3, <2>4 DEF ReadStep
<1>4. ASSUME NEW p \in Posts, Request(p) \/ PostStep(p)
      PROVE  seen'[q] = seen[q] /\ (pc'[q] = "publish" => pc[q] = "publish")
    BY <1>0, <1>4 DEF Request, PostStep, LockPerform, Open, Write, Goto, TypeOK
<1>5. ASSUME NEW c \in Streams, Send(c)
      PROVE  seen' = seen /\ pc' = pc
    BY <1>5, SendFrame
<1>6. CASE UNCHANGED vars
    BY <1>6 DEF vars
<1>7. QED
    BY <1>1, <1>2, <1>3, <1>4, <1>5, <1>6 DEF Next

(* What a step publishes: nothing, no tag, or what a thread has seen; and  *)
(* while the watch works that thread has not yet released io_lock.         *)
LEMMA StateStep ==
    ASSUME TypeOK, Places, [Next]_vars
    PROVE  \/ state' = state
           \/ state'.kind # "tag"
           \/ \E p \in Threads : /\ state' = seen[p] /\ text' = text
                                 /\ mode = "watch" => pc[p] = "publish"
<1>0. /\ Watcher \in Threads /\ \A p \in Posts : p \in Threads /\ p # Watcher
      /\ \A k \in {"unreadable", "empty", "no reader", "failed", "start"} : Other(k).kind # "tag"
    BY ThreadFacts, OtherType
<1>1. CASE People
    BY <1>1, PeopleStep
<1>2. CASE NoReaderYet \/ PublishRemoval
    BY <1>0, <1>2 DEF NoReaderYet, PublishRemoval, Publish
<1>3. CASE PollPublish
    BY <1>0, <1>3 DEF PollPublish, Publish, Places, world
<1>4. CASE Resolve \/ StatusChange \/ ReaderLost \/ PollRelease
    BY <1>4 DEF Resolve, StatusChange, ReaderLost, PollRelease, board
<1>5. ASSUME NEW p \in Threads, PublishRead(p)
      PROVE  state' = seen[p] /\ text' = text /\ pc[p] = "publish"
    BY <1>5 DEF PublishRead, Publish, world
<1>6. ASSUME NEW p \in Threads,
             Lock(p) \/ ListReaders(p) \/ Connect(p) \/ ReaderVanished(p) \/ Read(p)
      PROVE  state' = state
    BY <1>6 DEF Lock, ListReaders, Connect, ReaderVanished, Read, board
<1>7. ASSUME NEW p \in Posts, Request(p) \/ PostStep(p)
      PROVE  state' = state
    BY <1>7, PostFrame
<1>8. ASSUME NEW c \in Streams, Send(c)
      PROVE  state' = state
    BY <1>8, SendFrame
<1>9. CASE UNCHANGED vars
    BY <1>9 DEF vars, board
<1>10. QED
    BY <1>1, <1>2, <1>3, <1>4, <1>5, <1>6, <1>7, <1>8, <1>9 DEF Next, WatcherStep, ReadStep

(* A tag is only ever written more often.                                  *)
LEMMA TextGrows ==
    ASSUME TypeOK, Places, Reached, [Next]_vars
    PROVE  \A t \in Tags : text[t] \in Nat /\ text'[t] \in Nat /\ text[t] =< text'[t]
<1>1. \A t \in Tags : text[t] \in Nat
    BY DEF TypeOK, Writes
<1>2. ASSUME NEW p \in Posts, Write(p)
      PROVE  \A t \in Tags : text'[t] = text[t] \/ text'[t] = text[t] + 1
    BY <1>2, WriteEffect DEF TypeOK
<1>3. QED
    BY <1>1, <1>2, TextStep

LEMMA NotAheadStays ==
    ASSUME TypeOK, Places, Reached, [Next]_vars, NEW s \in Snapshots, NotAhead(s)
    PROVE  s.kind = "tag" => s.writes =< text'[s.tag]
<1> SUFFICES ASSUME s.kind = "tag"
             PROVE  s.writes =< text'[s.tag]
    OBVIOUS
<1>1. s.tag \in Tags /\ s.writes \in Nat
    BY SnapshotType DEF Writes
<1>2. s.writes =< text[s.tag]
    BY DEF NotAhead
<1>3. text[s.tag] \in Nat /\ text'[s.tag] \in Nat /\ text[s.tag] =< text'[s.tag]
    BY <1>1, TextGrows
<1>4. \A i, j, k \in Nat : i =< j /\ j =< k => i =< k
    OBVIOUS
<1>5. QED
    BY <1>1, <1>2, <1>3, <1>4

(* Nothing is written while a thread that has read has not yet published.  *)
LEMMA WriteExcludesPublish ==
    ASSUME TypeOK, Owned, NEW p \in Posts, Write(p), NEW q \in Threads, pc[q] = "publish"
    PROVE  FALSE
<1>1. p \in Threads /\ pc[p] = "write"
    BY ThreadFacts DEF Write
<1>2. io = p /\ io = q
    BY <1>1 DEF Owned, Held
<1>3. QED
    BY <1>1, <1>2

LEMMA BehindNext ==
    ASSUME TypeOK, Places, Reached, Owned, Behind, TypeOK', [Next]_vars
    PROVE  Behind'
<1>0. state \in Snapshots /\ \A q \in Threads : seen[q] \in Snapshots
    BY DEF TypeOK
<1>1. NotAhead(state)'
  <2>1. CASE state' = state
      BY <1>0, <2>1, NotAheadStays DEF Behind, NotAhead
  <2>2. CASE state'.kind # "tag"
      BY <2>2 DEF NotAhead
  <2>3. CASE \E p \in Threads : state' = seen[p]
    <3>1. PICK p \in Threads : state' = seen[p]
        BY <2>3
    <3>2. QED
        BY <1>0, <3>1, NotAheadStays DEF Behind, NotAhead
  <2>4. state' = state \/ state'.kind # "tag" \/ \E p \in Threads : state' = seen[p]
      BY StateStep
  <2>5. QED
      BY <2>1, <2>2, <2>3, <2>4
<1>2. ASSUME NEW q \in Threads
      PROVE  /\ NotAhead(seen[q])'
             /\ (pc[q] = "publish" /\ seen[q].kind = "tag" => seen[q].writes = text[seen[q].tag])'
  <2>1. CASE seen'[q] = seen[q] /\ (pc'[q] = "publish" => pc[q] = "publish")
    <3>1. NotAhead(seen[q])'
        BY <1>0, <2>1, NotAheadStays DEF Behind, NotAhead
    <3>2. pc[q] = "publish" => text' = text
        BY TextStep, WriteExcludesPublish
    <3>3. QED
        BY <2>1, <3>1, <3>2 DEF Behind
  <2>2. CASE seen'[q].kind # "tag"
      BY <2>2 DEF NotAhead
  <2>3. CASE /\ link[q].tag \in Tags /\ text' = text
             /\ seen'[q] = Shown(link[q].tag, text[link[q].tag])
    <3>1. text[link[q].tag] \in Writes /\ text[link[q].tag] \in Nat
        BY <2>3 DEF TypeOK, Writes
    <3>2. /\ seen'[q].tag = link[q].tag
          /\ seen'[q].writes = text[link[q].tag]
        BY <2>3, <3>1, ShownType
    <3>3. seen'[q].writes = text'[seen'[q].tag] /\ seen'[q].writes \in Nat
        BY <2>3, <3>1, <3>2
    <3>4. QED
        BY <3>3 DEF NotAhead
  <2>4. QED
      BY <2>1, <2>2, <2>3, SeenStep
<1>3. QED
    BY <1>1, <1>2 DEF Behind

(* A snapshot and its version change together, and a handler sends both.   *)
LEMMA BoardStep ==
    ASSUME TypeOK, Places, [Next]_vars
    PROVE  UNCHANGED board \/ \E s \in Snapshots : Publish(s)
<1>0. Watcher \in Threads /\ \A p \in Threads : seen[p] \in Snapshots
    BY ThreadFacts DEF TypeOK
<1>1. CASE NoReaderYet \/ PublishRemoval \/ PollPublish
    BY <1>0, <1>1, OtherType DEF NoReaderYet, PublishRemoval, PollPublish
<1>2. CASE Resolve \/ StatusChange \/ ReaderLost \/ PollRelease
    BY <1>2 DEF Resolve, StatusChange, ReaderLost, PollRelease
<1>3. ASSUME NEW p \in Threads, ReadStep(p)
      PROVE  UNCHANGED board \/ \E s \in Snapshots : Publish(s)
    BY <1>0, <1>3 DEF ReadStep, Lock, ListReaders, Connect, ReaderVanished, Read, PublishRead
<1>4. ASSUME NEW p \in Posts, Request(p) \/ PostStep(p)
      PROVE  UNCHANGED board
    BY <1>4, PostFrame DEF board
<1>5. CASE People
    BY <1>5, PeopleStep DEF board
<1>6. ASSUME NEW c \in Streams, Send(c)
      PROVE  UNCHANGED board
    BY <1>6, SendFrame DEF board
<1>7. CASE UNCHANGED vars
    BY <1>7 DEF vars
<1>8. QED
    BY <1>1, <1>2, <1>3, <1>4, <1>5, <1>6, <1>7 DEF Next, WatcherStep

LEMMA ClientStep ==
    ASSUME TypeOK, Places, [Next]_vars
    PROVE  UNCHANGED clients \/ \E c \in Streams : Send(c)
<1>0. UNCHANGED <<shown, since>> <=> UNCHANGED clients
    BY DEF clients
<1>1. CASE WatcherStep
    BY <1>0, <1>1, WatcherTypes
<1>2. ASSUME NEW p \in Threads, ReadStep(p)
      PROVE  UNCHANGED clients
    BY <1>2 DEF ReadStep, Lock, ListReaders, Connect, ReaderVanished, Read, PublishRead
<1>3. ASSUME NEW p \in Posts, Request(p) \/ PostStep(p)
      PROVE  UNCHANGED clients
    BY <1>0, <1>3, PostFrame
<1>4. CASE People
    BY <1>0, <1>4, PeopleStep
<1>5. CASE UNCHANGED vars
    BY <1>5 DEF vars
<1>6. QED
    BY <1>1, <1>2, <1>3, <1>4, <1>5 DEF Next

LEMMA SentNext ==
    ASSUME TypeOK, Places, Sent, [Next]_vars
    PROVE  Sent'
<1>0. version \in Nat /\ since \in [Streams -> Nat]
    BY DEF TypeOK
<1>1. ASSUME NEW c \in Streams, Send(c)
      PROVE  Sent'
  <2>1. /\ since' = [since EXCEPT ![c] = version] /\ shown' = [shown EXCEPT ![c] = state]
        /\ version' = version /\ state' = state
      BY <1>1 DEF Send, board
  <2>2. since'[c] = version /\ shown'[c] = state
      BY <2>1 DEF TypeOK
  <2>3. \A d \in Streams \ {c} : since'[d] = since[d] /\ shown'[d] = shown[d]
      BY <2>1 DEF TypeOK
  <2>4. QED
      BY <1>0, <2>1, <2>2, <2>3 DEF Sent
<1>2. ASSUME NEW s \in Snapshots, Publish(s), UNCHANGED clients
      PROVE  Sent'
  <2>1. shown' = shown /\ since' = since
      BY <1>2 DEF clients
  <2>2. CASE s = state
      BY <1>2, <2>1, <2>2 DEF Publish, Sent
  <2>3. CASE s # state
    <3>1. version' = version + 1
        BY <1>2, <2>3 DEF Publish
    <3>2. \A c \in Streams : since[c] \in Nat /\ since[c] =< version
        BY <1>0 DEF Sent
    <3>3. \A c \in Streams : since[c] =< version + 1 /\ since[c] # version + 1
        BY <1>0, <3>2
    <3>4. QED
        BY <2>1, <3>1, <3>3 DEF Sent
  <2>4. QED
      BY <2>2, <2>3
<1>3. CASE UNCHANGED board /\ UNCHANGED clients
    BY <1>3 DEF board, clients, Sent
<1>4. QED
    BY <1>1, <1>2, <1>3, BoardStep, ClientStep

-----------------------------------------------------------------------------
LEMMA MonitorInvariant == Spec => []MonitorInv
<1>1. Init => MonitorInv
    BY MonitorInit
<1>2. MonitorInv /\ [Next]_vars => MonitorInv'
    BY TypeNext, OwnedNext, PlacesNext, ReachedNext, CountedNext, BehindNext, SentNext
    DEF MonitorInv
<1>3. QED
    BY <1>1, <1>2, PTL DEF Spec

(* The monitor's state stays within its types: in particular no tag is     *)
(* written more often than there are requests (server.py:66-102).          *)
THEOREM MonitorTypeCorrect == Spec => []TypeOK
<1>1. MonitorInv => TypeOK
    BY DEF MonitorInv
<1>2. QED
    BY <1>1, MonitorInvariant, PTL

(* A card connection is exclusive: no two threads have one at a time,      *)
(* whatever the watcher, the poll loop and the requests are doing          *)
(* (server.py:66-72).                                                      *)
THEOREM ExclusiveConnectionCorrect == Spec => []ExclusiveConnection
<1>1. Owned => ExclusiveConnection
    BY DEF Owned, ExclusiveConnection, Held
<1>2. MonitorInv => ExclusiveConnection
    BY <1>1 DEF MonitorInv
<1>3. QED
    BY <1>2, MonitorInvariant, PTL

(* A browser that has been sent the current version has been sent the      *)
(* current snapshot (server.py:87-102, 516-537).                           *)
THEOREM SentIsCurrentCorrect == Spec => []SentIsCurrent
<1>1. MonitorInv => SentIsCurrent
    BY DEF MonitorInv, Sent, SentIsCurrent
<1>2. QED
    BY <1>1, MonitorInvariant, PTL

(* As long as the watch works, the page never goes back from what a tag    *)
(* holds to what it held before (server.py:255-257, 352-355).              *)
THEOREM NeverGoesBackCorrect == Spec => NeverGoesBack
<1> DEFINE Forward == mode = "watch" /\ state.kind = "tag" /\ state'.kind = "tag"
                      /\ state'.tag = state.tag => state'.writes >= state.writes
<1>1. MonitorInv /\ [Next]_vars => [Forward]_vars
  <2> SUFFICES ASSUME MonitorInv, [Next]_vars, mode = "watch", state.kind = "tag",
                      state'.kind = "tag", state'.tag = state.tag
               PROVE  state'.writes >= state.writes
      OBVIOUS
  <2>1. state \in Snapshots /\ state.tag \in Tags /\ state.writes \in Nat
      BY SnapshotType DEF MonitorInv, TypeOK, Writes
  <2>2. CASE state' = state
      BY <2>1, <2>2
  <2>3. CASE \E p \in Threads : state' = seen[p] /\ pc[p] = "publish"
    <3>0. PICK p \in Threads : state' = seen[p] /\ pc[p] = "publish"
        BY <2>3
    <3>1. seen[p].writes = text[state.tag]
        BY <3>0 DEF MonitorInv, Behind
    <3>2. state.writes =< text[state.tag] /\ text[state.tag] \in Nat
        BY <2>1 DEF MonitorInv, Behind, NotAhead, TypeOK, Writes
    <3>3. QED
        BY <2>1, <3>0, <3>1, <3>2
  <2>4. state' = state \/ \E p \in Threads : state' = seen[p] /\ pc[p] = "publish"
    <3>1. TypeOK /\ Places
        BY DEF MonitorInv
    <3>2. QED
        BY <3>1, StateStep
  <2>5. QED
      BY <2>2, <2>3, <2>4
<1>2. QED
    BY <1>1, MonitorInvariant, PTL DEF Spec, NeverGoesBack
===============================================================================
