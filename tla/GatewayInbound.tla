--------------------------- MODULE GatewayInbound ---------------------------
(***************************************************************************)
(* What the gateway does with an incoming message                          *)
(* (gateway/whatsapp-gateway-impl.mjs): duplicate filter, album debounce,  *)
(* allowlist check of unresolved LIDs, media download and the broadcast to *)
(* the adapter, under messages of several messages.upsert events,          *)
(* debounce timers, socket replacements and session resets.                *)
(*                                                                         *)
(* Each upsert listener and each timer callback is a task.  A task runs    *)
(* alone until it awaits: at "route", "schedule", "handle" and "send" its  *)
(* code runs, at the other conditions it waits.                            *)
(***************************************************************************)
EXTENDS Naturals, Sequences, SequencesExt, FiniteSets

CONSTANTS
  Users,      \* senders; each has a phone number (pn) and a LID
  Listed,     \* those whose number is on the allowlist
  Mails,      \* what WhatsApp may have for this account: sequences of MailItems
  MaxMail,    \* bound on their length
  Debounce,   \* mediaAlbumDebounceMs
  MaxTasks,   \* bound on the handlers that are suspended at once
  MaxBatch,   \* bound on the messages of one upsert
  MaxRepeats, \* bound on repeated deliveries
  MaxEvents   \* bound on socket changes, policies and mappings from elsewhere

MailItems == [from : Users, group : BOOLEAN,
              media : BOOLEAN,       \* has a media payload to download
              album : BOOLEAN,       \* isAlbumCandidate
              at : Nat]              \* messageTimestamp, 0 if there is none

ASSUME InboundAssumption ==
  /\ Listed \subseteq Users /\ Mails \subseteq Seq(MailItems)
  /\ MaxMail \in Nat /\ \A m \in Mails : Len(m) <= MaxMail
  /\ \A m \in Mails : \A i \in DOMAIN m : m[i].album => m[i].media
  /\ Debounce \in Nat \ {0} /\ MaxTasks \in Nat /\ MaxBatch \in Nat /\ MaxRepeats \in Nat
  /\ MaxEvents \in Nat

Ids   == 1 .. MaxMail
Slots == 1 .. MaxTasks
Addrs == {"pn", "lid"}
VARIABLES
  gen,        \* socketGeneration
  open,       \* the socket of this generation is connected
  configured, \* the adapter has sent its policy
  mapped,     \* senders whose LID is mapped to their number
  seen,       \* seenIncomingMessages: message and the sender's canonical address then
  albums,     \* albumBuffers, each with its timer armed
  stray,      \* keys of timers whose buffer was overwritten
  tasks,      \* the handlers in progress
  mail,       \* the messages WhatsApp has, in its order
  next,       \* the next message it delivers
  sent,       \* history: broadcasts of each message
  settled,    \* history: messages broadcast, refused or dropped on purpose
  overwritten,\* history: pictures in a buffer that another one replaced
  routed,     \* history: messages and addresses routed since the last reset
  due,        \* history: copies of each message no known mapping made duplicates
  repeats, events \* history: counters

vars == <<gen, open, configured, mapped, seen, albums, stray, tasks, mail, next,
          sent, settled, overwritten, routed, due, repeats, events>>
cacheVars   == <<configured, open, mail, next, routed, due, repeats, events>>
historyVars == <<sent, settled, overwritten>>

\* then: what follows handleIncomingMessage for the head of the batch: the next message of the
\* upsert, handling the head itself, or putting it in a new buffer under the address key.
Idle == [gen |-> 0, batch |-> <<>>, pc |-> "idle", items |-> <<>>, then |-> "next", key |-> "pn"]
Thens == {"next", "handle", "buffer"}
Runs == {"route", "schedule", "handle", "send"}
Pcs  == {"idle", "refresh", "lookup", "media", "group"} \cup Runs

\* A copy of a message comes under one address; alt: its key names the number beside the LID.
Copies == {c \in [id : DOMAIN mail, addr : Addrs, alt : BOOLEAN] : c.alt => c.addr = "lid"}
Message(c)  == mail[c.id]
IdsOf(s)    == {c.id : c \in ToSet(s)}
\* RuntimeIdentityRegistry.aliases and canonical
Aliases(u, addr) == IF u \in mapped THEN Addrs ELSE {addr}
Canonical(u, addr) == IF u \in mapped THEN "pn" ELSE addr

\* Mutant: only the canonical key is looked up.
KnownCanonically(c) == <<c.id, Canonical(Message(c).from, c.addr)>> \in seen
\* rememberRuntimeScope: is the message known under any alias of its sender?
Known(c) == \E a \in Aliases(Message(c).from, c.addr) : <<c.id, a>> \in seen

\* Mutant: a picture without a timestamp clears that of the buffer.
BufferForgets(g, c, addr, items, last) ==
  [gen |-> g, from |-> Message(c).from, group |-> Message(c).group, addr |-> addr, items |-> items,
   last |-> Message(c).at]
\* A buffer that picture c was just added to; last is its lastTimestampMs before.
Buffer(g, c, addr, items, last) ==
  [gen |-> g, from |-> Message(c).from, group |-> Message(c).group, addr |-> addr, items |-> items,
   last |-> IF Message(c).at # 0 THEN Message(c).at ELSE last]
Key(b) == <<b.gen, b.from, b.group, b.addr>>
\* albumBufferKey: the canonical key first, then the aliases.
Pending(g, c) ==
  LET u == Message(c).from
      found == {b \in albums : /\ b.gen = g /\ b.from = u /\ b.group = Message(c).group
                               /\ b.addr \in Aliases(u, c.addr)}
      first == {b \in found : b.addr = Canonical(u, c.addr)}
  IN  IF first # {} THEN first ELSE found

Stale(t)  == t.gen # gen
Busy      == \E s \in Slots : tasks[s].pc \in Runs
Free      == {s \in Slots : tasks[s].pc = "idle"}
Now(s, pc) == tasks[s].pc = pc
Becomes(s, t) == tasks' = [tasks EXCEPT ![s] = t]
\* A new task takes the first free slot.
Starts(t) == \E s \in Free : (\A r \in Free : s <= r) /\ Becomes(s, t)
Goes(s, pc)   == Becomes(s, [tasks[s] EXCEPT !.pc = pc])
Handles(s, items, then, key) ==
  Becomes(s, [tasks[s] EXCEPT !.pc = "handle", !.items = items, !.then = then, !.key = key])
\* Mutant: the listener returns after one message.
OnwardReturns(t) == Idle
\* The listener goes on with the next message of its upsert, or returns.
Onward(t) == IF Len(t.batch) <= 1 THEN Idle
             ELSE [t EXCEPT !.batch = Tail(@), !.pc = "route", !.items = <<>>, !.then = "next"]
Settle(ids) == settled' = settled \cup ids

Init ==
  /\ gen = 1 /\ open = TRUE
  /\ configured \in BOOLEAN
  /\ mapped = {}
  /\ seen = {} /\ albums = {} /\ stray = {} /\ tasks = [s \in Slots |-> Idle] /\ mail \in Mails /\ next = 1
  /\ sent = [i \in Ids |-> 0] /\ settled = {} /\ overwritten = {} /\ routed = {}
  /\ due = [i \in Ids |-> 0] /\ repeats = 0 /\ events = 0

Event == events < MaxEvents /\ events' = events + 1
-----------------------------------------------------------------------------
(* messages.upsert: new messages in order, and one it repeats.             *)
Upsert(batch) ==
  /\ open /\ ~Busy
  /\ Starts([Idle EXCEPT !.gen = gen, !.batch = batch, !.pc = "route"])
  /\ UNCHANGED <<gen, open, configured, mapped, seen, albums, stray, historyVars,
                 mail, routed, due>>

Deliver(n, addr, alt) ==
  /\ next + n - 1 \in DOMAIN mail
  /\ Upsert([i \in 1 .. n |-> [id |-> next + i - 1, addr |-> addr, alt |-> alt]])
  /\ next' = next + n
  /\ UNCHANGED <<repeats, events>>

Redeliver(i, addr, alt) ==
  /\ i < next /\ repeats < MaxRepeats /\ repeats' = repeats + 1
  /\ Upsert(<<[id |-> i, addr |-> addr, alt |-> alt]>>)
  /\ UNCHANGED <<next, events>>

\* routeIncomingMessage, up to the album decision.
RouteStale(s) ==
  /\ Now(s, "route") /\ Stale(tasks[s])
  /\ Settle(IdsOf(tasks[s].batch))
  /\ Becomes(s, Idle)
  /\ UNCHANGED <<gen, mapped, seen, albums, stray, sent, overwritten, cacheVars>>

\* A key with both addresses teaches the mapping; the filter then looks at every alias.
Route(s) ==
  /\ Now(s, "route") /\ ~Stale(tasks[s])
  /\ LET c == Head(tasks[s].batch)
         u == Message(c).from
     IN IF c.alt
        THEN /\ mapped' = mapped \cup {u}
             /\ Becomes(s, [tasks[s] EXCEPT !.batch = <<[c EXCEPT !.alt = FALSE]>> \o Tail(@)])
             /\ UNCHANGED <<seen, routed, due>>
        ELSE /\ routed' = routed \cup {<<c.id, c.addr>>}
             /\ due' = IF \E a \in Aliases(u, c.addr) : <<c.id, a>> \in routed THEN due
                       ELSE [due EXCEPT ![c.id] = @ + 1]
             /\ IF Known(c)
                THEN Becomes(s, Onward(tasks[s])) /\ UNCHANGED seen
                ELSE /\ seen' = seen \cup {<<c.id, Canonical(u, c.addr)>>}
                     /\ Goes(s, "schedule")
             /\ UNCHANGED mapped
  /\ UNCHANGED <<gen, albums, stray, historyVars, configured, open, mail, next, repeats, events>>

\* Mutant: the first picture is taken off before the rest is handled.
FlushedRest(s, b, then) ==
  Handles(s, Tail(b.items), then, b.addr) /\ albums' = albums \ {b}
\* flushAlbumBuffer of a current generation
Flushed(s, b, then) == Handles(s, b.items, then, b.addr) /\ albums' = albums \ {b}

\* The timestamps of two pictures, when both have one, are too far apart.
Apart(x, y) == x > y + Debounce \/ y > x + Debounce
Gap(b, c) == b.last # 0 /\ Message(c).at # 0 /\ Apart(b.last, Message(c).at)

\* Another message flushes the pictures its sender has pending first; a picture joins them,
\* unless both have a timestamp and these are too far apart.
Schedule(s) ==
  /\ Now(s, "schedule")
  /\ LET c == Head(tasks[s].batch)
         pending == Pending(tasks[s].gen, c)
         addr    == Canonical(Message(c).from, c.addr)
     IN IF Message(c).album
        THEN \/ /\ pending = {}
                /\ albums' = albums \cup {Buffer(tasks[s].gen, c, addr, <<c>>, 0)}
                /\ Becomes(s, Onward(tasks[s]))
             \/ \E b \in pending :
                  \/ ~Gap(b, c) /\ albums' = (albums \ {b}) \cup {Buffer(b.gen, c, b.addr, Append(b.items, c), b.last)}
                     /\ Becomes(s, Onward(tasks[s]))
                  \/ Gap(b, c) /\ Flushed(s, b, "buffer")
        ELSE \/ pending = {} /\ Handles(s, <<c>>, "next", addr) /\ UNCHANGED albums
             \/ \E b \in pending : Flushed(s, b, "handle")
  /\ UNCHANGED <<gen, mapped, seen, stray, historyVars, cacheVars>>
-----------------------------------------------------------------------------
(* handleIncomingMessage                                                   *)
Primary(s)  == Head(tasks[s].items)
Allowed(c)  == Message(c).from \in Listed /\ "pn" \in Aliases(Message(c).from, c.addr)
Unresolved(c) == c.addr = "lid" /\ Message(c).from \notin mapped

\* A group message waits for its group's metadata before the broadcast.
Described(s) == IF Message(Primary(s)).group THEN "group" ELSE "send"
\* The next await of an accepted message, or the broadcast.
Accepted(s) ==
  IF \E c \in ToSet(tasks[s].items) : Message(c).media THEN "media" ELSE Described(s)

\* handleIncomingMessage is done with the items and ids are settled. Its caller goes on: with
\* the next message of the upsert, or with the head of the batch that waited for the flush,
\* which is handled itself or put into a new buffer, whatever another task put there meanwhile.
Ends(s) ==
  LET t   == tasks[s]
      c   == Head(t.batch)
      ids == IdsOf(t.items)
      b   == Buffer(t.gen, c, t.key, <<c>>, 0)
      old == {a \in albums : Key(a) = Key(b)}
  IN \/ /\ t.then = "next"
        /\ Becomes(s, Onward(t)) /\ Settle(ids)
        /\ UNCHANGED <<albums, stray, overwritten>>
     \/ /\ t.then # "next" /\ Stale(t)
        /\ Becomes(s, Onward(t)) /\ Settle(ids \cup {c.id})
        /\ UNCHANGED <<albums, stray, overwritten>>
     \/ /\ t.then = "handle" /\ ~Stale(t)
        /\ Handles(s, <<c>>, "next", t.key) /\ Settle(ids)
        /\ UNCHANGED <<albums, stray, overwritten>>
     \/ /\ t.then = "buffer" /\ ~Stale(t)
        /\ Becomes(s, Onward(t)) /\ Settle(ids)
        /\ albums' = (albums \ old) \cup {b}
        /\ stray' = stray \cup {Key(a) : a \in old}
        /\ overwritten' = overwritten \cup UNION {IdsOf(a.items) : a \in old}
Stays(s, pc) == Goes(s, pc) /\ UNCHANGED <<albums, stray, settled, overwritten>>

Handle(s) ==
  /\ Now(s, "handle")
  /\ \/ (Stale(tasks[s]) \/ ~configured) /\ Ends(s)
     \/ /\ ~Stale(tasks[s]) /\ configured
        /\ \/ Allowed(Primary(s)) /\ Stays(s, Accepted(s))
           \/ ~Allowed(Primary(s)) /\ Unresolved(Primary(s)) /\ Stays(s, "refresh")
           \/ ~Allowed(Primary(s)) /\ ~Unresolved(Primary(s)) /\ Ends(s)
  /\ UNCHANGED <<gen, mapped, seen, sent, cacheVars>>

\* refreshAndRetryAllowedMessage: the allowlist is looked up once more; a direct message
\* then waits for the mapping.
Refreshed(s) ==
  /\ Now(s, "refresh") /\ ~Busy
  /\ LET u == Message(Primary(s)).from IN
     \E found \in SUBSET (Listed \cap {u}) :
       /\ mapped' = IF Stale(tasks[s]) THEN mapped ELSE mapped \cup found
       /\ IF Stale(tasks[s]) THEN Ends(s)
          ELSE IF u \in Listed \cap (mapped \cup found) THEN Stays(s, Accepted(s))
          ELSE IF u \in mapped \/ Message(Primary(s)).group THEN Ends(s)
          ELSE Stays(s, "lookup")
  /\ UNCHANGED <<gen, seen, sent, cacheVars>>

\* waitForLidPnMapping: the mapping was found or came, or three seconds passed.
LookedUp(s) ==
  /\ Now(s, "lookup") /\ ~Busy
  /\ LET u == Message(Primary(s)).from IN
     \E found \in SUBSET {u} :
       /\ mapped' = IF Stale(tasks[s]) THEN mapped ELSE mapped \cup found
       /\ IF ~Stale(tasks[s]) /\ u \in Listed \cap (mapped \cup found)
          THEN Stays(s, Accepted(s)) ELSE Ends(s)
  /\ UNCHANGED <<gen, seen, sent, cacheVars>>

\* Mutant: no check after the download.
DownloadedUnchecked(s) ==
  /\ Now(s, "media") /\ ~Busy
  /\ Stays(s, Described(s))
  /\ UNCHANGED <<gen, mapped, seen, sent, cacheVars>>
\* saveInboundMedia of every item succeeded or failed.
Downloaded(s) ==
  /\ Now(s, "media") /\ ~Busy
  /\ IF Stale(tasks[s]) THEN Ends(s) ELSE Stays(s, Described(s))
  /\ UNCHANGED <<gen, mapped, seen, sent, cacheVars>>

GroupRead(s) ==
  /\ Now(s, "group") /\ ~Busy
  /\ IF Stale(tasks[s]) THEN Ends(s) ELSE Stays(s, "send")
  /\ UNCHANGED <<gen, mapped, seen, sent, cacheVars>>

\* broadcast
Send(s) ==
  /\ Now(s, "send")
  /\ sent' = [i \in Ids |-> sent[i] + (IF i \in IdsOf(tasks[s].items) THEN 1 ELSE 0)]
  /\ Ends(s)
  /\ UNCHANGED <<gen, mapped, seen, cacheVars>>
-----------------------------------------------------------------------------
(* Debounce timers.                                                        *)
Flush(b) ==
  /\ ~Busy
  /\ albums' = albums \ {b}
  /\ IF b.gen # gen
     THEN Settle(IdsOf(b.items)) /\ UNCHANGED tasks
     ELSE /\ Starts([Idle EXCEPT !.gen = gen, !.items = b.items, !.pc = "handle"])
          /\ UNCHANGED settled

TimerFires == \E b \in albums :
  Flush(b) /\ UNCHANGED <<gen, mapped, seen, stray, sent, overwritten, cacheVars>>

\* The timer of an overwritten buffer flushes whatever is under its key.
StrayFires ==
  \E k \in stray :
    /\ ~Busy
    /\ stray' = stray \ {k}
    /\ \/ \E b \in albums : Key(b) = k /\ Flush(b)
       \/ (\A b \in albums : Key(b) # k) /\ UNCHANGED <<albums, tasks, settled>>
    /\ UNCHANGED <<gen, mapped, seen, sent, overwritten, cacheVars>>
-----------------------------------------------------------------------------
(* The rest of the gateway, the adapter and WhatsApp.                      *)
Outside == ~Busy /\ Event /\ UNCHANGED <<tasks, mail, next, sent, overwritten, due, repeats>>
Cleared == albums' = {} /\ Settle(UNION {IdsOf(b.items) : b \in albums})

Close ==
  /\ open /\ open' = FALSE /\ Cleared
  /\ Outside /\ UNCHANGED <<gen, configured, mapped, seen, stray, routed>>
\* startSocket
Reconnect ==
  /\ gen' = gen + 1 /\ open' = TRUE
  /\ Outside
  /\ UNCHANGED <<configured, mapped, seen, albums, stray, settled, routed>>
\* invalidateCurrentSocket and clearAccountRuntimeCaches
Reset ==
  /\ gen' = gen + 1 /\ open' = FALSE /\ Cleared
  /\ mapped' = {} /\ seen' = {} /\ routed' = {}
  /\ Outside /\ UNCHANGED <<configured, stray>>
Configure ==
  /\ ~configured /\ configured' = TRUE
  /\ Outside /\ UNCHANGED <<gen, open, mapped, seen, albums, stray, settled, routed>>
\* lid-mapping.update and its like
Learn ==
  /\ \E u \in Users \ mapped : mapped' = mapped \cup {u}
  /\ Outside /\ UNCHANGED <<gen, open, configured, seen, albums, stray, settled, routed>>
-----------------------------------------------------------------------------
Task(s) ==
  \/ RouteStale(s) \/ Route(s) \/ Schedule(s) \/ Handle(s) \/ Refreshed(s) \/ LookedUp(s)
  \/ Downloaded(s) \/ GroupRead(s) \/ Send(s)
Next ==
  \/ \E s \in Slots : Task(s)
  \/ TimerFires \/ StrayFires
  \/ \E addr \in Addrs, alt \in BOOLEAN :
       /\ alt => addr = "lid"
       /\ \/ \E n \in 1 .. MaxBatch : Deliver(n, addr, alt)
          \/ \E i \in Ids : Redeliver(i, addr, alt)
  \/ Close \/ Reconnect \/ Reset \/ Configure \/ Learn

\* The event loop runs what is ready: downloads, lookups (three seconds at most) and timers
\* complete. Nothing makes a message or an outside event happen.
Fairness == WF_vars((\E s \in Slots : Task(s)) \/ TimerFires \/ StrayFires)
Spec     == Init /\ [][Next]_vars
FairSpec == Spec /\ Fairness
-----------------------------------------------------------------------------
Buffers == [gen : Nat, from : Users, group : BOOLEAN, addr : Addrs, items : Seq(Copies), last : Nat]
Tasks   == [gen : Nat, batch : Seq(Copies), pc : Pcs, items : Seq(Copies), then : Thens, key : Addrs]

\* A task has what its await or its code needs, one task runs at a time, and a key has
\* one buffer.
TypeOK ==
  /\ gen \in Nat /\ open \in BOOLEAN /\ configured \in BOOLEAN
  /\ mapped \subseteq Users /\ seen \subseteq Ids \X Addrs /\ mail \in Mails
  /\ next \in 1 .. Len(mail) + 1 /\ sent \in [Ids -> Nat] /\ settled \subseteq Ids
  /\ albums \subseteq Buffers
  /\ \A b \in albums : b.items # <<>>
  /\ \A a, b \in albums : Key(a) = Key(b) => a = b
  /\ tasks \in [Slots -> Tasks]
  /\ \A s \in Slots :
       LET t == tasks[s] IN
       /\ t.pc \in {"route", "schedule"} \/ t.then # "next" => t.batch # <<>>
       /\ t.pc \notin {"idle", "route", "schedule"} => t.items # <<>>
  /\ \A s, r \in Slots : tasks[s].pc \in Runs /\ tasks[r].pc \in Runs => s = r

\* A message reaches the adapter once, whichever address it comes under, however often
\* WhatsApp repeats it and whoever flushes its album: more than once only if no mapping
\* connected the addresses or a reset forgot it.
NoDuplicate == \A i \in Ids : sent[i] <= due[i]

\* Nothing that was suspended while the socket was replaced is broadcast afterwards.
OnlyCurrent == \A s \in Slots : Now(s, "send") => ~Stale(tasks[s])

\* Pictures of one sender in one chat, those with a timestamp each within the debounce
\* time of the last one before it that has one, whatever stands between them.
Burst(items) ==
  \A i, j \in 1 .. Len(items) : i < j =>
    LET a == Message(items[i])
        b == Message(items[j])
    IN  /\ a.from = b.from /\ a.group = b.group
        /\ a.at # 0 /\ b.at # 0 /\ (\A k \in i + 1 .. j - 1 : Message(items[k]).at = 0)
             => ~Apart(a.at, b.at)

\* An album is a burst.  A picture without a timestamp joins any album of its sender and
\* chat, and does not let the next one in that is too late for the pictures before it.
AlbumIsBurst == \A s \in Slots : Now(s, "send") => Burst(tasks[s].items)

\* A delivered message is broadcast, refused or dropped on purpose in the end; the one
\* exception is a picture whose buffer was overwritten while another task waited in a flush.
EveryMessageSettles == \A i \in Ids : (i < next) ~> (i \in settled \cup overwritten)

\* "so the delayed album cannot overtake the newer message": no message is broadcast
\* while older pictures that its sender had pending are still being handled.
AlbumNeverOvertakes ==
  \A s, r \in Slots :
    Now(s, "send") /\ tasks[r].pc = "media" /\ tasks[r].gen = gen =>
      LET c == Primary(s)
          d == Primary(r)
      IN ~(/\ Message(d).album /\ d.id < c.id /\ d.addr = c.addr
           /\ Message(d).from = Message(c).from /\ Message(d).group = Message(c).group)
=============================================================================
