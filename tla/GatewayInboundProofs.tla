------------------------ MODULE GatewayInboundProofs ------------------------
(***************************************************************************)
(* Proofs about GatewayInbound for any messages, senders, bounds and       *)
(* debounce time: its type invariant, that nothing is broadcast for a      *)
(* replaced socket, that every album is one burst of one sender, and that  *)
(* no message is broadcast twice.                                          *)
(***************************************************************************)
EXTENDS GatewayInbound, SequenceTheorems, FiniteSetTheorems, TLAPS

\* A buffer knows the time of its last picture that has one.
LastTimed(items, last) ==
  \A i \in 1 .. Len(items) :
    Message(items[i]).at # 0 /\ (\A k \in i + 1 .. Len(items) : Message(items[k]).at = 0)
      => Message(items[i]).at = last

\* A picture is compared with the pictures of its buffer, whose sender the buffer names.
BufferOK(b) ==
  /\ b \in Buffers /\ b.items # <<>> /\ Burst(b.items) /\ LastTimed(b.items, b.last)
  /\ \A i \in 1 .. Len(b.items) :
       Message(b.items[i]).from = b.from /\ Message(b.items[i]).group = b.group

TaskOK(t) ==
  /\ t \in Tasks /\ Burst(t.items)
  /\ t.pc \in {"route", "schedule"} \/ t.then # "next" => t.batch # <<>>
  /\ t.pc \notin {"idle", "route", "schedule"} => t.items # <<>>

ScalarsOK ==
  /\ gen \in Nat /\ open \in BOOLEAN /\ configured \in BOOLEAN
  /\ mapped \subseteq Users /\ seen \subseteq Ids \X Addrs /\ mail \in Mails
  /\ next \in 1 .. Len(mail) + 1 /\ sent \in [Ids -> Nat] /\ settled \subseteq Ids
AlbumsOK ==
  /\ \A b \in albums : BufferOK(b)
  /\ \A a, b \in albums : Key(a) = Key(b) => a = b
\* While a task runs, no other does; it keeps its generation until it broadcasts.
TasksOK ==
  /\ tasks \in [Slots -> Tasks]
  /\ \A s \in Slots : TaskOK(tasks[s])
  /\ \A s, r \in Slots : tasks[s].pc \in Runs /\ tasks[r].pc \in Runs => s = r
  /\ OnlyCurrent

InboundInv == ScalarsOK /\ AlbumsOK /\ TasksOK

LEMMA InvImplies == InboundInv => TypeOK /\ OnlyCurrent /\ AlbumIsBurst
  <1> SUFFICES ASSUME InboundInv PROVE TypeOK /\ OnlyCurrent /\ AlbumIsBurst
    OBVIOUS
  <1>1. albums \subseteq Buffers /\ \A b \in albums : b.items # <<>>
    BY DEF InboundInv, AlbumsOK, BufferOK
  <1>2. TypeOK
    BY <1>1 DEF InboundInv, ScalarsOK, AlbumsOK, TasksOK, TaskOK, TypeOK
  <1>3. AlbumIsBurst
    BY DEF InboundInv, TasksOK, TaskOK, AlbumIsBurst
  <1> QED
    BY <1>2, <1>3 DEF InboundInv, TasksOK
-----------------------------------------------------------------------------
(* The values tasks take.                                                  *)
LEMMA MessageType ==
  ASSUME mail \in Mails, NEW c \in Copies
  PROVE  /\ Message(c) \in MailItems /\ c.id \in Ids /\ c.id \in Nat
         /\ Message(c).from \in Users /\ Message(c).at \in Nat /\ c.addr \in Addrs
  <1>1. mail \in Seq(MailItems) /\ c.id \in DOMAIN mail /\ c.addr \in Addrs
    BY InboundAssumption DEF Copies
  <1>2. Message(c) \in MailItems
    BY <1>1 DEF Message
  <1>3. c.id \in Ids
    BY <1>1, InboundAssumption, LenProperties DEF Ids
  <1> QED
    BY <1>1, <1>2, <1>3 DEF MailItems, Ids

LEMMA CanonicalType ==
  ASSUME NEW u, NEW addr \in Addrs
  PROVE  Canonical(u, addr) \in Addrs /\ Canonical(u, addr) \in Aliases(u, addr)
  BY DEF Canonical, Aliases, Addrs

LEMMA ShortBurst == Burst(<<>>) /\ \A c : Burst(<<c>>)
  BY DEF Burst

LEMMA IdleFields ==
  /\ Idle = [gen |-> 0, batch |-> <<>>, pc |-> "idle", items |-> <<>>, then |-> "next", key |-> "pn"]
  /\ <<>> \in Seq(Copies) /\ "pn" \in Addrs /\ "next" \in Thens
  /\ {"idle", "route", "handle"} \subseteq Pcs
  BY DEF Idle, Addrs, Thens, Pcs, Runs

LEMMA IdleOK == TaskOK(Idle)
  <1>1. Idle \in Tasks
    BY DEF Idle, Tasks, Pcs, Thens, Addrs
  <1>2. Burst(Idle.items)
    BY ShortBurst DEF Idle
  <1> QED
    BY <1>1, <1>2 DEF Idle, TaskOK

\* The task of a timer.
LEMMA FlushTaskOK ==
  ASSUME gen \in Nat, NEW items \in Seq(Copies), items # <<>>, Burst(items)
  PROVE  TaskOK([Idle EXCEPT !.gen = gen, !.items = items, !.pc = "handle"])
  <1> DEFINE t == [Idle EXCEPT !.gen = gen, !.items = items, !.pc = "handle"]
  <1>1. t \in Tasks
    BY IdleFields DEF Tasks
  <1>2. t.items = items /\ t.pc = "handle" /\ t.then = "next"
    BY IdleFields
  <1> QED
    BY <1>1, <1>2 DEF TaskOK

LEMMA GoesOK ==
  ASSUME NEW t, TaskOK(t), NEW pc \in Pcs,
         pc \in {"route", "schedule"} => t.batch # <<>>,
         pc \notin {"idle", "route", "schedule"} => t.items # <<>>
  PROVE  TaskOK([t EXCEPT !.pc = pc])
  <1> DEFINE u == [t EXCEPT !.pc = pc]
  <1>1. u \in Tasks
    BY DEF TaskOK, Tasks
  <1>2. u.pc = pc /\ u.items = t.items /\ u.batch = t.batch /\ u.then = t.then
    BY DEF TaskOK, Tasks
  <1> QED
    BY <1>1, <1>2 DEF TaskOK

LEMMA HandlesOK ==
  ASSUME NEW t, TaskOK(t), NEW items \in Seq(Copies), items # <<>>, Burst(items),
         NEW then \in Thens, then # "next" => t.batch # <<>>, NEW key \in Addrs
  PROVE  TaskOK([t EXCEPT !.pc = "handle", !.items = items, !.then = then, !.key = key])
  <1> DEFINE u == [t EXCEPT !.pc = "handle", !.items = items, !.then = then, !.key = key]
  <1>1. u \in Tasks
    BY DEF TaskOK, Tasks, Pcs, Runs
  <1>2. u.pc = "handle" /\ u.items = items /\ u.batch = t.batch /\ u.then = then
    BY DEF TaskOK, Tasks
  <1> QED
    BY <1>1, <1>2 DEF TaskOK

LEMMA NonEmpty == ASSUME NEW S, NEW s \in Seq(S), s # <<>> PROVE Head(s) \in S /\ Len(s) >= 1
  BY HeadTailProperties, EmptySeq

LEMMA LongTail ==
  ASSUME NEW S, NEW s \in Seq(S), Len(s) > 1
  PROVE  Tail(s) \in Seq(S) /\ Tail(s) # <<>>
  <1>1. s # <<>>
    BY EmptySeq
  <1>2. Tail(s) \in Seq(S) /\ Len(Tail(s)) = Len(s) - 1 /\ Len(s) \in Nat
    BY <1>1, HeadTailProperties, LenProperties
  <1>3. Len(Tail(s)) # 0
    BY <1>2
  <1>4. Len(<<>>) = 0
    BY EmptySeq
  <1> QED
    BY <1>2, <1>3, <1>4, Zenon

LEMMA OnwardOK ==
  ASSUME NEW t, TaskOK(t)
  PROVE  TaskOK(Onward(t)) /\ Onward(t).pc # "send"
  <1>3. Len(t.batch) \in Nat
    BY DEF TaskOK, Tasks
  <1>1. CASE Len(t.batch) <= 1
    BY <1>1, IdleOK DEF Onward, Idle
  <1>2. CASE Len(t.batch) > 1
    <2> DEFINE u == [t EXCEPT !.batch = Tail(t.batch), !.pc = "route", !.items = <<>>,
                              !.then = "next"]
    <2>1. t.batch \in Seq(Copies)
      BY DEF TaskOK, Tasks
    <2>2. Tail(t.batch) \in Seq(Copies) /\ Tail(t.batch) # <<>>
      BY <1>2, <2>1, LongTail
    <2> HIDE DEF u
    <2>3. <<>> \in Seq(Copies)
      OBVIOUS
    <2>4. u \in Tasks
      BY <2>2, <2>3 DEF u, TaskOK, Tasks, Pcs, Runs, Thens
    <2>5. u.pc = "route" /\ u.items = <<>> /\ u.batch = Tail(t.batch) /\ u.then = "next"
      BY DEF u, TaskOK, Tasks
    <2>6. Onward(t) = u
      BY <1>2, <1>3, <2>1 DEF Onward, u
    <2> QED
      BY <2>2, <2>4, <2>5, <2>6, ShortBurst DEF TaskOK
  <1> QED
    BY <1>1, <1>2, <1>3
-----------------------------------------------------------------------------
(* What a step does to the tasks and to the buffers.                       *)
LEMMA SameMail ==
  ASSUME mail' = mail
  PROVE  Copies' = Copies /\ Buffers' = Buffers /\ Tasks' = Tasks
  <1>1. Copies' = Copies
    BY DEF Copies
  <1> QED
    BY <1>1 DEF Buffers, Tasks

LEMMA SameTasksOK ==
  ASSUME mail' = mail, tasks' \in [Slots -> Tasks], \A s \in Slots : TaskOK(tasks'[s]),
         \A s, r \in Slots : tasks'[s].pc \in Runs /\ tasks'[r].pc \in Runs => s = r,
         \A s \in Slots : tasks'[s].pc = "send" => tasks'[s].gen = gen'
  PROVE  TasksOK'
  <1>1. OnlyCurrent'
    BY DEF OnlyCurrent, Now, Stale
  <1>2. ASSUME NEW s \in Slots PROVE TaskOK(tasks[s])'
    BY <1>2, SameMail DEF TaskOK, Burst, Message
  <1> QED
    BY <1>1, <1>2, SameMail DEF TasksOK

LEMMA SameAlbumsOK ==
  ASSUME mail' = mail, \A b \in albums' : BufferOK(b),
         \A a, b \in albums' : Key(a) = Key(b) => a = b
  PROVE  AlbumsOK'
  <1>1. ASSUME NEW b \in albums' PROVE BufferOK(b)'
    <2>1. BufferOK(b) /\ (b \in Buffers)'
      BY <1>1, SameMail DEF BufferOK
    <2>2. Burst(b.items)'
      BY <2>1 DEF BufferOK, Burst, Message
    <2>3. LastTimed(b.items, b.last)'
      BY <2>1 DEF BufferOK, LastTimed, Message
    <2>4. (\A i \in 1 .. Len(b.items) :
             Message(b.items[i]).from = b.from /\ Message(b.items[i]).group = b.group)'
      BY <2>1 DEF BufferOK, Message
    <2> QED
      BY <2>1, <2>2, <2>3, <2>4 DEF BufferOK
  <1>2. ASSUME NEW a \in albums', NEW b \in albums' PROVE (Key(a) = Key(b) => a = b)'
    BY <1>2 DEF Key
  <1> QED
    BY <1>1, <1>2 DEF AlbumsOK

LEMMA FewerAlbumsOK ==
  ASSUME AlbumsOK, mail' = mail, albums' \subseteq albums
  PROVE  AlbumsOK'
  BY SameAlbumsOK DEF AlbumsOK

\* One task moves: it runs alone, or nothing runs.
LEMMA MovedOK ==
  ASSUME TasksOK, mail' = mail, gen' = gen, NEW s \in Slots, tasks[s].pc \in Runs \/ ~Busy,
         NEW t, TaskOK(t), t.pc = "send" => t.gen = gen, Becomes(s, t)
  PROVE  TasksOK'
  <1>1. t \in Tasks /\ tasks \in [Slots -> Tasks]
    BY DEF TaskOK, TasksOK
  <1>2. tasks' \in [Slots -> Tasks] /\ tasks'[s] = t /\ \A r \in Slots \ {s} : tasks'[r] = tasks[r]
    BY <1>1 DEF Becomes
  <1>3. \A r \in Slots \ {s} : tasks[r].pc \notin Runs
    BY DEF TasksOK, Busy
  <1>4. \A r \in Slots : TaskOK(tasks'[r])
    BY <1>2 DEF TasksOK
  <1>5. \A q, r \in Slots : tasks'[q].pc \in Runs /\ tasks'[r].pc \in Runs => q = r
    BY <1>2, <1>3
  <1>6. \A r \in Slots : tasks'[r].pc = "send" => tasks'[r].gen = gen'
    BY <1>2 DEF TasksOK, OnlyCurrent, Now, Stale
  <1> QED
    BY <1>2, <1>4, <1>5, <1>6, SameTasksOK

\* A quiet step, which may replace the socket: no task is about to broadcast.
LEMMA QuietOK ==
  ASSUME TasksOK, ~Busy, mail' = mail, tasks' = tasks
  PROVE  TasksOK'
  <1>1. \A s \in Slots : tasks[s].pc \notin Runs /\ tasks[s].pc # "send"
    BY DEF Busy, Runs
  <1> QED
    BY <1>1, SameTasksOK DEF TasksOK

LEMMA SentIds ==
  ASSUME mail \in Mails, NEW items \in Seq(Copies)
  PROVE  IdsOf(items) \subseteq Ids
  <1>1. ToSet(items) \subseteq Copies
    BY LenProperties, ElementOfSeq DEF ToSet
  <1> QED
    BY <1>1, MessageType DEF IdsOf

LEMMA StartsOK ==
  ASSUME TasksOK, ~Busy, mail' = mail, gen' = gen, NEW t, TaskOK(t), t.pc # "send", Starts(t)
  PROVE  TasksOK'
  <1>1. PICK s \in Slots : Becomes(s, t)
    BY DEF Starts, Free
  <1> QED
    BY <1>1, MovedOK

LEMMA StaysOK ==
  ASSUME AlbumsOK, TasksOK, mail' = mail, gen' = gen,
         NEW s \in Slots, tasks[s].pc \in Runs \/ ~Busy, tasks[s].items # <<>>,
         NEW pc \in Pcs \ {"idle", "route", "schedule"}, ~Stale(tasks[s]), Stays(s, pc)
  PROVE  AlbumsOK' /\ TasksOK'
  <1> DEFINE t == [tasks[s] EXCEPT !.pc = pc]
  <1>1. TaskOK(t)
    BY GoesOK DEF TasksOK
  <1>2. t.gen = gen
    BY DEF Stale, TasksOK, Tasks
  <1>3. Becomes(s, t)
    BY DEF Stays, Goes
  <1> HIDE DEF t
  <1>4. TasksOK'
    BY <1>1, <1>2, <1>3, MovedOK
  <1>5. AlbumsOK'
    BY FewerAlbumsOK DEF Stays
  <1> QED
    BY <1>4, <1>5

LEMMA OnwardMoveOK ==
  ASSUME TasksOK, mail' = mail, gen' = gen,
         NEW s \in Slots, tasks[s].pc \in Runs \/ ~Busy, Becomes(s, Onward(tasks[s]))
  PROVE  TasksOK'
  <1>1. TaskOK(tasks[s])
    BY DEF TasksOK
  <1> QED
    BY <1>1, OnwardOK, MovedOK

LEMMA HandlesMoveOK ==
  ASSUME TasksOK, mail' = mail, gen' = gen,
         NEW s \in Slots, tasks[s].pc \in Runs \/ ~Busy,
         NEW items \in Seq(Copies), items # <<>>, Burst(items), NEW then \in Thens,
         then # "next" => tasks[s].batch # <<>>, NEW key \in Addrs, Handles(s, items, then, key)
  PROVE  TasksOK'
  <1> DEFINE t == [tasks[s] EXCEPT !.pc = "handle", !.items = items, !.then = then, !.key = key]
  <1>1. TaskOK(tasks[s])
    BY DEF TasksOK
  <1>2. TaskOK(t)
    BY <1>1, HandlesOK
  <1>3. t.pc = "handle"
    BY <1>1 DEF TaskOK, Tasks
  <1>4. Becomes(s, t)
    BY DEF Handles
  <1> HIDE DEF t
  <1> QED
    BY <1>2, <1>3, <1>4, MovedOK

\* A new buffer, and one more picture in a buffer.
LEMMA NewBufferOK ==
  ASSUME mail \in Mails, NEW g \in Nat, NEW c \in Copies, NEW addr \in Addrs
  PROVE  BufferOK(Buffer(g, c, addr, <<c>>, 0))
  <1> DEFINE b == Buffer(g, c, addr, <<c>>, 0)
  <1>1. /\ b.gen = g /\ b.from = Message(c).from /\ b.group = Message(c).group
        /\ b.addr = addr /\ b.items = <<c>> /\ b.last = Message(c).at
    BY DEF Buffer
  <1>2. b \in Buffers
    BY MessageType DEF Buffer, Buffers, MailItems
  <1> SUFFICES BufferOK(b)
    OBVIOUS
  <1> HIDE DEF b
  <1>3. Len(b.items) = 1 /\ b.items[1] = c /\ b.items # <<>>
    BY <1>1
  <1>4. Burst(b.items) /\ LastTimed(b.items, b.last)
    BY <1>1, <1>3, ShortBurst DEF LastTimed
  <1> QED
    BY <1>1, <1>2, <1>3, <1>4 DEF BufferOK

LEMMA GrownBufferOK ==
  ASSUME mail \in Mails, NEW b, BufferOK(b), NEW c \in Copies,
         b.from = Message(c).from, b.group = Message(c).group, ~Gap(b, c)
  PROVE  BufferOK(Buffer(b.gen, c, b.addr, Append(b.items, c), b.last))
  <1> DEFINE items == Append(b.items, c)
             d == Buffer(b.gen, c, b.addr, items, b.last)
             this == Message(c).at
  <1>1. /\ b.items \in Seq(Copies) /\ b.items # <<>> /\ Burst(b.items)
        /\ LastTimed(b.items, b.last) /\ b.gen \in Nat /\ b.addr \in Addrs /\ b.last \in Nat
        /\ \A i \in 1 .. Len(b.items) :
             Message(b.items[i]).from = b.from /\ Message(b.items[i]).group = b.group
    BY DEF BufferOK, Buffers
  <1>2. Len(b.items) \in Nat \ {0} /\ this \in Nat
    BY <1>1, EmptySeq, MessageType
  <1>3. /\ items \in Seq(Copies) /\ items # <<>> /\ Len(items) = Len(b.items) + 1
        /\ \A i \in 1 .. Len(b.items) : items[i] = b.items[i]
        /\ items[Len(items)] = c
    BY <1>1, AppendProperties
  <1>4. /\ d.gen = b.gen /\ d.from = Message(c).from /\ d.group = Message(c).group
        /\ d.addr = b.addr /\ d.items = items
        /\ d.last = IF this # 0 THEN this ELSE b.last
    BY DEF Buffer
  <1>5. d \in Buffers
    BY <1>1, <1>2, <1>3, MessageType DEF Buffer, Buffers, MailItems
  <1> HIDE DEF items, d
  <1>6. Burst(items)
    <2> SUFFICES ASSUME NEW i \in 1 .. Len(items), NEW j \in 1 .. Len(items), i < j
                 PROVE  /\ Message(items[i]).from = Message(items[j]).from
                        /\ Message(items[i]).group = Message(items[j]).group
                        /\ /\ Message(items[i]).at # 0 /\ Message(items[j]).at # 0
                           /\ \A k \in i + 1 .. j - 1 : Message(items[k]).at = 0
                           => ~Apart(Message(items[i]).at, Message(items[j]).at)
      BY DEF Burst
    <2>1. i \in 1 .. Len(b.items) /\ items[i] = b.items[i]
      BY <1>2, <1>3
    <2>2. CASE j = Len(items)
      <3>1. items[j] = c /\ \A k \in i + 1 .. Len(b.items) : k \in i + 1 .. j - 1 /\ items[k] = b.items[k]
        BY <1>2, <1>3, <2>2
      <3>2. Message(items[i]).from = Message(c).from /\ Message(items[i]).group = Message(c).group
        BY <1>1, <2>1
      <3>3. ASSUME Message(items[i]).at # 0, this # 0,
                   \A k \in i + 1 .. j - 1 : Message(items[k]).at = 0
            PROVE  ~Apart(Message(items[i]).at, this)
        <4>1. \A k \in i + 1 .. Len(b.items) : Message(b.items[k]).at = 0
          BY <3>1, <3>3
        <4>2. Message(items[i]).at = b.last
          BY <1>1, <2>1, <3>3, <4>1 DEF LastTimed
        <4> QED
          BY <3>3, <4>2 DEF Gap
      <3> QED
        BY <3>1, <3>2, <3>3
    <2>3. CASE j # Len(items)
      <3>0. i \in Nat \ {0} /\ j \in Nat /\ Len(items) = Len(b.items) + 1
            /\ j <= Len(b.items) /\ j >= 1
        BY <1>2, <1>3, <2>3
      <3>1. j \in 1 .. Len(b.items) /\ items[j] = b.items[j]
            /\ \A k \in i + 1 .. j - 1 : items[k] = b.items[k]
        <4>1. \A k \in i + 1 .. j - 1 : k \in 1 .. Len(b.items)
          BY <1>2, <3>0
        <4> QED
          BY <1>2, <1>3, <3>0, <4>1
      <3> QED
        BY <1>1, <2>1, <3>1 DEF Burst
    <2> QED
      BY <2>2, <2>3
  <1>7. LastTimed(items, d.last)
    <2> SUFFICES ASSUME NEW i \in 1 .. Len(items), Message(items[i]).at # 0,
                        \A k \in i + 1 .. Len(items) : Message(items[k]).at = 0
                 PROVE  Message(items[i]).at = d.last
      BY DEF LastTimed
    <2>1. CASE i = Len(items)
      BY <1>3, <1>4, <2>1
    <2>2. CASE i # Len(items)
      <3>1. i \in 1 .. Len(b.items) /\ items[i] = b.items[i] /\ Len(items) \in i + 1 .. Len(items)
            /\ \A k \in i + 1 .. Len(b.items) : k \in i + 1 .. Len(items) /\ items[k] = b.items[k]
        BY <1>2, <1>3, <2>2
      <3>2. this = 0 /\ d.last = b.last
        BY <1>3, <1>4, <3>1
      <3> QED
        BY <1>1, <3>1, <3>2 DEF LastTimed
    <2> QED
      BY <2>1, <2>2
  <1>8. \A i \in 1 .. Len(items) :
          Message(items[i]).from = Message(c).from /\ Message(items[i]).group = Message(c).group
    <2> TAKE i \in 1 .. Len(items)
    <2>1. items[i] = c \/ (i \in 1 .. Len(b.items) /\ items[i] = b.items[i])
      BY <1>2, <1>3
    <2> QED
      BY <1>1, <2>1
  <1>9. BufferOK(d)
    BY <1>3, <1>4, <1>5, <1>6, <1>7, <1>8 DEF BufferOK
  <1> QED
    BY <1>9 DEF d, items

\* The call returns to its caller, whichever of the four that is.
LEMMA EndsOK ==
  ASSUME ScalarsOK, AlbumsOK, TasksOK, mail' = mail, gen' = gen,
         NEW s \in Slots, tasks[s].pc \in Runs \/ ~Busy, Ends(s)
  PROVE  AlbumsOK' /\ TasksOK' /\ settled' \subseteq Ids
  <1> DEFINE t   == tasks[s]
             c   == Head(t.batch)
             ids == IdsOf(t.items)
             b   == Buffer(t.gen, c, t.key, <<c>>, 0)
             old == {a \in albums : Key(a) = Key(b)}
  <1>1. t \in Tasks /\ (t.then # "next" => t.batch # <<>>)
    BY DEF TasksOK, TaskOK
  <1>2. t.gen \in Nat /\ t.batch \in Seq(Copies) /\ t.items \in Seq(Copies) /\ t.key \in Addrs
    BY <1>1 DEF Tasks
  <1>3. mail \in Mails /\ settled \subseteq Ids
    BY DEF ScalarsOK
  <1>4. ids \subseteq Ids
    BY <1>2, <1>3, SentIds
  <1>5. t.then # "next" => c \in Copies /\ c.id \in Ids
    BY <1>1, <1>2, <1>3, NonEmpty, MessageType
  <1>6. /\ settled' \in {settled \cup ids, settled \cup (ids \cup {c.id})}
        /\ settled' # settled \cup ids => t.then # "next"
    BY DEF Ends, Settle
  <1>7. settled' \subseteq Ids
    BY <1>3, <1>4, <1>5, <1>6
  <1>8. CASE Becomes(s, Onward(t)) /\ albums' = albums
    BY <1>7, <1>8, OnwardMoveOK, FewerAlbumsOK
  <1>9. CASE t.then = "handle" /\ Handles(s, <<c>>, "next", t.key) /\ albums' = albums
    <2>1. <<c>> \in Seq(Copies) /\ <<c>> # <<>> /\ Burst(<<c>>)
      BY <1>5, <1>9, ShortBurst
    <2>2. TasksOK'
      BY <1>2, <1>9, <2>1, HandlesMoveOK DEF Thens
    <2> QED
      BY <1>7, <1>9, <2>2, FewerAlbumsOK
  <1>10. CASE t.then = "buffer" /\ Becomes(s, Onward(t)) /\ albums' = (albums \ old) \cup {b}
    <2>1. BufferOK(b)
      BY <1>2, <1>3, <1>5, <1>10, NewBufferOK
    <2>2. \A a \in albums \ old : Key(a) # Key(b)
      OBVIOUS
    <2> HIDE DEF b, old
    <2>3. \A a \in albums' : BufferOK(a)
      BY <1>10, <2>1 DEF AlbumsOK
    <2>4. \A a, d \in albums' : Key(a) = Key(d) => a = d
      BY <1>10, <2>2 DEF AlbumsOK
    <2>5. AlbumsOK'
      BY <2>3, <2>4, SameAlbumsOK
    <2> QED
      BY <1>7, <1>10, <2>5, OnwardMoveOK
  <1> QED
    BY <1>8, <1>9, <1>10 DEF Ends

LEMMA Settles ==
  ASSUME ScalarsOK, AlbumsOK
  PROVE  /\ \A s \in Seq(Copies) : IdsOf(s) \subseteq Ids
         /\ \A b \in albums : IdsOf(b.items) \subseteq Ids
  BY SentIds DEF ScalarsOK, AlbumsOK, BufferOK, Buffers
-----------------------------------------------------------------------------
(* Every action keeps the invariant.                                       *)
\* What an action that keeps these variables has to show.
LEMMA ScalarsKept ==
  ASSUME ScalarsOK, UNCHANGED <<gen, open, configured, seen, mail, next>>,
         mapped' \subseteq Users, sent' \in [Ids -> Nat], settled' \subseteq Ids
  PROVE  ScalarsOK'
  BY DEF ScalarsOK

LEMMA UpsertOK ==
  ASSUME InboundInv, NEW batch \in Seq(Copies), batch # <<>>, Upsert(batch)
  PROVE  AlbumsOK' /\ TasksOK'
  <1> DEFINE t == [Idle EXCEPT !.gen = gen, !.batch = batch, !.pc = "route"]
  <1>1. gen \in Nat
    BY DEF InboundInv, ScalarsOK
  <1>2. t.batch = batch /\ t.items = <<>> /\ t.pc = "route" /\ t.then = "next"
    BY IdleFields
  <1>3. t \in Tasks
    BY <1>1, IdleFields DEF Tasks
  <1>4. TaskOK(t)
    BY <1>2, <1>3, ShortBurst DEF TaskOK
  <1>5. t.pc = "route"
    BY DEF Idle
  <1>6. Starts(t)
    BY DEF Upsert
  <1> HIDE DEF t
  <1>7. TasksOK'
    BY <1>4, <1>5, <1>6, StartsOK DEF InboundInv, Upsert
  <1>8. AlbumsOK'
    BY FewerAlbumsOK DEF InboundInv, Upsert
  <1> QED
    BY <1>7, <1>8

LEMMA DeliverOK ==
  ASSUME InboundInv, NEW n \in 1 .. MaxBatch, NEW addr \in Addrs, NEW alt \in BOOLEAN,
         alt => addr = "lid", Deliver(n, addr, alt)
  PROVE  InboundInv'
  <1> DEFINE batch == [i \in 1 .. n |-> [id |-> next + i - 1, addr |-> addr, alt |-> alt]]
  <1>1. mail \in Mails /\ mail \in Seq(MailItems) /\ next \in 1 .. Len(mail) + 1
    BY InboundAssumption DEF InboundInv, ScalarsOK
  <1>2. n \in Nat \ {0} /\ Len(mail) \in Nat /\ next + n - 1 \in 1 .. Len(mail)
    BY <1>1, LenProperties, InboundAssumption DEF Deliver
  <1>3. \A i \in 1 .. n : [id |-> next + i - 1, addr |-> addr, alt |-> alt] \in Copies
    BY <1>1, <1>2, LenProperties DEF Copies
  <1>4. batch \in Seq(Copies) /\ batch # <<>>
    BY <1>2, <1>3
  <1>5. Upsert(batch)
    BY DEF Deliver
  <1>6. next' \in 1 .. Len(mail) + 1
    BY <1>1, <1>2 DEF Deliver
  <1>7. UNCHANGED <<gen, open, configured, mapped, seen, mail, sent, settled>>
    BY DEF Deliver, Upsert, historyVars
  <1>8. ScalarsOK'
    BY <1>6, <1>7 DEF InboundInv, ScalarsOK
  <1> QED
    BY <1>4, <1>5, <1>8, UpsertOK DEF InboundInv

LEMMA RedeliverOK ==
  ASSUME InboundInv, NEW i \in Ids, NEW addr \in Addrs, NEW alt \in BOOLEAN,
         alt => addr = "lid", Redeliver(i, addr, alt)
  PROVE  InboundInv'
  <1> DEFINE c == [id |-> i, addr |-> addr, alt |-> alt]
  <1>1. mail \in Mails /\ mail \in Seq(MailItems) /\ next \in 1 .. Len(mail) + 1
    BY InboundAssumption DEF InboundInv, ScalarsOK
  <1>2. \A m \in Mails : m \in Seq(MailItems) /\ \A j \in DOMAIN m : j \in Nat /\ j >= 1
    BY InboundAssumption
  <1>3. i \in DOMAIN mail
    BY <1>1, <1>2, LenProperties DEF Ids, Redeliver
  <1>4. <<c>> \in Seq(Copies) /\ <<c>> # <<>>
    BY <1>3 DEF Copies
  <1>5. Upsert(<<c>>)
    BY DEF Redeliver
  <1>6. UNCHANGED <<gen, open, configured, mapped, seen, mail, next, sent, settled>>
    BY DEF Redeliver, Upsert, historyVars
  <1>7. ScalarsOK'
    BY <1>6 DEF InboundInv, ScalarsOK
  <1> QED
    BY <1>4, <1>5, <1>7, UpsertOK DEF InboundInv

\* A task at a place other than the route has its items, and its places are its next ones.
LEMMA ItemsThere ==
  ASSUME TasksOK, NEW s \in Slots, tasks[s].pc \notin {"idle", "route", "schedule"}
  PROVE  tasks[s].items # <<>> /\ tasks[s].items \in Seq(Copies)
  BY DEF TasksOK, TaskOK, Tasks

LEMMA BatchThere ==
  ASSUME TasksOK, NEW s \in Slots, tasks[s].pc \in {"route", "schedule"}
  PROVE  /\ tasks[s].batch # <<>> /\ tasks[s].batch \in Seq(Copies)
         /\ Head(tasks[s].batch) \in Copies
  BY NonEmpty DEF TasksOK, TaskOK, Tasks

LEMMA Places ==
  ASSUME NEW s \in Slots
  PROVE  /\ Described(s) \in Pcs \ {"idle", "route", "schedule"}
         /\ Accepted(s) \in Pcs \ {"idle", "route", "schedule"}
         /\ "refresh" \in Pcs \ {"idle", "route", "schedule"}
         /\ "lookup" \in Pcs \ {"idle", "route", "schedule"}
         /\ "send" \in Pcs \ {"idle", "route", "schedule"}
  BY DEF Described, Accepted, Pcs, Runs

LEMMA RouteStaleOK ==
  ASSUME InboundInv, NEW s \in Slots, RouteStale(s)
  PROVE  InboundInv'
  <1>1. tasks[s].pc \in Runs /\ mail' = mail /\ gen' = gen
    BY DEF RouteStale, Now, Runs, cacheVars
  <1>2. TaskOK(Idle) /\ Idle.pc # "send"
    BY IdleOK DEF Idle
  <1>3. TasksOK'
    BY <1>1, <1>2, MovedOK DEF InboundInv, RouteStale
  <1>4. AlbumsOK'
    BY <1>1, FewerAlbumsOK DEF InboundInv, RouteStale
  <1>5. IdsOf(tasks[s].batch) \subseteq Ids
    BY BatchThere, Settles DEF InboundInv, RouteStale, Now
  <1>6. ScalarsOK'
    BY <1>5 DEF InboundInv, ScalarsOK, RouteStale, Settle, cacheVars
  <1> QED
    BY <1>3, <1>4, <1>6 DEF InboundInv

LEMMA RouteOK ==
  ASSUME InboundInv, NEW s \in Slots, Route(s)
  PROVE  InboundInv'
  <1> DEFINE t == tasks[s]
             c == Head(t.batch)
             u == Message(c).from
             v == [t EXCEPT !.batch = <<[c EXCEPT !.alt = FALSE]>> \o Tail(t.batch)]
  <1>1. /\ t.pc \in Runs /\ t.pc = "route" /\ t.gen = gen /\ mail' = mail /\ gen' = gen
        /\ albums' = albums
    BY DEF Route, Now, Runs, Stale
  <1>2. t.batch # <<>> /\ t.batch \in Seq(Copies) /\ c \in Copies /\ TaskOK(t) /\ t \in Tasks
    BY <1>1, BatchThere DEF InboundInv, TasksOK, TaskOK
  <1>3. mail \in Mails /\ u \in Users /\ c.id \in Ids /\ c.addr \in Addrs
    BY <1>2, MessageType DEF InboundInv, ScalarsOK
  <1>4. AlbumsOK'
    BY <1>1, FewerAlbumsOK DEF InboundInv
  <1>5. mapped' \in {mapped, mapped \cup {u}}
    BY DEF Route
  <1>6. seen' \in {seen, seen \cup {<<c.id, Canonical(u, c.addr)>>}}
    BY DEF Route
  <1>7. seen' \subseteq Ids \X Addrs
    BY <1>3, <1>6, CanonicalType DEF InboundInv, ScalarsOK
  <1>8. ScalarsOK'
    BY <1>3, <1>5, <1>7 DEF InboundInv, ScalarsOK, Route, historyVars
  <1>9. CASE Becomes(s, v)
    <2>1. [c EXCEPT !.alt = FALSE] \in Copies
      BY <1>2 DEF Copies
    <2>2. Tail(t.batch) \in Seq(Copies)
      BY <1>2, HeadTailProperties
    <2>3. <<[c EXCEPT !.alt = FALSE]>> \in Seq(Copies)
      BY <2>1
    <2> DEFINE w == <<[c EXCEPT !.alt = FALSE]>> \o Tail(t.batch)
    <2>4. w \in Seq(Copies) /\ w # <<>>
      BY <2>2, <2>3, ConcatProperties, EmptySeq
    <2> HIDE DEF w
    <2>5. v = [t EXCEPT !.batch = w]
      BY DEF w
    <2>6. v \in Tasks
      BY <1>2, <2>4, <2>5 DEF Tasks
    <2>7. v.batch = w /\ v.items = t.items /\ v.pc = t.pc /\ v.then = t.then
      BY <1>2, <2>5 DEF Tasks
    <2> HIDE DEF v
    <2>8. TaskOK(v) /\ v.pc # "send"
      BY <1>1, <1>2, <2>4, <2>6, <2>7 DEF TaskOK
    <2>9. TasksOK'
      BY <1>1, <1>9, <2>8, MovedOK DEF InboundInv
    <2> QED
      BY <1>4, <1>8, <2>9 DEF InboundInv
  <1>10. CASE Becomes(s, Onward(t))
    BY <1>1, <1>4, <1>8, <1>10, OnwardMoveOK DEF InboundInv
  <1>11. CASE Goes(s, "schedule")
    <2> DEFINE w == [t EXCEPT !.pc = "schedule"]
    <2>1. TaskOK(w)
      BY <1>2, GoesOK DEF Pcs, Runs
    <2>2. w.pc # "send"
      BY <1>2 DEF Tasks
    <2>3. Becomes(s, w)
      BY <1>11 DEF Goes
    <2> HIDE DEF w
    <2>4. TasksOK'
      BY <1>1, <2>1, <2>2, <2>3, MovedOK DEF InboundInv
    <2> QED
      BY <1>4, <1>8, <2>4 DEF InboundInv
  <1> QED
    BY <1>9, <1>10, <1>11 DEF Route

\* The scalars of an action that ends or suspends a call.
LEMMA CallOK ==
  ASSUME InboundInv, NEW s \in Slots, tasks[s].pc \in Runs \/ ~Busy,
         tasks[s].pc \notin {"idle", "route", "schedule"},
         UNCHANGED <<gen, seen, cacheVars>>, mapped' \subseteq Users, sent' \in [Ids -> Nat],
         \/ Ends(s)
         \/ ~Stale(tasks[s]) /\ \E pc \in Pcs \ {"idle", "route", "schedule"} : Stays(s, pc)
  PROVE  InboundInv'
  <1>1. /\ ScalarsOK /\ AlbumsOK /\ TasksOK /\ mail' = mail /\ gen' = gen /\ settled \subseteq Ids
        /\ UNCHANGED <<gen, open, configured, seen, mail, next>>
    BY DEF InboundInv, ScalarsOK, cacheVars
  <1>2. CASE Ends(s)
    <2>1. AlbumsOK' /\ TasksOK' /\ settled' \subseteq Ids
      BY <1>1, <1>2, EndsOK
    <2> QED
      BY <1>1, <2>1, ScalarsKept DEF InboundInv
  <1>3. CASE ~Stale(tasks[s]) /\ \E pc \in Pcs \ {"idle", "route", "schedule"} : Stays(s, pc)
    <2>1. PICK pc \in Pcs \ {"idle", "route", "schedule"} : Stays(s, pc)
      BY <1>3
    <2>2. tasks[s].items # <<>>
      BY <1>1, ItemsThere
    <2>3. AlbumsOK' /\ TasksOK'
      BY <1>1, <1>3, <2>1, <2>2, StaysOK
    <2>4. settled' \subseteq Ids
      BY <1>1, <2>1 DEF Stays
    <2> QED
      BY <1>1, <2>3, <2>4, ScalarsKept DEF InboundInv
  <1> QED
    BY <1>2, <1>3

LEMMA ScheduleOK ==
  ASSUME InboundInv, NEW s \in Slots, Schedule(s)
  PROVE  InboundInv'
  <1> DEFINE t == tasks[s]
             c == Head(t.batch)
             pending == Pending(t.gen, c)
             addr == Canonical(Message(c).from, c.addr)
  <1>1. /\ ScalarsOK /\ AlbumsOK /\ TasksOK /\ mail' = mail /\ gen' = gen
        /\ t.pc \in Runs /\ t.pc = "schedule" /\ mail \in Mails
    BY DEF InboundInv, ScalarsOK, Schedule, Now, Runs, cacheVars
  <1>2. t.batch # <<>> /\ c \in Copies /\ t.gen \in Nat
    BY <1>1, BatchThere DEF TasksOK, Tasks
  <1>3. addr \in Addrs
    BY <1>1, <1>2, MessageType, CanonicalType
  <1>4. ScalarsOK'
    BY <1>1 DEF ScalarsOK, Schedule, historyVars, cacheVars
  <1>5. \A b \in pending : /\ b \in albums /\ b.gen = t.gen /\ b.from = Message(c).from
                           /\ b.group = Message(c).group
    BY DEF Pending
  <1>6. CASE /\ pending = {} /\ albums' = albums \cup {Buffer(t.gen, c, addr, <<c>>, 0)}
             /\ Becomes(s, Onward(t))
    <2> DEFINE b == Buffer(t.gen, c, addr, <<c>>, 0)
    <2>1. BufferOK(b)
      BY <1>1, <1>2, <1>3, NewBufferOK
    <2>2. ASSUME NEW a \in albums PROVE Key(a) # Key(b)
      <3> SUFFICES ASSUME Key(a) = Key(b) PROVE FALSE
        OBVIOUS
      <3>1. /\ b.gen = t.gen /\ b.from = Message(c).from /\ b.group = Message(c).group
            /\ b.addr = addr
        BY DEF Buffer
      <3> HIDE DEF b
      <3>2. /\ a.gen = t.gen /\ a.from = Message(c).from /\ a.group = Message(c).group
            /\ a.addr = addr
        BY <3>1 DEF Key
      <3>3. a.addr \in Aliases(Message(c).from, c.addr)
        BY <1>1, <1>2, <3>2, MessageType, CanonicalType
      <3>4. a \in pending
        BY <3>2, <3>3 DEF Pending
      <3> QED
        BY <1>6, <3>4
    <2> HIDE DEF b
    <2>3. \A a \in albums' : BufferOK(a)
      BY <1>1, <1>6, <2>1 DEF AlbumsOK, b
    <2>4. \A a, d \in albums' : Key(a) = Key(d) => a = d
      BY <1>1, <1>6, <2>2 DEF AlbumsOK, b
    <2>5. AlbumsOK'
      BY <1>1, <2>3, <2>4, SameAlbumsOK
    <2> QED
      BY <1>1, <1>4, <1>6, <2>5, OnwardMoveOK DEF InboundInv
  <1>7. ASSUME NEW b \in pending, ~Gap(b, c), Becomes(s, Onward(t)),
               albums' = (albums \ {b}) \cup {Buffer(b.gen, c, b.addr, Append(b.items, c), b.last)}
        PROVE  InboundInv'
    <2> DEFINE d == Buffer(b.gen, c, b.addr, Append(b.items, c), b.last)
    <2>1. BufferOK(b)
      BY <1>1, <1>5 DEF AlbumsOK
    <2>2. BufferOK(d)
      BY <1>1, <1>2, <1>5, <1>7, <2>1, GrownBufferOK
    <2>3. Key(d) = Key(b)
      BY <1>5 DEF Key, Buffer
    <2> HIDE DEF d
    <2>4. \A a \in albums' : BufferOK(a)
      BY <1>1, <1>7, <2>2 DEF AlbumsOK, d
    <2>5. \A a, e \in albums' : Key(a) = Key(e) => a = e
      BY <1>1, <1>5, <1>7, <2>3 DEF AlbumsOK, d
    <2>6. AlbumsOK'
      BY <1>1, <2>4, <2>5, SameAlbumsOK
    <2> QED
      BY <1>1, <1>4, <1>7, <2>6, OnwardMoveOK DEF InboundInv
  <1>8. ASSUME NEW b \in pending, NEW then \in Thens, Flushed(s, b, then)
        PROVE  InboundInv'
    <2>1. BufferOK(b)
      BY <1>1, <1>5 DEF AlbumsOK
    <2>2. b.items \in Seq(Copies) /\ b.items # <<>> /\ Burst(b.items) /\ b.addr \in Addrs
      BY <2>1 DEF BufferOK, Buffers
    <2>3. TasksOK'
      BY <1>1, <1>2, <1>8, <2>2, HandlesMoveOK DEF Flushed
    <2>4. AlbumsOK'
      BY <1>1, <1>8, FewerAlbumsOK DEF Flushed
    <2> QED
      BY <1>4, <2>3, <2>4 DEF InboundInv
  <1>9. CASE Handles(s, <<c>>, "next", addr) /\ albums' = albums
    <2>1. <<c>> \in Seq(Copies) /\ <<c>> # <<>> /\ Burst(<<c>>)
      BY <1>2, ShortBurst
    <2>2. TasksOK'
      BY <1>1, <1>3, <1>9, <2>1, HandlesMoveOK DEF Thens
    <2> QED
      BY <1>1, <1>4, <1>9, <2>2, FewerAlbumsOK DEF InboundInv
  <1> HIDE DEF pending, addr
  <1> QED
    BY <1>6, <1>7, <1>8, <1>9 DEF Schedule, Thens, pending, addr

LEMMA HandleOK ==
  ASSUME InboundInv, NEW s \in Slots, Handle(s)
  PROVE  InboundInv'
  <1>1. tasks[s].pc = "handle" /\ tasks[s].pc \in Runs
    BY DEF Handle, Now, Runs
  <1>2. UNCHANGED <<gen, mapped, seen, sent, cacheVars>>
    BY DEF Handle
  <1>3. \/ Ends(s)
        \/ ~Stale(tasks[s]) /\ \E pc \in {Accepted(s), "refresh"} : Stays(s, pc)
    BY DEF Handle
  <1> QED
    BY <1>1, <1>2, <1>3, Places, CallOK DEF InboundInv, ScalarsOK

LEMMA RefreshedOK ==
  ASSUME InboundInv, NEW s \in Slots, Refreshed(s)
  PROVE  InboundInv'
  <1>1. tasks[s].pc = "refresh" /\ ~Busy
    BY DEF Refreshed, Now
  <1>2. UNCHANGED <<gen, seen, sent, cacheVars>> /\ mapped' \subseteq mapped \cup Listed
    BY DEF Refreshed
  <1>3. \/ Ends(s)
        \/ ~Stale(tasks[s]) /\ \E pc \in {Accepted(s), "lookup"} : Stays(s, pc)
    BY DEF Refreshed
  <1>4. mapped' \subseteq Users
    BY <1>2, InboundAssumption DEF InboundInv, ScalarsOK
  <1> QED
    BY <1>1, <1>2, <1>3, <1>4, Places, CallOK DEF InboundInv, ScalarsOK

LEMMA LookedUpOK ==
  ASSUME InboundInv, NEW s \in Slots, LookedUp(s)
  PROVE  InboundInv'
  <1>1. tasks[s].pc = "lookup" /\ ~Busy
    BY DEF LookedUp, Now
  <1>2. UNCHANGED <<gen, seen, sent, cacheVars>>
    BY DEF LookedUp
  <1>3. \/ Ends(s)
        \/ ~Stale(tasks[s]) /\ Stays(s, Accepted(s))
    BY DEF LookedUp
  <1>4. mapped' \subseteq mapped \cup {Message(Primary(s)).from}
    BY DEF LookedUp
  <1>5. Primary(s) \in Copies
    BY <1>1, ItemsThere, NonEmpty DEF InboundInv, Primary
  <1>6. mapped' \subseteq Users
    BY <1>4, <1>5, MessageType DEF InboundInv, ScalarsOK
  <1> QED
    BY <1>1, <1>2, <1>3, <1>6, Places, CallOK DEF InboundInv, ScalarsOK

LEMMA DownloadedOK ==
  ASSUME InboundInv, NEW s \in Slots, Downloaded(s)
  PROVE  InboundInv'
  <1>1. tasks[s].pc = "media" /\ ~Busy /\ UNCHANGED <<gen, mapped, seen, sent, cacheVars>>
    BY DEF Downloaded, Now
  <1>2. \/ Ends(s)
        \/ ~Stale(tasks[s]) /\ Stays(s, Described(s))
    BY DEF Downloaded
  <1> QED
    BY <1>1, <1>2, Places, CallOK DEF InboundInv, ScalarsOK

LEMMA GroupReadOK ==
  ASSUME InboundInv, NEW s \in Slots, GroupRead(s)
  PROVE  InboundInv'
  <1>1. tasks[s].pc = "group" /\ ~Busy /\ UNCHANGED <<gen, mapped, seen, sent, cacheVars>>
    BY DEF GroupRead, Now
  <1>2. \/ Ends(s)
        \/ ~Stale(tasks[s]) /\ Stays(s, "send")
    BY DEF GroupRead
  <1> QED
    BY <1>1, <1>2, Places, CallOK DEF InboundInv, ScalarsOK

LEMMA SendOK ==
  ASSUME InboundInv, NEW s \in Slots, Send(s)
  PROVE  InboundInv'
  <1>1. /\ tasks[s].pc = "send" /\ tasks[s].pc \in Runs /\ Ends(s)
        /\ UNCHANGED <<gen, mapped, seen, cacheVars>>
    BY DEF Send, Now, Runs
  <1>2. sent' \in [Ids -> Nat]
    BY DEF InboundInv, ScalarsOK, Send
  <1> QED
    BY <1>1, <1>2, CallOK DEF InboundInv, ScalarsOK

LEMMA FlushOK ==
  ASSUME InboundInv, NEW b \in albums, Flush(b), UNCHANGED <<gen, mapped, seen, sent, cacheVars>>
  PROVE  InboundInv'
  <1>1. /\ ScalarsOK /\ AlbumsOK /\ TasksOK /\ mail' = mail /\ gen' = gen
        /\ settled \subseteq Ids /\ gen \in Nat /\ ~Busy
    BY DEF InboundInv, ScalarsOK, Flush, cacheVars
  <1>2. b.items \in Seq(Copies) /\ b.items # <<>> /\ Burst(b.items)
    BY <1>1 DEF AlbumsOK, BufferOK, Buffers
  <1>3. AlbumsOK'
    BY <1>1, FewerAlbumsOK DEF Flush
  <1>4. settled' \subseteq Ids
    BY <1>1, <1>2, Settles DEF Flush, Settle
  <1>5. ScalarsOK'
    BY <1>1, <1>4, ScalarsKept DEF ScalarsOK, cacheVars
  <1>6. TasksOK'
    <2> DEFINE t == [Idle EXCEPT !.gen = gen, !.items = b.items, !.pc = "handle"]
    <2>1. TaskOK(t)
      BY <1>1, <1>2, FlushTaskOK
    <2>2. t.pc # "send"
      BY IdleFields
    <2>3. tasks' = tasks \/ Starts(t)
      BY DEF Flush
    <2> HIDE DEF t
    <2> QED
      BY <1>1, <2>1, <2>2, <2>3, QuietOK, StartsOK
  <1> QED
    BY <1>3, <1>5, <1>6 DEF InboundInv

LEMMA TimersOK ==
  ASSUME InboundInv, TimerFires \/ StrayFires
  PROVE  InboundInv'
  <1>1. CASE \E b \in albums : Flush(b) /\ UNCHANGED <<gen, mapped, seen, sent, cacheVars>>
    BY <1>1, FlushOK
  <1>2. CASE ~Busy /\ UNCHANGED <<albums, tasks, settled, gen, mapped, seen, sent, cacheVars>>
    <2>1. ScalarsOK' /\ mail' = mail
      BY <1>2 DEF InboundInv, ScalarsOK, cacheVars
    <2> QED
      BY <1>2, <2>1, QuietOK, FewerAlbumsOK DEF InboundInv
  <1> QED
    BY <1>1, <1>2 DEF TimerFires, StrayFires

\* Socket changes, policies and mappings find no task running.
LEMMA OutsideOK ==
  ASSUME InboundInv, Close \/ Reconnect \/ Reset \/ Configure \/ Learn
  PROVE  InboundInv'
  <1>1. /\ ScalarsOK /\ AlbumsOK /\ TasksOK /\ settled \subseteq Ids /\ gen \in Nat
        /\ ~Busy /\ UNCHANGED <<tasks, mail, next, sent>>
    BY DEF InboundInv, ScalarsOK, Close, Reconnect, Reset, Configure, Learn, Outside
  <1>2. TasksOK'
    BY <1>1, QuietOK
  <1>3. albums' \subseteq albums
    BY DEF Close, Reconnect, Reset, Configure, Learn, Cleared
  <1>4. AlbumsOK'
    BY <1>1, <1>3, FewerAlbumsOK
  <1>5. UNION {IdsOf(b.items) : b \in albums} \subseteq Ids
    BY <1>1, Settles
  <1>6. settled' \subseteq Ids
    BY <1>1, <1>5 DEF Close, Reconnect, Reset, Configure, Learn, Cleared, Settle
  <1>7. gen' \in {gen, gen + 1} /\ open' \in {open, TRUE, FALSE} /\ configured' \in {configured, TRUE}
    BY DEF Close, Reconnect, Reset, Configure, Learn
  <1>8. mapped' \subseteq Users /\ seen' \subseteq Ids \X Addrs
    BY <1>1 DEF ScalarsOK, Close, Reconnect, Reset, Configure, Learn
  <1>9. gen' \in Nat
    BY <1>1, <1>7
  <1>10. open' \in BOOLEAN /\ configured' \in BOOLEAN
    BY <1>1, <1>7, Zenon DEF ScalarsOK
  <1>11. ScalarsOK'
    BY <1>1, <1>6, <1>8, <1>9, <1>10 DEF ScalarsOK
  <1> QED
    BY <1>2, <1>4, <1>11 DEF InboundInv

LEMMA InboundInit == Init => InboundInv
  <1> SUFFICES ASSUME Init PROVE InboundInv
    OBVIOUS
  <1>1. mail \in Mails /\ mail \in Seq(MailItems) /\ next = 1
    BY InboundAssumption DEF Init
  <1>2. next \in 1 .. Len(mail) + 1
    BY <1>1, LenProperties
  <1>3. ScalarsOK
    BY <1>1, <1>2 DEF Init, ScalarsOK
  <1>4. AlbumsOK
    BY DEF Init, AlbumsOK
  <1>5. \A s \in Slots : tasks[s] = Idle
    BY DEF Init
  <1>6. Idle \in Tasks /\ TaskOK(Idle) /\ Idle.pc \notin Runs /\ Idle.pc # "send"
    BY IdleOK, IdleFields DEF TaskOK, Runs
  <1>7. tasks \in [Slots -> Tasks]
    BY <1>6 DEF Init
  <1>8. TasksOK
    BY <1>5, <1>6, <1>7 DEF TasksOK, OnlyCurrent, Now
  <1> QED
    BY <1>3, <1>4, <1>8 DEF InboundInv

LEMMA InboundStep == InboundInv /\ [Next]_vars => InboundInv'
  <1> SUFFICES ASSUME InboundInv, [Next]_vars PROVE InboundInv'
    OBVIOUS
  <1>1. ASSUME NEW s \in Slots, Task(s) PROVE InboundInv'
    BY <1>1, RouteStaleOK, RouteOK, ScheduleOK, HandleOK, RefreshedOK, LookedUpOK,
       DownloadedOK, GroupReadOK, SendOK DEF Task
  <1>2. CASE TimerFires \/ StrayFires
    BY <1>2, TimersOK
  <1>3. ASSUME NEW addr \in Addrs, NEW alt \in BOOLEAN, alt => addr = "lid",
               \/ \E n \in 1 .. MaxBatch : Deliver(n, addr, alt)
               \/ \E i \in Ids : Redeliver(i, addr, alt)
        PROVE  InboundInv'
    BY <1>3, DeliverOK, RedeliverOK
  <1>4. CASE Close \/ Reconnect \/ Reset \/ Configure \/ Learn
    BY <1>4, OutsideOK
  <1>5. CASE UNCHANGED vars
    <2>1. ScalarsOK'
      BY <1>5 DEF InboundInv, ScalarsOK, vars, historyVars
    <2>2. AlbumsOK'
      BY <1>5, FewerAlbumsOK DEF InboundInv, vars
    <2>3. TasksOK'
      BY <1>5, SameTasksOK DEF InboundInv, TasksOK, OnlyCurrent, Now, Stale, vars
    <2> QED
      BY <2>1, <2>2, <2>3 DEF InboundInv
  <1> QED
    BY <1>1, <1>2, <1>3, <1>4, <1>5 DEF Next

LEMMA InboundInvariant == Spec => []InboundInv
  BY InboundInit, InboundStep, PTL DEF Spec
-----------------------------------------------------------------------------
(* Type correctness, with what each await relies on: one task runs at a    *)
(* time, a task has the messages it works on, and a key of                 *)
(* albumBufferKey has one buffer.                                          *)
THEOREM TypeCorrect == Spec => []TypeOK
  BY InboundInvariant, InvImplies, PTL

(* No broadcast comes from a handler of a replaced socket: every await of  *)
(* handleIncomingMessage is followed by its generation check.              *)
THEOREM NoStaleBroadcast == Spec => []OnlyCurrent
  BY InboundInvariant, InvImplies, PTL

(* Whatever interleaving of upserts, flushes and timers builds an album,   *)
(* it is a burst of one sender in one chat: albumBufferKey and the         *)
(* timestamps scheduleAlbumItem compares keep every buffer so, whichever   *)
(* of its pictures have none.                                              *)
THEOREM AlbumsAreBursts == Spec => []AlbumIsBurst
  BY InboundInvariant, InvImplies, PTL
-----------------------------------------------------------------------------
(* NoDuplicate counts.  A copy of message i that passed the duplicate      *)
(* filter is at one of three places until it is broadcast or dropped: among *)
(* the items of a task, at the head of a batch that is scheduled or waits   *)
(* for a flush, or in a buffer.  Each such place, and each broadcast, needs *)
(* a routing of i of its own that no known mapping made a duplicate.        *)
One(p) == IF p THEN 1 ELSE 0
InItems(i)  == {s \in Slots : i \in IdsOf(tasks[s].items)}
Waits(t, i) == (t.pc = "schedule" \/ t.then # "next") /\ Head(t.batch).id = i
Waiting(i)  == {s \in Slots : Waits(tasks[s], i)}
Buffered(i) == {b \in albums : i \in IdsOf(b.items)}

InTasks(i)  == Cardinality(InItems(i)) + Cardinality(Waiting(i))
InAlbums(i) == Cardinality(Buffered(i))
Counted == \A i \in Ids : sent[i] + InTasks(i) + InAlbums(i) <= due[i]

\* What was routed since the reset is known, under one alias of its sender or another.
Remembered ==
  \A i \in Ids, addr \in Addrs : <<i, addr>> \in routed =>
    \E a \in Aliases(mail[i].from, addr) : <<i, a>> \in seen

CountInv ==
  /\ IsFiniteSet(albums) /\ due \in [Ids -> Nat] /\ routed \subseteq Ids \X Addrs
  /\ Remembered /\ Counted

LEMMA SplitOne ==
  ASSUME NEW S, IsFiniteSet(S), NEW x
  PROVE  /\ Cardinality(S) \in Nat /\ Cardinality(S \ {x}) \in Nat
         /\ Cardinality(S) = Cardinality(S \ {x}) + One(x \in S)
  <1>1. IsFiniteSet(S \ {x}) /\ Cardinality(S) \in Nat
    BY FS_RemoveElement, FS_CardinalityType
  <1>2. Cardinality(S \ {x}) \in Nat
    BY <1>1, FS_CardinalityType
  <1>3. CASE x \in S
    BY <1>1, <1>2, <1>3, FS_RemoveElement DEF One
  <1>4. CASE x \notin S
    BY <1>1, <1>2, <1>4, FS_RemoveElement DEF One
  <1> QED
    BY <1>3, <1>4

LEMMA AddOne ==
  ASSUME NEW S, IsFiniteSet(S), NEW x
  PROVE  /\ IsFiniteSet(S \cup {x}) /\ Cardinality(S \cup {x}) \in Nat
         /\ Cardinality(S \cup {x}) <= Cardinality(S) + 1
  <1>1. IsFiniteSet(S \cup {x}) /\ Cardinality(S) \in Nat
    BY FS_AddElement, FS_CardinalityType
  <1>2. Cardinality(S \cup {x}) \in Nat
    BY <1>1, FS_CardinalityType
  <1>3. CASE x \in S
    BY <1>1, <1>2, <1>3, FS_AddElement
  <1>4. CASE x \notin S
    BY <1>1, <1>2, <1>4, FS_AddElement
  <1> QED
    BY <1>3, <1>4

LEMMA SlotsFinite == \A S : S \subseteq Slots => IsFiniteSet(S) /\ Cardinality(S) \in Nat
  <1>1. IsFiniteSet(Slots)
    BY InboundAssumption, FS_Interval DEF Slots
  <1> QED
    BY <1>1, FS_Subset, FS_CardinalityType

LEMMA AlbumsFinite ==
  ASSUME IsFiniteSet(albums), NEW i
  PROVE  IsFiniteSet(Buffered(i)) /\ InAlbums(i) \in Nat
  BY FS_Subset, FS_CardinalityType DEF Buffered, InAlbums

LEMMA InTasksNat == \A i : InTasks(i) \in Nat
  <1> SUFFICES ASSUME NEW i PROVE InTasks(i) \in Nat
    OBVIOUS
  <1>1. InItems(i) \subseteq Slots /\ Waiting(i) \subseteq Slots
    BY DEF InItems, Waiting
  <1> QED
    BY <1>1, SlotsFinite DEF InTasks

\* The places of a task.
Tokens(t, i) == One(i \in IdsOf(t.items)) + One(Waits(t, i))

LEMMA TokensNat == \A t, i : Tokens(t, i) \in Nat
  BY DEF Tokens, One

\* When one task moves, the count changes by what that task has.
LEMMA TaskMoves ==
  ASSUME tasks \in [Slots -> Tasks], NEW s \in Slots, NEW t, Becomes(s, t), NEW i
  PROVE  InTasks(i)' + Tokens(tasks[s], i) = InTasks(i) + Tokens(t, i)
  <1>1. tasks'[s] = t /\ \A r \in Slots \ {s} : tasks'[r] = tasks[r]
    BY DEF Becomes
  <1> DEFINE A == InItems(i)
             B == Waiting(i)
  <1>2. A \subseteq Slots /\ B \subseteq Slots /\ A' \subseteq Slots /\ B' \subseteq Slots
    BY DEF InItems, Waiting
  <1>3. A' \ {s} = A \ {s}
    BY <1>1 DEF InItems
  <1>4. B' \ {s} = B \ {s}
    BY <1>1 DEF Waiting
  <1>5. /\ s \in A <=> i \in IdsOf(tasks[s].items)
        /\ s \in A' <=> i \in IdsOf(t.items)
        /\ s \in B <=> Waits(tasks[s], i)
        /\ s \in B' <=> Waits(t, i)
    BY <1>1 DEF InItems, Waiting
  <1>6. InTasks(i) = Cardinality(A) + Cardinality(B) /\ InTasks(i)' = Cardinality(A') + Cardinality(B')
    BY DEF InTasks
  <1>10. Tokens(tasks[s], i) = One(s \in A) + One(s \in B)
    BY <1>5 DEF Tokens, One
  <1>11. Tokens(t, i) = One(s \in A') + One(s \in B')
    BY <1>5 DEF Tokens, One
  <1> HIDE DEF A, B
  <1>7. /\ Cardinality(A) = Cardinality(A \ {s}) + One(s \in A)
        /\ Cardinality(B) = Cardinality(B \ {s}) + One(s \in B)
        /\ Cardinality(A \ {s}) \in Nat /\ Cardinality(B \ {s}) \in Nat
    BY <1>2, SlotsFinite, SplitOne
  <1>8. /\ Cardinality(A') = Cardinality(A' \ {s}) + One(s \in A')
        /\ Cardinality(B') = Cardinality(B' \ {s}) + One(s \in B')
    BY <1>2, SlotsFinite, SplitOne
  <1> DEFINE w == One(s \in A)
             x == One(s \in B)
             y == One(s \in A')
             z == One(s \in B')
             m == Cardinality(A \ {s})
             n == Cardinality(B \ {s})
  <1>9. w \in Nat /\ x \in Nat /\ y \in Nat /\ z \in Nat /\ m \in Nat /\ n \in Nat
    BY <1>7 DEF One
  <1>12. InTasks(i) = (m + w) + (n + x) /\ Tokens(tasks[s], i) = w + x
    BY <1>6, <1>7, <1>10
  <1>13. InTasks(i)' = (m + y) + (n + z) /\ Tokens(t, i) = y + z
    BY <1>3, <1>4, <1>6, <1>8, <1>11
  <1> HIDE DEF w, x, y, z, m, n
  <1> QED
    BY <1>9, <1>12, <1>13

LEMMA IdsOfEmpty == IdsOf(<<>>) = {}
  BY DEF IdsOf, ToSet

LEMMA IdsOfOne == \A c : IdsOf(<<c>>) = {c.id}
  BY DEF IdsOf, ToSet

LEMMA IdsOfAppend ==
  ASSUME NEW S, NEW q \in Seq(S), NEW c
  PROVE  IdsOf(Append(q, c)) = IdsOf(q) \cup {c.id}
  <1> DEFINE r == Append(q, c)
  <1>1. Len(q) \in Nat /\ DOMAIN q = 1 .. Len(q) /\ r \in Seq(S \cup {c})
    BY LenProperties
  <1>2. /\ Len(r) = Len(q) + 1 /\ r[Len(q) + 1] = c
        /\ \A k \in 1 .. Len(q) : r[k] = q[k]
    BY <1>1
  <1>3. DOMAIN r = 1 .. Len(q) + 1
    BY <1>1, <1>2, LenProperties
  <1> HIDE DEF r
  <1>4. ToSet(r) = ToSet(q) \cup {c}
    <2>1. ASSUME NEW x \in ToSet(r) PROVE x \in ToSet(q) \cup {c}
      <3>1. PICK k \in 1 .. Len(q) + 1 : x = r[k]
        BY <1>3, <2>1 DEF ToSet
      <3>2. CASE k = Len(q) + 1
        BY <1>2, <3>1, <3>2
      <3>3. CASE k \in 1 .. Len(q)
        BY <1>1, <1>2, <3>1, <3>3 DEF ToSet
      <3> QED
        BY <1>1, <3>2, <3>3
    <2>2. ASSUME NEW x \in ToSet(q) PROVE x \in ToSet(r)
      <3>1. PICK k \in 1 .. Len(q) : x = q[k]
        BY <1>1, <2>2 DEF ToSet
      <3>2. r[k] = x /\ k \in 1 .. Len(q) + 1
        BY <1>1, <1>2, <3>1
      <3> QED
        BY <1>3, <3>2 DEF ToSet
    <2>3. c \in ToSet(r)
      <3>1. Len(q) + 1 \in 1 .. Len(q) + 1
        BY <1>1
      <3> QED
        BY <1>2, <1>3, <3>1 DEF ToSet
    <2> QED
      BY <2>1, <2>2, <2>3
  <1> QED
    BY <1>4 DEF IdsOf, r
-----------------------------------------------------------------------------
(* The places of each task that an action makes.                           *)
LEMMA NoTokens == \A i : Tokens(Idle, i) = 0
  BY IdleFields, IdsOfEmpty DEF Tokens, Waits, One

LEMMA OnwardTokens ==
  ASSUME NEW t \in Tasks, NEW i
  PROVE  Tokens(Onward(t), i) = 0
  <1>1. CASE Len(t.batch) <= 1
    BY <1>1, NoTokens DEF Onward
  <1>2. CASE ~(Len(t.batch) <= 1)
    <2> DEFINE u == [t EXCEPT !.batch = Tail(t.batch), !.pc = "route", !.items = <<>>,
                              !.then = "next"]
    <2>1. u.items = <<>> /\ u.pc = "route" /\ u.then = "next"
      BY DEF Tasks
    <2>2. Onward(t) = u
      BY <1>2 DEF Onward, Tasks
    <2> HIDE DEF u
    <2> QED
      BY <2>1, <2>2, IdsOfEmpty DEF Tokens, Waits, One
  <1> QED
    BY <1>1, <1>2

\* The task that Handles leaves.
Handling(t, items, then, key) ==
  [t EXCEPT !.pc = "handle", !.items = items, !.then = then, !.key = key]

LEMMA HandlesTokens ==
  ASSUME NEW t \in Tasks, NEW i, NEW items, NEW then, NEW key
  PROVE  Tokens(Handling(t, items, then, key), i)
           = One(i \in IdsOf(items)) + One(then # "next" /\ Head(t.batch).id = i)
  <1> DEFINE u == Handling(t, items, then, key)
  <1>1. u.pc = "handle" /\ u.items = items /\ u.batch = t.batch /\ u.then = then
    BY DEF Tasks, Handling
  <1> HIDE DEF u
  <1>2. Waits(u, i) <=> (then # "next" /\ Head(t.batch).id = i)
    BY <1>1 DEF Waits
  <1>3. Tokens(u, i) = One(i \in IdsOf(items)) + One(then # "next" /\ Head(t.batch).id = i)
    BY <1>1, <1>2 DEF Tokens, One
  <1> QED
    BY <1>3 DEF u

\* Elsewhere than at the schedule the place does not matter.
LEMMA GoesTokens ==
  ASSUME NEW t \in Tasks, NEW i, NEW pc, pc # "schedule", t.pc # "schedule"
  PROVE  Tokens([t EXCEPT !.pc = pc], i) = Tokens(t, i)
  <1> DEFINE u == [t EXCEPT !.pc = pc]
  <1>1. u.pc = pc /\ u.items = t.items /\ u.batch = t.batch /\ u.then = t.then
    BY DEF Tasks
  <1> HIDE DEF u
  <1>2. Tokens(u, i) = Tokens(t, i)
    BY <1>1 DEF Tokens, Waits, One
  <1> QED
    BY <1>2 DEF u
-----------------------------------------------------------------------------
(* How the count of a message changes with the buffers.                    *)
LEMMA FewerBuffers ==
  ASSUME IsFiniteSet(albums), albums' \subseteq albums
  PROVE  IsFiniteSet(albums') /\ \A i : InAlbums(i)' <= InAlbums(i) /\ InAlbums(i)' \in Nat
  <1>1. IsFiniteSet(albums')
    BY FS_Subset
  <1>2. ASSUME NEW i PROVE InAlbums(i)' <= InAlbums(i) /\ InAlbums(i)' \in Nat
    <2>1. Buffered(i)' \subseteq Buffered(i)
      BY DEF Buffered
    <2>2. IsFiniteSet(Buffered(i))
      BY AlbumsFinite
    <2>3. Cardinality(Buffered(i)') <= Cardinality(Buffered(i)) /\ IsFiniteSet(Buffered(i)')
      BY <2>1, <2>2, FS_Subset
    <2> QED
      BY <2>3, FS_CardinalityType DEF InAlbums
  <1> QED
    BY <1>1, <1>2

LEMMA BufferRemoved ==
  ASSUME IsFiniteSet(albums), NEW b \in albums, albums' = albums \ {b}, NEW i
  PROVE  InAlbums(i)' + One(i \in IdsOf(b.items)) = InAlbums(i)
  <1>1. Buffered(i)' = Buffered(i) \ {b}
    BY DEF Buffered
  <1>2. b \in Buffered(i) <=> i \in IdsOf(b.items)
    BY DEF Buffered
  <1>3. IsFiniteSet(Buffered(i))
    BY AlbumsFinite
  <1>4. Cardinality(Buffered(i)) = Cardinality(Buffered(i) \ {b}) + One(b \in Buffered(i))
    BY <1>3, SplitOne
  <1> QED
    BY <1>1, <1>2, <1>4 DEF InAlbums, One

LEMMA BufferAdded ==
  ASSUME IsFiniteSet(albums), NEW b, albums' \subseteq albums \cup {b}, NEW i
  PROVE  IsFiniteSet(albums') /\ InAlbums(i)' <= InAlbums(i) + One(i \in IdsOf(b.items))
  <1>1. IsFiniteSet(albums \cup {b}) /\ IsFiniteSet(Buffered(i))
    BY FS_AddElement, AlbumsFinite
  <1>2. IsFiniteSet(albums')
    BY <1>1, FS_Subset
  <1>3. CASE i \in IdsOf(b.items)
    <2>1. Buffered(i)' \subseteq Buffered(i) \cup {b}
      BY DEF Buffered
    <2>2. /\ IsFiniteSet(Buffered(i) \cup {b})
          /\ Cardinality(Buffered(i) \cup {b}) <= Cardinality(Buffered(i)) + 1
      BY <1>1, AddOne
    <2>3. Cardinality(Buffered(i)') <= Cardinality(Buffered(i) \cup {b})
      BY <2>1, <2>2, FS_Subset
    <2>4. /\ Cardinality(Buffered(i)') \in Nat /\ Cardinality(Buffered(i)) \in Nat
          /\ Cardinality(Buffered(i) \cup {b}) \in Nat
      BY <1>1, <2>1, <2>2, FS_Subset, FS_CardinalityType
    <2> QED
      BY <1>2, <1>3, <2>2, <2>3, <2>4 DEF InAlbums, One
  <1>4. CASE i \notin IdsOf(b.items)
    <2>1. Buffered(i)' \subseteq Buffered(i)
      BY <1>4 DEF Buffered
    <2>2. Cardinality(Buffered(i)') <= Cardinality(Buffered(i)) /\ Cardinality(Buffered(i)) \in Nat
      BY <1>1, <2>1, FS_Subset, FS_CardinalityType
    <2> QED
      BY <1>2, <1>4, <2>2 DEF InAlbums, One
  <1> QED
    BY <1>3, <1>4

\* Another picture joins a buffer.
LEMMA BufferGrown ==
  ASSUME IsFiniteSet(albums), NEW b \in albums, NEW d, NEW j,
         IdsOf(d.items) = IdsOf(b.items) \cup {j}, albums' = (albums \ {b}) \cup {d}, NEW i
  PROVE  IsFiniteSet(albums') /\ InAlbums(i)' <= InAlbums(i) + One(j = i)
  <1>1. IsFiniteSet(albums') /\ IsFiniteSet(Buffered(i))
    BY FS_RemoveElement, FS_AddElement, AlbumsFinite
  <1>2. /\ Cardinality(Buffered(i)) = Cardinality(Buffered(i) \ {b}) + One(b \in Buffered(i))
        /\ Cardinality(Buffered(i) \ {b}) \in Nat /\ IsFiniteSet(Buffered(i) \ {b})
    BY <1>1, SplitOne, FS_RemoveElement
  <1>3. CASE i \in IdsOf(d.items)
    <2>1. Buffered(i)' = (Buffered(i) \ {b}) \cup {d}
      BY <1>3 DEF Buffered
    <2>2. Cardinality(Buffered(i)') <= Cardinality(Buffered(i) \ {b}) + 1
      BY <1>2, <2>1, AddOne
    <2>3. b \in Buffered(i) \/ j = i
      BY <1>3 DEF Buffered
    <2>4. Cardinality(Buffered(i)') \in Nat
      BY <1>2, <2>1, FS_AddElement, FS_CardinalityType
    <2> QED
      BY <1>1, <1>2, <2>2, <2>3, <2>4 DEF InAlbums, One
  <1>4. CASE i \notin IdsOf(d.items)
    <2>1. Buffered(i)' = Buffered(i) \ {b}
      BY <1>4 DEF Buffered
    <2> QED
      BY <1>1, <1>2, <2>1 DEF InAlbums, One
  <1> QED
    BY <1>3, <1>4
-----------------------------------------------------------------------------
(* Every action keeps the count.                                           *)
LEMMA OneNat == \A p : One(p) \in Nat
  BY DEF One

\* A mapping learned leaves what is known known.
LEMMA StillRemembered ==
  ASSUME Remembered, UNCHANGED <<mail, seen, routed>>, mapped \subseteq mapped'
  PROVE  Remembered'
  BY DEF Remembered, Aliases, Addrs

LEMMA CountMoved ==
  ASSUME InboundInv, CountInv, Remembered', routed' \subseteq Ids \X Addrs, IsFiniteSet(albums'),
         sent' \in [Ids -> Nat], due' \in [Ids -> Nat],
         \A i \in Ids : sent'[i] + InTasks(i)' + InAlbums(i)' + due[i]
                          <= sent[i] + InTasks(i) + InAlbums(i) + due'[i]
  PROVE  CountInv'
  <1>1. ASSUME NEW i \in Ids PROVE sent'[i] + InTasks(i)' + InAlbums(i)' <= due'[i]
    <2>1. sent[i] + InTasks(i) + InAlbums(i) <= due[i]
      BY DEF CountInv, Counted
    <2>2. sent[i] \in Nat /\ due[i] \in Nat /\ sent'[i] \in Nat /\ due'[i] \in Nat
      BY DEF CountInv, InboundInv, ScalarsOK
    <2>3. InTasks(i) \in Nat /\ InAlbums(i) \in Nat
      BY InTasksNat, AlbumsFinite DEF CountInv
    <2>4. InTasks(i)' \in Nat
      BY SlotsFinite DEF InTasks, InItems, Waiting
    <2>5. InAlbums(i)' \in Nat
      BY FS_Subset, FS_CardinalityType DEF Buffered, InAlbums
    <2> DEFINE x == InTasks(i)
               y == InAlbums(i)
               u == InTasks(i)'
               v == InAlbums(i)'
    <2>6. sent'[i] + u + v + due[i] <= sent[i] + x + y + due'[i]
      OBVIOUS
    <2> HIDE DEF x, y, u, v
    <2>7. x \in Nat /\ y \in Nat /\ u \in Nat /\ v \in Nat
      BY <2>3, <2>4, <2>5 DEF x, y, u, v
    <2>8. sent[i] + x + y <= due[i]
      BY <2>1 DEF x, y
    <2>9. sent'[i] + u + v <= due'[i]
      BY <2>2, <2>6, <2>7, <2>8
    <2> QED
      BY <2>9 DEF u, v
  <1>2. Counted'
    BY <1>1 DEF Counted
  <1> QED
    BY <1>2 DEF CountInv

\* An action that routes nothing must not add places.
LEMMA CountKept ==
  ASSUME InboundInv, CountInv, UNCHANGED <<mail, seen, routed, due>>, mapped \subseteq mapped',
         IsFiniteSet(albums'), sent' \in [Ids -> Nat],
         \A i \in Ids : sent'[i] + InTasks(i)' + InAlbums(i)' <= sent[i] + InTasks(i) + InAlbums(i)
  PROVE  CountInv'
  <1>1. Remembered'
    BY StillRemembered DEF CountInv
  <1>2. ASSUME NEW i \in Ids
        PROVE  sent'[i] + InTasks(i)' + InAlbums(i)' + due[i]
                 <= sent[i] + InTasks(i) + InAlbums(i) + due'[i]
    <2>1. /\ sent'[i] \in Nat /\ sent[i] \in Nat /\ due[i] \in Nat /\ due'[i] = due[i]
          /\ InTasks(i) \in Nat /\ InAlbums(i) \in Nat
      BY InTasksNat, AlbumsFinite DEF CountInv, InboundInv, ScalarsOK
    <2>2. InTasks(i)' \in Nat
      BY SlotsFinite DEF InTasks, InItems, Waiting
    <2>3. InAlbums(i)' \in Nat
      BY FS_Subset, FS_CardinalityType DEF Buffered, InAlbums
    <2> QED
      BY <2>1, <2>2, <2>3
  <1> QED
    BY <1>1, <1>2, CountMoved DEF CountInv

\* A task that moves on, or to the head of its batch, gives up the places it had.
LEMMA OnwardCount ==
  ASSUME InboundInv, NEW s \in Slots, Becomes(s, Onward(tasks[s])), NEW i
  PROVE  InTasks(i)' + Tokens(tasks[s], i) = InTasks(i)
  <1>1. tasks \in [Slots -> Tasks] /\ tasks[s] \in Tasks
    BY DEF InboundInv, TasksOK
  <1>2. Tokens(Onward(tasks[s]), i) = 0
    BY <1>1, OnwardTokens
  <1>3. InTasks(i)' + Tokens(tasks[s], i) = InTasks(i) + Tokens(Onward(tasks[s]), i)
    BY <1>1, TaskMoves
  <1> QED
    BY <1>2, <1>3, InTasksNat

LEMMA HandlesCount ==
  ASSUME InboundInv, NEW s \in Slots, NEW items, NEW then, NEW key, Handles(s, items, then, key),
         NEW i
  PROVE  InTasks(i)' + Tokens(tasks[s], i)
           = InTasks(i) + (One(i \in IdsOf(items)) + One(then # "next" /\ Head(tasks[s].batch).id = i))
  <1>1. tasks \in [Slots -> Tasks] /\ tasks[s] \in Tasks
    BY DEF InboundInv, TasksOK
  <1> DEFINE u == Handling(tasks[s], items, then, key)
  <1>2. Becomes(s, u)
    BY DEF Handles, Handling
  <1>3. Tokens(u, i) = One(i \in IdsOf(items)) + One(then # "next" /\ Head(tasks[s].batch).id = i)
    BY <1>1, HandlesTokens
  <1> HIDE DEF u
  <1>4. InTasks(i)' + Tokens(tasks[s], i) = InTasks(i) + Tokens(u, i)
    BY <1>1, <1>2, TaskMoves
  <1> QED
    BY <1>3, <1>4

\* The end of a call frees the places of its items; the head of the batch that waited keeps
\* one: among the items, or in a new buffer.
LEMMA EndsCount ==
  ASSUME InboundInv, CountInv, NEW s \in Slots, Ends(s)
  PROVE  /\ IsFiniteSet(albums')
         /\ \A i : InTasks(i)' + InAlbums(i)' + One(i \in IdsOf(tasks[s].items))
                     <= InTasks(i) + InAlbums(i)
  <1> DEFINE t   == tasks[s]
             c   == Head(t.batch)
             b   == Buffer(t.gen, c, t.key, <<c>>, 0)
             old == {a \in albums : Key(a) = Key(b)}
  <1>1. IsFiniteSet(albums)
    BY DEF CountInv
  <1>2. ASSUME NEW i PROVE InTasks(i) \in Nat /\ InAlbums(i) \in Nat
    BY <1>1, InTasksNat, AlbumsFinite
  <1>3. ASSUME NEW i PROVE One(i \in IdsOf(t.items)) \in Nat /\ One(c.id = i) \in Nat
    BY DEF One
  <1>4. CASE Becomes(s, Onward(t)) /\ albums' = albums
    <2>1. ASSUME NEW i
          PROVE  InTasks(i)' + InAlbums(i)' + One(i \in IdsOf(t.items)) <= InTasks(i) + InAlbums(i)
      <3>1. InTasks(i)' + Tokens(t, i) = InTasks(i)
        BY <1>4, OnwardCount
      <3>2. Tokens(t, i) = One(i \in IdsOf(t.items)) + One(Waits(t, i))
        BY DEF Tokens
      <3>3. InAlbums(i)' = InAlbums(i)
        BY <1>4 DEF InAlbums, Buffered
      <3>4. InTasks(i)' \in Nat
        BY SlotsFinite DEF InTasks, InItems, Waiting
      <3>5. One(Waits(t, i)) \in Nat
        BY DEF One
      <3> QED
        BY <1>2, <1>3, <3>1, <3>2, <3>3, <3>4, <3>5
    <2> QED
      BY <1>1, <1>4, <2>1
  <1>5. CASE t.then = "handle" /\ Handles(s, <<c>>, "next", t.key) /\ albums' = albums
    <2>1. ASSUME NEW i
          PROVE  InTasks(i)' + InAlbums(i)' + One(i \in IdsOf(t.items)) <= InTasks(i) + InAlbums(i)
      <3>1. InTasks(i)' + Tokens(t, i)
              = InTasks(i) + (One(i \in IdsOf(<<c>>)) + One("next" # "next" /\ c.id = i))
        BY <1>5, HandlesCount
      <3>2. One(i \in IdsOf(<<c>>)) = One(c.id = i) /\ One("next" # "next" /\ c.id = i) = 0
        BY IdsOfOne DEF One
      <3>3. Tokens(t, i) = One(i \in IdsOf(t.items)) + One(c.id = i)
        BY <1>5 DEF Tokens, Waits, One
      <3>4. InAlbums(i)' = InAlbums(i)
        BY <1>5 DEF InAlbums, Buffered
      <3>5. InTasks(i)' \in Nat
        BY SlotsFinite DEF InTasks, InItems, Waiting
      <3> QED
        BY <1>2, <1>3, <3>1, <3>2, <3>3, <3>4, <3>5
    <2> QED
      BY <1>1, <1>5, <2>1
  <1>6. CASE t.then = "buffer" /\ Becomes(s, Onward(t)) /\ albums' = (albums \ old) \cup {b}
    <2>1. albums' \subseteq albums \cup {b} /\ b.items = <<c>>
      BY <1>6 DEF Buffer
    <2> HIDE DEF b, old
    <2>2. IsFiniteSet(albums') /\ \A i : InAlbums(i)' <= InAlbums(i) + One(i \in IdsOf(b.items))
      BY <1>1, <2>1, BufferAdded
    <2>3. ASSUME NEW i
          PROVE  InTasks(i)' + InAlbums(i)' + One(i \in IdsOf(t.items)) <= InTasks(i) + InAlbums(i)
      <3>1. InTasks(i)' + Tokens(t, i) = InTasks(i)
        BY <1>6, OnwardCount
      <3>2. One(i \in IdsOf(b.items)) = One(c.id = i)
        BY <2>1, IdsOfOne DEF One
      <3>3. Tokens(t, i) = One(i \in IdsOf(t.items)) + One(c.id = i)
        BY <1>6 DEF Tokens, Waits, One
      <3>4. InAlbums(i)' <= InAlbums(i) + One(c.id = i)
        BY <2>2, <3>2
      <3>5. InTasks(i)' \in Nat
        BY SlotsFinite DEF InTasks, InItems, Waiting
      <3>6. InAlbums(i)' \in Nat
        BY <2>2, FS_Subset, FS_CardinalityType DEF InAlbums, Buffered
      <3> QED
        BY <1>2, <1>3, <3>1, <3>3, <3>4, <3>5, <3>6
    <2> QED
      BY <2>2, <2>3
  <1> QED
    BY <1>4, <1>5, <1>6 DEF Ends

LEMMA NatPrimes ==
  ASSUME NEW i
  PROVE  /\ InTasks(i)' \in Nat
         /\ IsFiniteSet(albums') => InAlbums(i)' \in Nat
  <1>1. InTasks(i)' \in Nat
    BY SlotsFinite DEF InTasks, InItems, Waiting
  <1>2. IsFiniteSet(albums') => InAlbums(i)' \in Nat
    BY FS_Subset, FS_CardinalityType DEF Buffered, InAlbums
  <1> QED
    BY <1>1, <1>2

\* A step of handleIncomingMessage other than the broadcast.
LEMMA CallCounts ==
  ASSUME InboundInv, CountInv, NEW s \in Slots, tasks[s].pc # "schedule",
         UNCHANGED <<seen, sent, cacheVars>>, mapped \subseteq mapped',
         \/ Ends(s)
         \/ \E pc : pc # "schedule" /\ Stays(s, pc)
  PROVE  CountInv'
  <1>1. /\ UNCHANGED <<mail, seen, routed, due, sent>> /\ sent \in [Ids -> Nat]
        /\ IsFiniteSet(albums) /\ tasks \in [Slots -> Tasks] /\ tasks[s] \in Tasks
    BY DEF InboundInv, CountInv, ScalarsOK, TasksOK, cacheVars
  <1>2. IsFiniteSet(albums') /\ \A i : InTasks(i)' + InAlbums(i)' <= InTasks(i) + InAlbums(i)
    <2>1. CASE Ends(s)
      <3>1. /\ IsFiniteSet(albums')
            /\ \A i : InTasks(i)' + InAlbums(i)' + One(i \in IdsOf(tasks[s].items))
                        <= InTasks(i) + InAlbums(i)
        BY <2>1, EndsCount
      <3>2. ASSUME NEW i PROVE InTasks(i)' + InAlbums(i)' <= InTasks(i) + InAlbums(i)
        <4>1. One(i \in IdsOf(tasks[s].items)) \in Nat
          BY DEF One
        <4>2. /\ InTasks(i)' \in Nat /\ InAlbums(i)' \in Nat
              /\ InTasks(i) \in Nat /\ InAlbums(i) \in Nat
          BY <1>1, <3>1, NatPrimes, InTasksNat, AlbumsFinite
        <4> QED
          BY <3>1, <4>1, <4>2
      <3> QED
        BY <3>1, <3>2
    <2>2. ASSUME NEW pc, pc # "schedule", Stays(s, pc)
          PROVE  IsFiniteSet(albums') /\ \A i : InTasks(i)' + InAlbums(i)' <= InTasks(i) + InAlbums(i)
      <3> DEFINE u == [tasks[s] EXCEPT !.pc = pc]
      <3>1. Becomes(s, u) /\ albums' = albums
        BY <2>2 DEF Stays, Goes
      <3>2. ASSUME NEW i PROVE InTasks(i)' + InAlbums(i)' <= InTasks(i) + InAlbums(i)
        <4>1. Tokens(u, i) = Tokens(tasks[s], i)
          BY <1>1, <2>2, GoesTokens
        <4> HIDE DEF u
        <4>2. InTasks(i)' + Tokens(tasks[s], i) = InTasks(i) + Tokens(u, i)
          BY <1>1, <3>1, TaskMoves
        <4>3. InAlbums(i)' = InAlbums(i)
          BY <3>1 DEF InAlbums, Buffered
        <4>4. /\ InTasks(i)' \in Nat /\ InTasks(i) \in Nat /\ InAlbums(i) \in Nat
              /\ Tokens(u, i) \in Nat
          BY <1>1, NatPrimes, InTasksNat, AlbumsFinite, TokensNat
        <4> QED
          BY <4>1, <4>2, <4>3, <4>4
      <3> QED
        BY <1>1, <3>1, <3>2
    <2> QED
      BY <2>1, <2>2
  <1>3. ASSUME NEW i \in Ids
        PROVE  sent'[i] + InTasks(i)' + InAlbums(i)' <= sent[i] + InTasks(i) + InAlbums(i)
    <2>1. /\ InTasks(i)' \in Nat /\ InAlbums(i)' \in Nat /\ InTasks(i) \in Nat
          /\ InAlbums(i) \in Nat /\ sent[i] \in Nat /\ sent'[i] = sent[i]
      BY <1>1, <1>2, NatPrimes, InTasksNat, AlbumsFinite
    <2> QED
      BY <1>2, <2>1
  <1> QED
    BY <1>1, <1>2, <1>3, CountKept

LEMMA CallsCounted ==
  ASSUME InboundInv, CountInv, NEW s \in Slots,
         Handle(s) \/ Refreshed(s) \/ LookedUp(s) \/ Downloaded(s) \/ GroupRead(s)
  PROVE  CountInv'
  <1>1. tasks[s].pc # "schedule" /\ UNCHANGED <<seen, sent, cacheVars>> /\ mapped \subseteq mapped'
    BY DEF Handle, Refreshed, LookedUp, Downloaded, GroupRead, Now
  <1>2. \A pc \in {Accepted(s), Described(s), "refresh", "lookup", "send"} : pc # "schedule"
    BY Places
  <1>3. \/ Ends(s)
        \/ \E pc \in {Accepted(s), Described(s), "refresh", "lookup", "send"} : Stays(s, pc)
    BY DEF Handle, Refreshed, LookedUp, Downloaded, GroupRead
  <1> QED
    BY <1>1, <1>2, <1>3, CallCounts

\* The broadcast takes the places of the items.
LEMMA SendCounted ==
  ASSUME InboundInv, CountInv, NEW s \in Slots, Send(s)
  PROVE  CountInv'
  <1>1. /\ UNCHANGED <<mail, seen, routed, due, mapped>> /\ sent \in [Ids -> Nat]
        /\ sent' \in [Ids -> Nat] /\ IsFiniteSet(albums)
    BY DEF InboundInv, CountInv, ScalarsOK, Send, cacheVars
  <1>2. /\ IsFiniteSet(albums')
        /\ \A i : InTasks(i)' + InAlbums(i)' + One(i \in IdsOf(tasks[s].items))
                    <= InTasks(i) + InAlbums(i)
    BY EndsCount DEF Send
  <1>3. ASSUME NEW i \in Ids
        PROVE  sent'[i] + InTasks(i)' + InAlbums(i)' <= sent[i] + InTasks(i) + InAlbums(i)
    <2> DEFINE o == One(i \in IdsOf(tasks[s].items))
    <2>1. sent'[i] = sent[i] + o
      BY DEF Send, One
    <2>2. o \in Nat
      BY DEF One
    <2>3. InTasks(i)' + InAlbums(i)' + o <= InTasks(i) + InAlbums(i)
      BY <1>2
    <2>4. /\ InTasks(i)' \in Nat /\ InAlbums(i)' \in Nat /\ InTasks(i) \in Nat
          /\ InAlbums(i) \in Nat /\ sent[i] \in Nat
      BY <1>1, <1>2, NatPrimes, InTasksNat, AlbumsFinite
    <2> HIDE DEF o
    <2> QED
      BY <2>1, <2>2, <2>3, <2>4
  <1> QED
    BY <1>1, <1>2, <1>3, CountKept

\* A step of one task that takes as many places as it gives up.
LEMMA PlacesCount ==
  ASSUME InboundInv, CountInv, NEW s \in Slots, NEW t, Becomes(s, t), IsFiniteSet(albums'),
         \A i : InAlbums(i)' + Tokens(t, i) <= InAlbums(i) + Tokens(tasks[s], i),
         UNCHANGED <<mail, seen, routed, due, sent>>, mapped \subseteq mapped'
  PROVE  CountInv'
  <1>1. tasks \in [Slots -> Tasks] /\ sent \in [Ids -> Nat] /\ IsFiniteSet(albums)
    BY DEF InboundInv, CountInv, ScalarsOK, TasksOK
  <1>2. ASSUME NEW i \in Ids
        PROVE  sent'[i] + InTasks(i)' + InAlbums(i)' <= sent[i] + InTasks(i) + InAlbums(i)
    <2>1. InTasks(i)' + Tokens(tasks[s], i) = InTasks(i) + Tokens(t, i)
      BY <1>1, TaskMoves
    <2>2. InAlbums(i)' + Tokens(t, i) <= InAlbums(i) + Tokens(tasks[s], i)
      OBVIOUS
    <2>3. /\ InTasks(i)' \in Nat /\ InTasks(i) \in Nat /\ InAlbums(i) \in Nat
          /\ Tokens(t, i) \in Nat /\ Tokens(tasks[s], i) \in Nat /\ InAlbums(i)' \in Nat
          /\ sent[i] \in Nat /\ sent'[i] = sent[i]
      BY <1>1, NatPrimes, InTasksNat, AlbumsFinite, TokensNat
    <2> QED
      BY <2>1, <2>2, <2>3
  <1> QED
    BY <1>1, <1>2, CountKept

LEMMA TaskCounts ==
  ASSUME InboundInv, CountInv, NEW s \in Slots, NEW t, Becomes(s, t),
         \A i : Tokens(t, i) <= Tokens(tasks[s], i),
         albums' = albums, UNCHANGED <<mail, seen, routed, due, sent>>, mapped \subseteq mapped'
  PROVE  CountInv'
  <1>1. IsFiniteSet(albums')
    BY DEF CountInv
  <1>2. ASSUME NEW i PROVE InAlbums(i)' + Tokens(t, i) <= InAlbums(i) + Tokens(tasks[s], i)
    <2>1. InAlbums(i)' = InAlbums(i)
      BY DEF InAlbums, Buffered
    <2>2. InAlbums(i) \in Nat /\ Tokens(t, i) \in Nat /\ Tokens(tasks[s], i) \in Nat
      BY AlbumsFinite, TokensNat DEF CountInv
    <2> QED
      BY <2>1, <2>2
  <1> QED
    BY <1>1, <1>2, PlacesCount

LEMMA RouteStaleCounted ==
  ASSUME InboundInv, CountInv, NEW s \in Slots, RouteStale(s)
  PROVE  CountInv'
  <1>1. /\ Becomes(s, Idle) /\ albums' = albums
        /\ UNCHANGED <<mail, seen, routed, due, sent, mapped>>
    BY DEF RouteStale, cacheVars
  <1>2. \A i : Tokens(Idle, i) <= Tokens(tasks[s], i)
    BY NoTokens, TokensNat
  <1> QED
    BY <1>1, <1>2, TaskCounts

\* Learning a mapping from a key, and a known message.
LEMMA AltCounted ==
  ASSUME InboundInv, CountInv, NEW s \in Slots, Now(s, "route"), NEW c, c = Head(tasks[s].batch),
         Becomes(s, [tasks[s] EXCEPT !.batch = <<[c EXCEPT !.alt = FALSE]>> \o Tail(@)]),
         albums' = albums, UNCHANGED <<mail, seen, routed, due, sent>>, mapped \subseteq mapped'
  PROVE  CountInv'
  <1> DEFINE t == tasks[s]
             w == <<[c EXCEPT !.alt = FALSE]>> \o Tail(t.batch)
             v == [t EXCEPT !.batch = w]
  <1>1. /\ t \in Tasks /\ t.batch # <<>> /\ t.batch \in Seq(Copies) /\ c \in Copies
        /\ t.pc = "route"
    BY BatchThere DEF InboundInv, TasksOK, Now
  <1>2. Head(w).id = c.id
    <2>1. Tail(t.batch) \in Seq(Copies)
      BY <1>1, HeadTailProperties
    <2> DEFINE d == [c EXCEPT !.alt = FALSE]
    <2>2. d \in Copies /\ d.id = c.id
      BY <1>1 DEF Copies
    <2> HIDE DEF d
    <2>3. Head(<<d>> \o Tail(t.batch)) = d
      BY <2>1, <2>2
    <2> QED
      BY <2>2, <2>3 DEF d
  <1> HIDE DEF w
  <1>3. v.batch = w /\ v.items = t.items /\ v.pc = t.pc /\ v.then = t.then
    BY <1>1 DEF Tasks
  <1>4. Becomes(s, v)
    BY DEF w
  <1> HIDE DEF v
  <1>5. ASSUME NEW i PROVE Tokens(v, i) <= Tokens(t, i)
    <2>1. Tokens(v, i) = Tokens(t, i)
      BY <1>2, <1>3 DEF Tokens, Waits, One
    <2> QED
      BY <2>1, TokensNat
  <1> QED
    BY <1>4, <1>5, TaskCounts

\* The filter: a message it lets pass has a routing of its own, and a place.
LEMMA RouteCounted ==
  ASSUME InboundInv, CountInv, NEW s \in Slots, Route(s)
  PROVE  CountInv'
  <1> DEFINE t == tasks[s]
             c == Head(t.batch)
             u == Message(c).from
             new == ~\E a \in Aliases(u, c.addr) : <<c.id, a>> \in routed
  <1>1. /\ t \in Tasks /\ c \in Copies /\ t.pc = "route" /\ tasks \in [Slots -> Tasks]
        /\ sent \in [Ids -> Nat] /\ due \in [Ids -> Nat] /\ IsFiniteSet(albums)
        /\ routed \subseteq Ids \X Addrs /\ mail \in Mails
    BY BatchThere DEF InboundInv, CountInv, ScalarsOK, TasksOK, Route, Now
  <1>2. /\ c.id \in Ids /\ c.addr \in Addrs /\ u = mail[c.id].from
        /\ Canonical(u, c.addr) \in Aliases(u, c.addr)
    BY <1>1, MessageType, CanonicalType DEF Message
  <1>3. albums' = albums /\ UNCHANGED <<mail, sent>>
    BY DEF Route, historyVars
  <1>4. CASE c.alt
    <2>1. mapped \subseteq mapped' /\ UNCHANGED <<seen, routed, due>>
      BY <1>4 DEF Route
    <2>2. Becomes(s, [tasks[s] EXCEPT !.batch = <<[c EXCEPT !.alt = FALSE]>> \o Tail(@)])
      BY <1>4 DEF Route
    <2>3. Now(s, "route")
      BY DEF Route
    <2> QED
      BY <1>3, <2>1, <2>2, <2>3, AltCounted
  <1>5. CASE ~c.alt
    <2>1. /\ routed' = routed \cup {<<c.id, c.addr>>} /\ mapped' = mapped
          /\ due' = IF new THEN [due EXCEPT ![c.id] = @ + 1] ELSE due
      BY <1>5 DEF Route
    <2>2. routed' \subseteq Ids \X Addrs
      BY <1>1, <1>2, <2>1
    <2>3. due' \in [Ids -> Nat] /\ \A i \in Ids : due'[i] = due[i] + One(new /\ c.id = i)
      <3> DEFINE j == c.id
      <3> HIDE DEF new
      <3>1. j \in Ids /\ due' = IF new THEN [due EXCEPT ![j] = @ + 1] ELSE due
        BY <1>2, <2>1
      <3> HIDE DEF j
      <3>2. CASE new
        <4>1. due' = [due EXCEPT ![j] = @ + 1]
          BY <3>1, <3>2
        <4>2. due' \in [Ids -> Nat] /\ \A i \in Ids : due'[i] = due[i] + One(j = i)
          BY <1>1, <3>1, <4>1 DEF One
        <4>3. \A i : One(new /\ j = i) = One(j = i)
          BY <3>2 DEF One
        <4> QED
          BY <4>2, <4>3 DEF j
      <3>3. CASE ~new
        <4>1. \A i : One(new /\ j = i) = 0
          BY <3>3 DEF One
        <4> QED
          BY <1>1, <3>1, <3>3, <4>1 DEF j
      <3> QED
        BY <3>2, <3>3
    <2> HIDE DEF new
    <2>4. ASSUME NEW x, Becomes(s, x), \A i \in Ids : Tokens(x, i) <= Tokens(t, i) + One(new /\ c.id = i),
                 Remembered'
          PROVE  CountInv'
      <3>1. ASSUME NEW i \in Ids
            PROVE  sent'[i] + InTasks(i)' + InAlbums(i)' + due[i]
                     <= sent[i] + InTasks(i) + InAlbums(i) + due'[i]
        <4>1. InTasks(i)' + Tokens(t, i) = InTasks(i) + Tokens(x, i)
          BY <1>1, <2>4, TaskMoves
        <4>2. InAlbums(i)' = InAlbums(i)
          BY <1>3 DEF InAlbums, Buffered
        <4>3. /\ InTasks(i)' \in Nat /\ InTasks(i) \in Nat /\ InAlbums(i) \in Nat
              /\ Tokens(x, i) \in Nat /\ Tokens(t, i) \in Nat
              /\ sent[i] \in Nat /\ sent'[i] = sent[i] /\ due[i] \in Nat
          BY <1>1, <1>3, NatPrimes, InTasksNat, AlbumsFinite, TokensNat
        <4> DEFINE o == One(new /\ c.id = i)
        <4>4. o \in Nat /\ due'[i] = due[i] + o /\ Tokens(x, i) <= Tokens(t, i) + o
          BY <2>3, <2>4 DEF One
        <4> HIDE DEF o
        <4> QED
          BY <4>1, <4>2, <4>3, <4>4
      <3> QED
        BY <1>1, <1>3, <2>2, <2>3, <2>4, <3>1, CountMoved
    <2>5. CASE Known(c)
      <3>1. Becomes(s, Onward(t)) /\ seen' = seen
        BY <1>5, <2>5 DEF Route
      <3>2. ASSUME NEW i \in Ids PROVE Tokens(Onward(t), i) <= Tokens(t, i) + One(new /\ c.id = i)
        <4>1. One(new /\ c.id = i) \in Nat
          BY DEF One
        <4> QED
          BY <1>1, <4>1, OnwardTokens, TokensNat
      <3>3. Remembered'
        BY <1>2, <1>3, <2>1, <2>5, <3>1 DEF CountInv, Remembered, Known, Aliases
      <3> QED
        BY <2>4, <3>1, <3>2, <3>3
    <2>6. CASE ~Known(c)
      <3> DEFINE x == [t EXCEPT !.pc = "schedule"]
      <3>1. Becomes(s, x) /\ seen' = seen \cup {<<c.id, Canonical(u, c.addr)>>}
        BY <1>5, <2>6 DEF Route, Goes
      <3>2. new
        <4> SUFFICES ASSUME NEW a \in Aliases(u, c.addr), <<c.id, a>> \in routed PROVE FALSE
          BY DEF new
        <4>1. a \in Addrs /\ Aliases(u, a) = Aliases(u, c.addr)
          BY <1>2 DEF Aliases, Addrs
        <4>2. \E e \in Aliases(u, a) : <<c.id, e>> \in seen
          BY <1>2, <4>1 DEF CountInv, Remembered
        <4> QED
          BY <2>6, <4>1, <4>2 DEF Known
      <3>3. Remembered'
        BY <1>2, <1>3, <2>1, <3>1 DEF CountInv, Remembered, Aliases
      <3>4. x.pc = "schedule" /\ x.items = t.items /\ x.batch = t.batch
        BY <1>1 DEF Tasks
      <3> HIDE DEF x
      <3>5. ASSUME NEW i \in Ids PROVE Tokens(x, i) <= Tokens(t, i) + One(new /\ c.id = i)
        <4>1. Tokens(x, i) = One(i \in IdsOf(t.items)) + One(c.id = i)
          BY <3>4 DEF Tokens, Waits, One
        <4>2. Tokens(t, i) = One(i \in IdsOf(t.items)) + One(Waits(t, i))
          BY DEF Tokens
        <4>3. One(new /\ c.id = i) = One(c.id = i)
          BY <3>2 DEF One
        <4>4. One(i \in IdsOf(t.items)) \in Nat /\ One(Waits(t, i)) \in Nat /\ One(c.id = i) \in Nat
          BY DEF One
        <4> QED
          BY <4>1, <4>2, <4>3, <4>4
      <3> QED
        BY <2>4, <3>1, <3>3, <3>5
    <2> QED
      BY <2>5, <2>6
  <1> QED
    BY <1>4, <1>5

\* The head of the batch is handled, put in a buffer, or waits while a buffer is flushed.
LEMMA ScheduleCounted ==
  ASSUME InboundInv, CountInv, NEW s \in Slots, Schedule(s)
  PROVE  CountInv'
  <1> DEFINE t == tasks[s]
             c == Head(t.batch)
             pending == Pending(t.gen, c)
             addr == Canonical(Message(c).from, c.addr)
  <1>1. /\ t.pc = "schedule" /\ t \in Tasks /\ c \in Copies /\ IsFiniteSet(albums)
        /\ UNCHANGED <<mail, seen, routed, due, sent, mapped>> /\ AlbumsOK
    BY BatchThere DEF InboundInv, CountInv, TasksOK, Schedule, Now, historyVars, cacheVars
  <1>2. ASSUME NEW i
        PROVE  /\ Tokens(t, i) = One(i \in IdsOf(t.items)) + One(c.id = i)
               /\ One(i \in IdsOf(t.items)) \in Nat /\ One(c.id = i) \in Nat
               /\ InAlbums(i) \in Nat /\ (IsFiniteSet(albums') => InAlbums(i)' \in Nat)
               /\ Tokens(Onward(t), i) = 0
    BY <1>1, AlbumsFinite, NatPrimes, OnwardTokens DEF Tokens, Waits, One
  <1>3. \A b \in pending : b \in albums
    BY DEF Pending
  <1>4. CASE albums' = albums \cup {Buffer(t.gen, c, addr, <<c>>, 0)} /\ Becomes(s, Onward(t))
    <2> DEFINE b == Buffer(t.gen, c, addr, <<c>>, 0)
    <2>1. b.items = <<c>> /\ albums' \subseteq albums \cup {b}
      BY <1>4 DEF Buffer
    <2> HIDE DEF b
    <2>2. IsFiniteSet(albums') /\ \A i : InAlbums(i)' <= InAlbums(i) + One(i \in IdsOf(b.items))
      BY <1>1, <2>1, BufferAdded
    <2>3. ASSUME NEW i PROVE InAlbums(i)' + Tokens(Onward(t), i) <= InAlbums(i) + Tokens(t, i)
      <3>1. One(i \in IdsOf(b.items)) = One(c.id = i)
        BY <2>1, IdsOfOne DEF One
      <3>2. InAlbums(i)' <= InAlbums(i) + One(c.id = i) /\ InAlbums(i)' \in Nat
        BY <1>2, <2>2, <3>1
      <3> QED
        BY <1>2, <3>2
    <2> QED
      BY <1>1, <1>4, <2>2, <2>3, PlacesCount
  <1>5. ASSUME NEW b \in pending, Becomes(s, Onward(t)),
               albums' = (albums \ {b}) \cup {Buffer(b.gen, c, b.addr, Append(b.items, c), b.last)}
        PROVE  CountInv'
    <2> DEFINE d == Buffer(b.gen, c, b.addr, Append(b.items, c), b.last)
    <2>1. d.items = Append(b.items, c)
      BY DEF Buffer
    <2>2. b \in albums /\ b.items \in Seq(Copies)
      BY <1>1, <1>3 DEF AlbumsOK, BufferOK, Buffers
    <2> HIDE DEF d
    <2>3. IdsOf(d.items) = IdsOf(b.items) \cup {c.id}
      BY <2>1, <2>2, IdsOfAppend
    <2>4. albums' = (albums \ {b}) \cup {d}
      BY <1>5 DEF d
    <2>5. IsFiniteSet(albums') /\ \A i : InAlbums(i)' <= InAlbums(i) + One(c.id = i)
      BY <1>1, <2>2, <2>3, <2>4, BufferGrown
    <2>6. ASSUME NEW i PROVE InAlbums(i)' + Tokens(Onward(t), i) <= InAlbums(i) + Tokens(t, i)
      <3>1. InAlbums(i)' <= InAlbums(i) + One(c.id = i) /\ InAlbums(i)' \in Nat
        BY <1>2, <2>5
      <3> QED
        BY <1>2, <3>1
    <2> QED
      BY <1>1, <1>5, <2>5, <2>6, PlacesCount
  <1>6. ASSUME NEW b \in pending, NEW then, Flushed(s, b, then)
        PROVE  CountInv'
    <2> DEFINE u == Handling(t, b.items, then, b.addr)
    <2>1. Becomes(s, u) /\ albums' = albums \ {b} /\ b \in albums
      BY <1>3, <1>6 DEF Flushed, Handles, Handling
    <2>2. \A i : Tokens(u, i) = One(i \in IdsOf(b.items)) + One(then # "next" /\ c.id = i)
      BY <1>1, HandlesTokens
    <2> HIDE DEF u
    <2>3. IsFiniteSet(albums')
      BY <1>1, <2>1, FS_RemoveElement
    <2>4. ASSUME NEW i PROVE InAlbums(i)' + Tokens(u, i) <= InAlbums(i) + Tokens(t, i)
      <3>1. InAlbums(i)' + One(i \in IdsOf(b.items)) = InAlbums(i)
        BY <1>1, <2>1, BufferRemoved
      <3>2. /\ One(then # "next" /\ c.id = i) <= One(c.id = i)
            /\ One(then # "next" /\ c.id = i) \in Nat /\ One(i \in IdsOf(b.items)) \in Nat
        BY DEF One
      <3>3. InAlbums(i)' \in Nat
        BY <1>2, <2>3
      <3>4. Tokens(u, i) = One(i \in IdsOf(b.items)) + One(then # "next" /\ c.id = i)
        BY <2>2
      <3> QED
        BY <1>2, <3>1, <3>2, <3>3, <3>4
    <2> QED
      BY <1>1, <2>1, <2>3, <2>4, PlacesCount
  <1>7. CASE Handles(s, <<c>>, "next", addr) /\ albums' = albums
    <2> DEFINE u == Handling(t, <<c>>, "next", addr)
    <2>1. Becomes(s, u)
      BY <1>7 DEF Handles, Handling
    <2>2. \A i : Tokens(u, i) = One(i \in IdsOf(<<c>>)) + One("next" # "next" /\ c.id = i)
      BY <1>1, HandlesTokens
    <2> HIDE DEF u
    <2>3. ASSUME NEW i PROVE Tokens(u, i) <= Tokens(t, i)
      <3>1. One(i \in IdsOf(<<c>>)) = One(c.id = i) /\ One("next" # "next" /\ c.id = i) = 0
        BY IdsOfOne DEF One
      <3>2. Tokens(u, i) = One(c.id = i)
        BY <1>2, <2>2, <3>1
      <3> QED
        BY <1>2, <3>2
    <2> QED
      BY <1>1, <1>7, <2>1, <2>3, TaskCounts
  <1> HIDE DEF pending, addr
  <1> QED
    BY <1>4, <1>5, <1>6, <1>7 DEF Schedule, pending, addr

LEMMA StartsCount ==
  ASSUME InboundInv, CountInv, NEW t, Starts(t), IsFiniteSet(albums'),
         \A i : InAlbums(i)' + Tokens(t, i) <= InAlbums(i),
         UNCHANGED <<mail, seen, routed, due, sent, mapped>>
  PROVE  CountInv'
  <1>1. PICK s \in Slots : Becomes(s, t)
    BY DEF Starts, Free
  <1>2. ASSUME NEW i PROVE InAlbums(i)' + Tokens(t, i) <= InAlbums(i) + Tokens(tasks[s], i)
    <2>1. /\ InAlbums(i) \in Nat /\ InAlbums(i)' \in Nat /\ Tokens(t, i) \in Nat
          /\ Tokens(tasks[s], i) \in Nat
      BY AlbumsFinite, NatPrimes, TokensNat DEF CountInv
    <2> QED
      BY <2>1
  <1> QED
    BY <1>1, <1>2, PlacesCount

LEMMA UpsertCounted ==
  ASSUME InboundInv, CountInv, NEW batch, Upsert(batch)
  PROVE  CountInv'
  <1> DEFINE t == [Idle EXCEPT !.gen = gen, !.batch = batch, !.pc = "route"]
  <1>1. t.items = <<>> /\ t.pc = "route" /\ t.then = "next"
    BY IdleFields
  <1>2. Starts(t)
    BY DEF Upsert
  <1> HIDE DEF t
  <1>3. albums' = albums /\ UNCHANGED <<mail, seen, routed, due, sent, mapped>>
    BY DEF Upsert, historyVars
  <1>4. \A i : Tokens(t, i) = 0
    BY <1>1, IdsOfEmpty DEF Tokens, Waits, One
  <1>5. ASSUME NEW i PROVE InAlbums(i)' + Tokens(t, i) <= InAlbums(i)
    <2>1. InAlbums(i)' = InAlbums(i)
      BY <1>3 DEF InAlbums, Buffered
    <2> QED
      BY <1>4, <2>1, AlbumsFinite DEF CountInv
  <1> QED
    BY <1>2, <1>3, <1>5, StartsCount DEF CountInv

\* The items of a flushed buffer move to the task of its timer.
LEMMA FlushCounted ==
  ASSUME InboundInv, CountInv, NEW b \in albums, Flush(b),
         UNCHANGED <<gen, mapped, seen, sent, cacheVars>>
  PROVE  CountInv'
  <1>1. /\ albums' = albums \ {b} /\ IsFiniteSet(albums) /\ sent \in [Ids -> Nat]
        /\ UNCHANGED <<mail, seen, routed, due, sent, mapped>>
    BY DEF InboundInv, CountInv, ScalarsOK, Flush, cacheVars
  <1>2. IsFiniteSet(albums')
    BY <1>1, FS_RemoveElement
  <1>3. \A i : InAlbums(i)' + One(i \in IdsOf(b.items)) = InAlbums(i)
    BY <1>1, BufferRemoved
  <1>4. CASE tasks' = tasks
    <2>1. ASSUME NEW i \in Ids
          PROVE  sent'[i] + InTasks(i)' + InAlbums(i)' <= sent[i] + InTasks(i) + InAlbums(i)
      <3>1. InTasks(i)' = InTasks(i)
        BY <1>4 DEF InTasks, InItems, Waiting
      <3>2. InAlbums(i)' <= InAlbums(i)
        BY <1>1, FewerBuffers
      <3>3. /\ InTasks(i) \in Nat /\ InAlbums(i) \in Nat /\ InAlbums(i)' \in Nat
            /\ sent[i] \in Nat /\ sent'[i] = sent[i]
        BY <1>1, <1>2, NatPrimes, InTasksNat, AlbumsFinite
      <3> QED
        BY <3>1, <3>2, <3>3
    <2> QED
      BY <1>1, <1>2, <2>1, CountKept
  <1>5. CASE Starts([Idle EXCEPT !.gen = gen, !.items = b.items, !.pc = "handle"])
    <2> DEFINE t == [Idle EXCEPT !.gen = gen, !.items = b.items, !.pc = "handle"]
    <2>1. t.items = b.items /\ t.pc = "handle" /\ t.then = "next"
      BY IdleFields
    <2> HIDE DEF t
    <2>2. ASSUME NEW i PROVE InAlbums(i)' + Tokens(t, i) <= InAlbums(i)
      <3>1. Tokens(t, i) = One(i \in IdsOf(b.items)) + 0
        BY <2>1 DEF Tokens, Waits, One
      <3>2. One(i \in IdsOf(b.items)) \in Nat
        BY DEF One
      <3>3. InAlbums(i)' \in Nat /\ InAlbums(i) \in Nat
        BY <1>1, <1>2, NatPrimes, AlbumsFinite
      <3>4. InAlbums(i)' + One(i \in IdsOf(b.items)) = InAlbums(i)
        BY <1>3
      <3> QED
        BY <3>1, <3>2, <3>3, <3>4
    <2>3. Starts(t)
      BY <1>5 DEF t
    <2> QED
      BY <1>1, <1>2, <2>2, <2>3, StartsCount
  <1> QED
    BY <1>4, <1>5 DEF Flush

\* Nothing else moves a message, except out of a buffer.
LEMMA QuietCounted ==
  ASSUME InboundInv, CountInv, UNCHANGED <<tasks, mail, sent, due>>, albums' \subseteq albums,
         \/ UNCHANGED <<seen, routed>> /\ mapped \subseteq mapped'
         \/ routed' = {}
  PROVE  CountInv'
  <1>1. IsFiniteSet(albums) /\ IsFiniteSet(albums')
    BY FewerBuffers DEF CountInv
  <1>2. ASSUME NEW i \in Ids
        PROVE  sent'[i] + InTasks(i)' + InAlbums(i)' + due[i]
                 <= sent[i] + InTasks(i) + InAlbums(i) + due'[i]
    <2>1. InTasks(i)' = InTasks(i)
      BY DEF InTasks, InItems, Waiting
    <2>2. InAlbums(i)' <= InAlbums(i)
      BY <1>1, FewerBuffers
    <2>3. /\ InTasks(i) \in Nat /\ InAlbums(i) \in Nat /\ InAlbums(i)' \in Nat
          /\ sent[i] \in Nat /\ sent'[i] = sent[i] /\ due[i] \in Nat /\ due'[i] = due[i]
      BY <1>1, NatPrimes, InTasksNat, AlbumsFinite DEF InboundInv, ScalarsOK, CountInv
    <2> QED
      BY <2>1, <2>2, <2>3
  <1>3. Remembered' /\ routed' \subseteq Ids \X Addrs
    <2>1. CASE UNCHANGED <<seen, routed>> /\ mapped \subseteq mapped'
      BY <2>1, StillRemembered DEF CountInv
    <2>2. CASE routed' = {}
      BY <2>2 DEF Remembered
    <2> QED
      BY <2>1, <2>2
  <1> QED
    BY <1>1, <1>2, <1>3, CountMoved DEF InboundInv, ScalarsOK, CountInv

LEMMA TimersCounted ==
  ASSUME InboundInv, CountInv, TimerFires \/ StrayFires
  PROVE  CountInv'
  <1>1. CASE \E b \in albums : Flush(b) /\ UNCHANGED <<gen, mapped, seen, sent, cacheVars>>
    BY <1>1, FlushCounted
  <1>2. CASE UNCHANGED <<albums, tasks, mapped, seen, sent, cacheVars>>
    BY <1>2, QuietCounted DEF cacheVars
  <1> QED
    BY <1>1, <1>2 DEF TimerFires, StrayFires

LEMMA OutsideCounted ==
  ASSUME InboundInv, CountInv, Close \/ Reconnect \/ Reset \/ Configure \/ Learn
  PROVE  CountInv'
  <1>1. UNCHANGED <<tasks, mail, sent, due>>
    BY DEF Close, Reconnect, Reset, Configure, Learn, Outside
  <1>2. albums' \subseteq albums
    BY DEF Close, Reconnect, Reset, Configure, Learn, Cleared
  <1>3. \/ UNCHANGED <<seen, routed>> /\ mapped \subseteq mapped'
        \/ routed' = {}
    BY DEF Close, Reconnect, Reset, Configure, Learn
  <1> QED
    BY <1>1, <1>2, <1>3, QuietCounted

LEMMA CountInit == Init => CountInv
  <1> SUFFICES ASSUME Init PROVE CountInv
    OBVIOUS
  <1>1. /\ albums = {} /\ routed = {} /\ sent = [i \in Ids |-> 0] /\ due = [i \in Ids |-> 0]
        /\ tasks = [s \in Slots |-> Idle]
    BY DEF Init
  <1>2. ASSUME NEW i \in Ids PROVE sent[i] + InTasks(i) + InAlbums(i) <= due[i]
    <2>1. InItems(i) = {} /\ Waiting(i) = {} /\ Buffered(i) = {}
      BY <1>1, IdleFields, IdsOfEmpty DEF InItems, Waiting, Waits, Buffered
    <2> QED
      BY <1>1, <2>1, FS_EmptySet DEF InTasks, InAlbums
  <1> QED
    BY <1>1, <1>2, FS_EmptySet DEF CountInv, Counted, Remembered

LEMMA CountStep == InboundInv /\ CountInv /\ [Next]_vars => CountInv'
  <1> SUFFICES ASSUME InboundInv, CountInv, [Next]_vars PROVE CountInv'
    OBVIOUS
  <1>1. ASSUME NEW s \in Slots, Task(s) PROVE CountInv'
    BY <1>1, RouteStaleCounted, RouteCounted, ScheduleCounted, CallsCounted, SendCounted DEF Task
  <1>2. CASE TimerFires \/ StrayFires
    BY <1>2, TimersCounted
  <1>3. ASSUME NEW addr, NEW alt, NEW n, Deliver(n, addr, alt) \/ Redeliver(n, addr, alt)
        PROVE  CountInv'
    BY <1>3, UpsertCounted DEF Deliver, Redeliver
  <1>4. CASE Close \/ Reconnect \/ Reset \/ Configure \/ Learn
    BY <1>4, OutsideCounted
  <1>5. CASE UNCHANGED vars
    BY <1>5, QuietCounted DEF vars, historyVars
  <1> QED
    BY <1>1, <1>2, <1>3, <1>4, <1>5 DEF Next
-----------------------------------------------------------------------------
(* A message is broadcast no more often than it was routed anew: the       *)
(* filter (rememberRuntimeScope under every alias) and the albums lose or  *)
(* move copies, but no interleaving of upserts, flushes, timers and socket *)
(* replacements makes one.                                                 *)
THEOREM NothingTwice == Spec => []NoDuplicate
  <1>1. InboundInv /\ CountInv => NoDuplicate
    <2> SUFFICES ASSUME InboundInv, CountInv, NEW i \in Ids PROVE sent[i] <= due[i]
      BY DEF NoDuplicate
    <2>1. sent[i] + InTasks(i) + InAlbums(i) <= due[i]
      BY DEF CountInv, Counted
    <2>2. /\ sent[i] \in Nat /\ due[i] \in Nat /\ InTasks(i) \in Nat /\ InAlbums(i) \in Nat
      BY InTasksNat, AlbumsFinite DEF InboundInv, ScalarsOK, CountInv
    <2> QED
      BY <2>1, <2>2
  <1>2. Init => CountInv
    BY CountInit
  <1>3. InboundInv /\ CountInv /\ [Next]_vars => CountInv'
    BY CountStep
  <1> QED
    BY <1>1, <1>2, <1>3, InboundInvariant, PTL DEF Spec
=============================================================================
