--------------------------- MODULE StreamingReply ---------------------------
(***************************************************************************)
(* One streamed reply (WhatsAppMessageEvent.send_streaming): text that      *)
(* arrives piece by piece is rendered as a whole again and again, sent, and *)
(* edited in place; when editing fails the rest is sent as new messages.    *)
(* Another reply to the same chat shares the typing indicator               *)
(* (whatsapp_streaming_concurrency.py).                                     *)
(***************************************************************************)
EXTENDS TextFormat

CONSTANTS
  Jobs,       \* [feed, realtime, company]: what the generator yields (a sequence
              \* of items), use_fallback, and whether another reply is at work
  Limit,      \* min(text_chunk_limit, 3500)
  MaxFaults,  \* calls that fail, messages without an id, failing generators
  Halfway     \* a publish may fail when it has changed some of its messages

\* An item is [kind, text, ends]: a component, and whether it ends its chain.
Texts == {"text", "at"}
Items == [kind : Texts \cup {"break", "part", "reply"}, text : Seq(Kinds), ends : BOOLEAN]

VARIABLES
  job,       \* what was asked
  feed,      \* the items that are left
  seg,       \* _StreamingTextState: the text since the last reset
  quote,     \* QuoteState: [has, consumed, count]
  screen,    \* the messages in the chat: [n, chars, quoted]
  superSent, \* the framework knows of a delivery
  pc, task,  \* where the coroutine is, and the publish it is in
  outcome,   \* "running", "done" or "failed"
  ack,       \* the reaction on the incoming message
  leases, presence, other,   \* the typing indicator and the other reply
  faults, disturbed          \* faults so far; editing was given up once

reply == <<job, feed, seg, quote, screen, superSent, pc, task, outcome, ack, faults, disturbed>>
vars  == <<reply, leases, presence, other>>

Fresh == [raw |-> <<>>, ids |-> <<>>, shown |-> <<>>, failed |-> FALSE,
          offset |-> 0, unedited |-> 0, final |-> FALSE]
NoTask == [force |-> FALSE, after |-> "pull", plan |-> <<>>, queue |-> <<>>, changed |-> FALSE]

\* Two chunks are the same text; every visible character of a reply is another one.
Glyphs(chunk) == [i \in DOMAIN chunk |-> <<chunk[i].c, IF chunk[i].c \in VisibleKinds THEN chunk[i].n ELSE 0>>]
Glyphed(cs)   == [i \in DOMAIN cs |-> Glyphs(cs[i])]
Suffix(s, i)  == SubSeq(s, i + 1, Len(s))

\* The places of an item's characters, after those of the items before it.
Stride == 20
Typed(item, base) ==
  IF item.kind = "at" THEN <<Mark("@", base + 1, "none"), Mark("n", base + 2, "none"), Mark(" ", base + 3, "none")>>
  ELSE [k \in DOMAIN item.text |-> Mark(item.text[k], base + k, "none")]
\* Every mention of a stream is one of a user whose address is known.
Names(chars) == {x.n : x \in {y \in ToSet(chars) : y.c = "n"}}
PlacesIn(chars) == {x.n : x \in {y \in ToSet(chars) : y.c \in VisibleKinds}}

\* Of any part of what a reply says, in any state of the stream, rendering and cutting show
\* every visible character, once and in order (of every text: OutgoingChainProofs!ChunksKeepLetters).
TypedUpTo(f) ==
  LET typed[n \in 0 .. Len(f)] ==
        IF n = 0 THEN <<>>
        ELSE IF f[n].kind \in Texts THEN typed[n - 1] \o Typed(f[n], Stride * (n - 1)) ELSE typed[n - 1]
  IN  typed
PartsOf(t) == {SubSeq(t, i, j) : i \in 1 .. Len(t) + 1, j \in 0 .. Len(t)}
PartsSaid(f) == UNION {PartsOf(TypedUpTo(f)[n]) : n \in 0 .. Len(f)}
ASSUME ReplyAssumption ==
  /\ \A j \in Jobs : j.feed \in Seq(Items) /\ j.realtime \in BOOLEAN
  /\ \A t \in UNION {PartsSaid(j.feed) : j \in Jobs}, streaming \in BOOLEAN :
       LET chunks == VisibleChunks(t, streaming, Limit, Names(t))
       IN  chunks \in Seq(Seq(Characters)) /\ Places(FlattenSeq(chunks)) = Places(t)

-----------------------------------------------------------------------------
(* publish: what to do with the text there is.                              *)

Outcome(p, s, plan, text, streaming) == [pc |-> p, seg |-> s, plan |-> plan, text |-> text, streaming |-> streaming]
Return(s)                 == Outcome("return", s, <<>>, <<>>, FALSE)
Edit(s, chunks)           == Outcome("edit", s, chunks, <<>>, FALSE)
Again(s, text, streaming) == Outcome("resend", s, <<>>, text, streaming)

\* The realtime fallback sends whole sentences of what is not visible yet.
Sentences(pending) ==
  LET ends == {i \in DOMAIN pending : pending[i].c = "."}
  IN IF ends = {} THEN 0 ELSE CHOOSE i \in ends : \A j \in ends : j <= i
\* Mutant: the unfinished sentence counts as visible.
RealtimeAll(s, force) ==
  LET pending == Suffix(s.raw, s.offset)
      cut     == IF force THEN Len(pending) ELSE Sentences(pending)
  IN IF cut = 0 THEN Return(s)
     ELSE Again([s EXCEPT !.offset = Len(s.raw)], SubSeq(pending, 1, cut), ~force)
Realtime(s, force) ==
  LET pending == Suffix(s.raw, s.offset)
      cut     == IF force THEN Len(pending) ELSE Sentences(pending)
  IN IF cut = 0 THEN Return(s)
     ELSE Again([s EXCEPT !.offset = @ + cut], SubSeq(pending, 1, cut), ~force)

\* Without it, all of the text is sent at the end, or what follows a message
\* that cannot be edited.
FinalFallback(s) ==
  IF s.final THEN Return(s)
  ELSE LET t == [s EXCEPT !.final = TRUE] IN
       IF job.realtime THEN Realtime(t, TRUE) ELSE Again(t, Suffix(s.raw, s.unedited), FALSE)
GiveUp(s, force) ==
  LET t == [s EXCEPT !.failed = TRUE] IN IF force THEN FinalFallback(t) ELSE Return(t)

\* Mutant: a text that got shorter is edited like any other.
EditedShorter(s, force, chunks) ==
  IF chunks = <<>> \/ Glyphed(chunks) = Glyphed(s.shown) THEN Return(s) ELSE Edit(s, chunks)
Edited(s, force, chunks) ==
  IF chunks = <<>> \/ Glyphed(chunks) = Glyphed(s.shown) THEN Return(s)
  ELSE IF Len(chunks) < Len(s.shown) THEN GiveUp(s, force)
  ELSE Edit(s, chunks)
Published(s, force) ==
  CASE s.raw = <<>>          -> Return(s)
    [] s.raw # <<>> /\ s.failed ->
         IF force THEN FinalFallback(s) ELSE IF job.realtime THEN Realtime(s, FALSE) ELSE Return(s)
    [] OTHER -> Edited(s, force, VisibleChunks(s.raw, ~force, Limit, Names(s.raw)))

Queue(o) == IF o.text = <<>> THEN <<>> ELSE VisibleChunks(o.text, o.streaming, Limit, Names(o.text))
Continue(o, force, after) ==
  /\ pc' = o.pc /\ seg' = o.seg
  /\ task' = [force |-> force, after |-> after, plan |-> o.plan, queue |-> Queue(o), changed |-> FALSE]
  /\ disturbed' = (disturbed \/ o.seg.failed)
\* An update that is not forced may come too soon after the last one.
Publish(s, force, after) ==
  \/ Continue(Published(s, force), force, after)
  \/ ~force /\ Continue(Return(s), force, after)

-----------------------------------------------------------------------------
(* The steps of the coroutine: each ends at an await.                       *)

Init ==
  /\ job \in Jobs
  /\ feed = job.feed /\ seg = Fresh
  /\ quote = [has |-> FALSE, consumed |-> FALSE, count |-> 0]
  /\ screen = <<>> /\ superSent = FALSE
  /\ pc = "pull" /\ task = NoTask /\ outcome = "running" /\ ack = "eyes"
  /\ leases = 1 /\ presence = "composing" /\ other = "none"
  /\ faults = 0 /\ disturbed = FALSE

Kind == IF feed = <<>> THEN "" ELSE Head(feed).kind
Base == Stride * (Len(job.feed) - Len(feed))
Typing == UNCHANGED <<leases, other>> /\ presence' \in {presence, "composing"}
Quiet  == UNCHANGED <<leases, presence, other>>

PullText ==
  /\ pc = "pull" /\ Kind \in Texts
  /\ feed' = Tail(feed)
  /\ LET s == [seg EXCEPT !.raw = @ \o Typed(Head(feed), Base)]
     IN IF Head(feed).ends THEN Publish(s, FALSE, "pull")
        ELSE seg' = s /\ UNCHANGED <<pc, task, disturbed>>
  /\ Typing
  /\ UNCHANGED <<job, quote, screen, superSent, outcome, ack, faults>>

\* The first Reply names the message to quote, unless something was sent.
PullReply ==
  /\ pc = "pull" /\ Kind = "reply"
  /\ feed' = Tail(feed)
  /\ quote' = [quote EXCEPT !.has = @ \/ quote.count = 0]
  /\ Quiet
  /\ UNCHANGED <<job, seg, screen, superSent, pc, task, outcome, ack, faults, disturbed>>

\* A break, a component that is not text and the end publish what there is.
After == CASE Kind = "break" -> "break" [] Kind = "part" -> "part" [] OTHER -> "end"
Forced ==
  /\ pc = "pull" /\ Kind \in {"break", "part", ""}
  /\ feed' = IF Kind = "" THEN feed ELSE Tail(feed)
  /\ Publish(seg, TRUE, After)
  /\ Quiet
  /\ UNCHANGED <<job, quote, screen, superSent, outcome, ack, faults>>

Post(n, chars) ==
  /\ screen' = Append(screen, [n |-> n, chars |-> chars, quoted |-> quote.has /\ ~quote.consumed])
  /\ quote' = [quote EXCEPT !.consumed = @ \/ quote.has, !.count = @ + 1]
  /\ superSent' = TRUE
Fault == faults < MaxFaults /\ faults' = faults + 1
\* An exception leaves the reply.
Raise == /\ pc' = "ack" /\ outcome' = "failed"
         /\ UNCHANGED <<seg, task, disturbed>>

\* The chunks in turn: unchanged ones are skipped, old ones edited, new ones
\* sent.  The text counts as published when all of them are visible.
Differing == {i \in DOMAIN task.plan : i > Len(seg.shown) \/ Glyphs(task.plan[i]) # Glyphs(seg.shown[i])}
Upcoming == CHOOSE i \in Differing : \A j \in Differing : i <= j
Accepted(i) == [seg EXCEPT !.shown = SubSeq(task.plan, 1, i) \o Suffix(@, i)]
Changed == task' = [task EXCEPT !.changed = TRUE]
Refusable == Halfway \/ ~job.realtime \/ ~task.changed
EditChunk ==
  /\ pc = "edit" /\ Differing # {} /\ Upcoming <= Len(seg.ids)
  /\ \/ /\ seg.ids[Upcoming] # 0
        /\ screen' = [screen EXCEPT ![seg.ids[Upcoming]].chars = task.plan[Upcoming]]
        /\ seg' = Accepted(Upcoming)
        /\ Changed
        /\ UNCHANGED <<pc, faults, disturbed>>
     \/ /\ Refusable
        /\ Continue(GiveUp(seg, task.force), task.force, task.after)
        /\ UNCHANGED screen
        /\ Fault
  /\ UNCHANGED <<job, feed, quote, superSent, outcome, ack, leases, presence, other>>

\* Delivered, but without an id it cannot be edited.
\* Mutant: the missing id is not recorded.
UnnamedUnlisted == [seg EXCEPT !.shown = SubSeq(task.plan, 1, Upcoming), !.unedited = Len(seg.raw), !.offset = Len(seg.raw)]
Unnamed == [seg EXCEPT !.shown = SubSeq(task.plan, 1, Upcoming), !.ids = Append(@, 0),
                       !.unedited = Len(seg.raw), !.offset = Len(seg.raw)]
SendChunk ==
  /\ pc = "edit" /\ Differing # {} /\ Upcoming > Len(seg.ids)
  /\ \/ /\ Post(0, task.plan[Upcoming])
        /\ seg' = [Accepted(Upcoming) EXCEPT !.ids = Append(@, Len(screen) + 1)]
        /\ Changed
        /\ UNCHANGED <<pc, faults, disturbed>>
     \/ /\ Halfway \/ Upcoming = Len(task.plan)
        /\ Post(0, task.plan[Upcoming])
        /\ Continue(GiveUp(Unnamed, task.force), task.force, task.after)
        /\ Fault
     \/ /\ Refusable
        /\ Continue(GiveUp(seg, task.force), task.force, task.after)
        /\ UNCHANGED <<screen, quote, superSent>>
        /\ Fault
  /\ UNCHANGED <<job, feed, outcome, ack, leases, presence, other>>

AllShown ==
  /\ pc = "edit" /\ Differing = {}
  /\ seg' = [seg EXCEPT !.offset = Len(seg.raw)]
  /\ pc' = "return"
  /\ UNCHANGED <<job, feed, quote, screen, superSent, task, outcome, ack, leases, presence, other, faults, disturbed>>

\* A fallback message: its failure is an exception.
Resend ==
  /\ pc = "resend" /\ task.queue # <<>>
  /\ \/ /\ Post(0, Head(task.queue))
        /\ task' = [task EXCEPT !.queue = Tail(@)]
        /\ UNCHANGED <<seg, pc, outcome, faults, disturbed>>
     \/ Raise /\ Fault /\ UNCHANGED <<screen, quote, superSent>>
  /\ UNCHANGED <<job, feed, ack, leases, presence, other>>

\* publish returns to its caller; a break or another component begins a new text.
Returned ==
  /\ pc = "return" \/ (pc = "resend" /\ task.queue = <<>>)
  /\ pc' = CASE task.after \in {"pull", "break"} -> "pull" [] task.after = "part" -> "part" [] OTHER -> "ack"
  /\ seg' = IF task.after \in {"break", "part"} THEN Fresh ELSE seg
  /\ outcome' = IF task.after = "end" THEN "done" ELSE outcome
  /\ task' = NoTask
  /\ UNCHANGED <<job, feed, quote, screen, superSent, ack, leases, presence, other, faults, disturbed>>

\* A component that is not text, by process_message_chain: it is sent, or a
\* note that it is unavailable.
SendPart ==
  /\ pc = "part"
  /\ \/ /\ Post(Base - Stride + 1, <<>>)
        /\ pc' = "pull"
        /\ UNCHANGED <<seg, task, outcome, faults, disturbed>>
     \/ Raise /\ Fault /\ UNCHANGED <<screen, quote, superSent>>
  /\ UNCHANGED <<job, feed, ack, leases, presence, other>>

GeneratorFails ==
  /\ pc = "pull" /\ Fault /\ Raise
  /\ UNCHANGED <<job, feed, quote, screen, superSent, ack, leases, presence, other>>

\* The reaction of the incoming message is replaced or taken away; that may fail.
Acknowledge ==
  /\ pc = "ack"
  /\ pc' = "stop"
  /\ \/ ack' = IF outcome = "done" /\ quote.count > 0 THEN "done" ELSE "none"
     \/ ack' = ack
  /\ Quiet
  /\ UNCHANGED <<job, feed, seg, quote, screen, superSent, task, outcome, faults, disturbed>>

\* Mutant: every reply clears the typing indicator.
PausedAlways == "paused"
\* The typing indicator is cleared by the reply that is the last one; the
\* after-send hook runs before the lease is given back.
Paused == IF leases <= 1 THEN "paused" ELSE presence
StopTyping ==
  /\ pc = "stop" /\ pc' = "hook" /\ presence' = Paused
  /\ UNCHANGED <<job, feed, seg, quote, screen, superSent, task, outcome, ack, leases, other, faults, disturbed>>
Release ==
  /\ pc = "hook" /\ pc' = "over" /\ leases' = leases - 1
  /\ UNCHANGED <<job, feed, seg, quote, screen, superSent, task, outcome, ack, presence, other, faults, disturbed>>

OtherStarts == /\ job.company /\ other = "none" /\ other' = "busy" /\ leases' = leases + 1 /\ presence' = "composing"
               /\ UNCHANGED reply
OtherStops  == /\ other = "busy" /\ other' = "hook" /\ presence' = Paused
               /\ UNCHANGED <<reply, leases>>
OtherEnds   == /\ other = "hook" /\ other' = "none" /\ leases' = leases - 1
               /\ UNCHANGED <<reply, presence>>

Step == \/ PullText \/ PullReply \/ Forced \/ EditChunk \/ SendChunk \/ AllShown \/ Resend \/ Returned
        \/ SendPart \/ GeneratorFails \/ Acknowledge \/ StopTyping \/ Release
Next == Step \/ OtherStarts \/ OtherStops \/ OtherEnds
Spec == Init /\ [][Next]_vars
FairSpec == Spec /\ WF_vars(Step)

-----------------------------------------------------------------------------
(* Properties.                                                              *)

\* The variables stay in their ranges, a text has one id per chunk shown, and
\* the leases are those of the replies that hold one.
TypeOK ==
  /\ pc \in {"pull", "edit", "resend", "return", "part", "ack", "stop", "hook", "over"}
  /\ outcome \in {"running", "done", "failed"} /\ (outcome = "running" <=> pc \notin {"ack", "stop", "hook", "over"})
  /\ Len(seg.ids) = Len(seg.shown) /\ \A i \in DOMAIN seg.ids : seg.ids[i] \in 0..Len(screen)
  /\ seg.offset \in 0..Len(seg.raw) /\ seg.unedited \in 0..Len(seg.raw)
  /\ leases = (IF pc = "over" THEN 0 ELSE 1) + (IF other = "none" THEN 0 ELSE 1)
  /\ quote.count = Len(screen) /\ (superSent <=> screen # <<>>)
  /\ ack \in {"eyes", "done", "none"} /\ presence \in {"composing", "paused"} /\ other \in {"none", "busy", "hook"}

\* The places a message shows, and those an item names.
ShownBy(m) == IF m.n = 0 THEN Places(m.chars) ELSE <<m.n>>
SaidBy(i)  == CASE job.feed[i].kind \in Texts -> Places(Typed(job.feed[i], Stride * (i - 1)))
                [] job.feed[i].kind = "part" -> <<Stride * (i - 1) + 1>>
                [] OTHER -> <<>>
Taken == 1..(Len(job.feed) - Len(feed))
Shown == FlattenSeq([i \in DOMAIN screen |-> ShownBy(screen[i])])
Said  == FlattenSeq([i \in Taken |-> SaidBy(i)])

SeenIn(m)  == IF m.n = 0 THEN PlacesIn(m.chars) ELSE {m.n}
HeardIn(i) == CASE job.feed[i].kind \in Texts -> PlacesIn(Typed(job.feed[i], Stride * (i - 1)))
                [] job.feed[i].kind = "part" -> {Stride * (i - 1) + 1}
                [] OTHER -> {}
Seen  == UNION {SeenIn(screen[i]) : i \in DOMAIN screen}
Heard == UNION {HeardIn(i) : i \in Taken}

\* The reply keeps the promise of VisibleReply: nothing is invented, a reply
\* counts as sent as soon as the chat shows some of it, and one that ends well
\* shows all that was said, also when edits and sends are refused or ids are missing
\* on the way.  With a reply that may be sent in halves (Halfway), where a publish
\* breaks off after some of its messages, the last part does not hold: NothingLost.
Promise == INSTANCE VisibleReply WITH
  said <- Heard, seen <- Seen, recorded <- superSent,
  status <- IF outcome = "running" THEN "streaming" ELSE outcome
KeepsPromise == Promise!Spec

\* "Final fallback sends only the unseen suffix": a reply that ends well lost
\* none of its text.
NothingLost == outcome = "done" => Heard \subseteq Seen

\* As long as editing is never given up, the chat shows the text exactly once
\* and in order, whatever was cut, edited and moved between messages.
ExactWhenCalm == outcome = "done" /\ ~disturbed => Shown = Said

\* A reply that ends never asks to stop the typing indicator under another one
\* that is still at work when it asks ("must therefore not send paused while another
\* response is still streaming"): should_pause is read as the request is sent.
PauseWaits == [][presence' = "paused" /\ presence = "composing" =>
                   other' # "busy" /\ pc' \in {"hook", "over"}]_vars
=============================================================================
