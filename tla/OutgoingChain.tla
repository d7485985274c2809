--------------------------- MODULE OutgoingChain ---------------------------
(***************************************************************************)
(* One call of WhatsAppMessageEvent.send: a chain of components becomes    *)
(* the messages of one chat (whatsapp_event.send, process_message_chain,   *)
(* flush_pending_text).                                                    *)
(*                                                                         *)
(* Text and mentions are accumulated and rendered once, when something     *)
(* else has to be sent; in caption mode they become the caption of the     *)
(* next picture, video or file.  The first message carries the quote.      *)
(* Every transport call may fail and ends the call then.                   *)
(***************************************************************************)
EXTENDS TextFormat

CONSTANTS Chains,   \* the chains a caller hands over: sequences of components
          Limit     \* the configured length of a chunk

Captioned  == {"image", "video", "file"}
Media      == Captioned \cup {"sticker", "record"}
Native     == {"location", "native", "edit"}

\* A component is [kind, text, items]: text is a sequence of kinds of
\* characters, items the components of a nested one.
Leaves     == [kind : {"reply", "plain", "fallback", "at", "stranger"} \cup Media \cup Native, text : Seq(Kinds), items : {<<>>}]
Nestings   == [kind : {"nested"}, text : {<<>>}, items : Seq(Leaves)]
ASSUME ChainsAssumption == Chains \subseteq Seq(Leaves \cup Nestings)

VARIABLES
  job,        \* the call: [chain, quotes, captions]; it never changes
  todo,       \* the components that are left
  pending,    \* the accumulated text
  mentions,   \* the mentions in it whose address is known
  stage,      \* where the call is
  queue,      \* rendered chunks that are to be sent next
  caption,    \* the caption of the media that is to be sent: <<>> or one chunk
  quote,      \* QuoteState: [consumed, count]
  sent,       \* the messages the transport accepted
  superSent   \* what the framework knows: something was sent

vars == <<job, todo, pending, mentions, stage, queue, caption, quote, sent, superSent>>

Flat(cs) == FlattenSeq([i \in DOMAIN cs |-> IF cs[i].kind = "nested" THEN cs[i].items ELSE <<cs[i]>>])
Stride   == 20   \* more than the characters of a component
Base     == Stride * (Len(Flat(job.chain)) - Len(Flat(todo)))
Typed(c, base) == [k \in DOMAIN c.text |-> Mark(c.text[k], base + k, "none")]
AtText(base)   == <<Mark("@", base + 1, "none"), Mark("n", base + 2, "none"), Mark(" ", base + 3, "none")>>

\* A chunk names the mentions whose visible text is in it and touches no letter.
Named(chars) == {m \in mentions : \E j \in DOMAIN chars : MentionAlone(chars, j) /\ chars[j + 1].n = m}
Ready(chars) == [chars |-> chars, mentions |-> Named(chars)]
AllReady(cs) == [i \in DOMAIN cs |-> Ready(cs[i])]
Chunks       == AllReady(VisibleChunks(pending, FALSE, Limit, mentions))
Nothing      == [chars |-> <<>>, mentions |-> {}]

Init ==
  /\ job \in [chain : Chains, quotes : BOOLEAN, captions : BOOLEAN]
  /\ todo = job.chain
  /\ pending = <<>> /\ mentions = {}
  /\ stage = "take" /\ queue = <<>> /\ caption = <<>>
  /\ quote = [consumed |-> FALSE, count |-> 0]
  /\ sent = <<>> /\ superSent = FALSE

Kind == IF todo = <<>> THEN "" ELSE Head(todo).kind
Idle == queue = <<>>

\* A Reply only names the message to quote; it was read before the loop.
TakeReply ==
  /\ stage = "take" /\ Kind = "reply"
  /\ todo' = Tail(todo)
  /\ UNCHANGED <<job, pending, mentions, stage, queue, caption, quote, sent, superSent>>

\* Text, and components that have no equivalent but some text of their own.
TakeText ==
  /\ stage = "take" /\ Kind \in {"plain", "fallback"}
  /\ pending' = pending \o Typed(Head(todo), Base)
  /\ todo' = Tail(todo)
  /\ UNCHANGED <<job, mentions, stage, queue, caption, quote, sent, superSent>>

\* A mention is its visible text and a space; the address of a
\* stranger is unknown.
TakeAt ==
  /\ stage = "take" /\ Kind \in {"at", "stranger"}
  /\ pending' = pending \o AtText(Base)
  /\ mentions' = IF Kind = "at" THEN mentions \cup {Base + 2} ELSE mentions
  /\ todo' = Tail(todo)
  /\ UNCHANGED <<job, stage, queue, caption, quote, sent, superSent>>

\* What may carry a caption waits with the flush in caption mode.
FlushedFirst(kind) == ~(job.captions /\ kind \in Captioned \cup {"sticker"})
Arrive ==
  /\ stage = "take" /\ Kind \in Media \cup Native \cup {"nested"}
  /\ stage' = "ready"
  /\ IF FlushedFirst(Kind)
     THEN queue' = Chunks /\ pending' = <<>> /\ mentions' = {}
     ELSE UNCHANGED <<queue, pending, mentions>>
  /\ UNCHANGED <<job, todo, caption, quote, sent, superSent>>

\* A nested chain is processed by a call of its own, which returns the text
\* it has not sent yet: the same as splicing it in.
EnterNested ==
  /\ stage = "ready" /\ Idle /\ Kind = "nested"
  /\ todo' = Head(todo).items \o Tail(todo)
  /\ stage' = "take"
  /\ UNCHANGED <<job, pending, mentions, queue, caption, quote, sent, superSent>>

Separated(t) == IF t = <<>> \/ Last(t).c = " " THEN t ELSE Append(t, Mark(" ", 0, "none"))
\* A file that cannot be had leaves a note in the text.
Unavailable ==
  /\ stage = "ready" /\ Idle /\ Kind \in Media
  /\ pending' = Append(Separated(pending), Mark(".", Base + 1, "none"))
  /\ todo' = Tail(todo)
  /\ stage' = "take"
  /\ UNCHANGED <<job, mentions, queue, caption, quote, sent, superSent>>

\* Mutant: what becomes the caption is sent before as well.
BeforeAll(chunks) == chunks
Before(chunks) == Front(chunks)
CaptionOf(chunks) == <<Last(chunks)>>
\* prepare_caption: all chunks but the last are messages, the last one is
\* the caption.  A sticker has none: its text is flushed.
Resolved ==
  /\ stage = "ready" /\ Idle /\ Kind \in Media
  /\ stage' = "send"
  /\ IF job.captions /\ Kind \in Captioned /\ Chunks # <<>>
     THEN queue' = Before(Chunks) /\ caption' = CaptionOf(Chunks) /\ UNCHANGED <<pending, mentions>>
     ELSE IF job.captions /\ Kind = "sticker"
     THEN queue' = Chunks /\ pending' = <<>> /\ mentions' = {} /\ UNCHANGED caption
     ELSE UNCHANGED <<queue, pending, mentions, caption>>
  /\ UNCHANGED <<job, todo, quote, sent, superSent>>

\* One transport call.  An edit changes an old message and carries no quote,
\* but it consumes it.
\* Mutant: every message carries the quote.
QuotedAlways(kind) == job.quotes /\ kind # "edit"
Quoted(kind) == job.quotes /\ ~quote.consumed /\ kind # "edit"
Consume(q) == [consumed |-> q.consumed \/ job.quotes, count |-> q.count + 1]
Post(kind, n, body) ==
  /\ sent' = Append(sent, [kind |-> kind, n |-> n, chars |-> body.chars, mentions |-> body.mentions, quoted |-> Quoted(kind)])
  /\ quote' = Consume(quote)
Fail ==
  /\ stage' = "failed"
  /\ superSent' = (quote.count > 0)
  /\ UNCHANGED <<job, todo, pending, mentions, queue, caption, quote, sent>>

SendChunk ==
  /\ stage \in {"ready", "send", "last"} /\ queue # <<>>
  /\ \/ /\ Post("text", 0, Head(queue))
        /\ queue' = Tail(queue)
        /\ UNCHANGED <<job, todo, pending, mentions, stage, caption, superSent>>
     \/ Fail

SendPart ==
  /\ Idle
  /\ \/ stage = "send" /\ Kind \in Media
     \/ stage = "ready" /\ Kind \in Native
  /\ \/ /\ Post(Kind, Base + 1, IF caption = <<>> THEN Nothing ELSE Head(caption))
        /\ pending' = <<>> /\ mentions' = {} /\ caption' = <<>>
        /\ todo' = Tail(todo)
        /\ stage' = "take"
        /\ UNCHANGED <<job, queue, superSent>>
     \/ Fail

FlushLast ==
  /\ stage = "take" /\ todo = <<>>
  /\ queue' = Chunks /\ stage' = "last"
  /\ UNCHANGED <<job, todo, pending, mentions, caption, quote, sent, superSent>>

\* A call that sent nothing is an error.
Finish ==
  /\ stage = "last" /\ Idle
  /\ stage' = IF quote.count = 0 THEN "failed" ELSE "done"
  /\ superSent' = (quote.count > 0)
  /\ UNCHANGED <<job, todo, pending, mentions, queue, caption, quote, sent>>

Next == \/ TakeReply \/ TakeText \/ TakeAt \/ Arrive \/ EnterNested \/ Unavailable
        \/ Resolved \/ SendChunk \/ SendPart \/ FlushLast \/ Finish
Spec == Init /\ [][Next]_vars

-----------------------------------------------------------------------------
(* Properties.                                                              *)

\* What the receiver sees of a message, and what the chain says, in order:
\* the places of letters and of parts that are not text.
Delivered == FlattenSeq([i \in DOMAIN sent |->
  Places(sent[i].chars) \o IF sent[i].kind = "text" THEN <<>> ELSE <<sent[i].n>>])
Part(c, base) ==
  CASE c.kind = "reply" -> <<>>
    [] c.kind \in {"at", "stranger"} -> Places(AtText(base))
    [] c.kind \in {"plain", "fallback"} -> Places(Typed(c, base))
    [] OTHER            -> <<base + 1>>
Asked == FlattenSeq([i \in DOMAIN Flat(job.chain) |-> Part(Flat(job.chain)[i], Stride * (i - 1))])

\* Nothing of a chain is lost, doubled or moved by flushing, captions,
\* nesting, missing files and chunking: what was sent is always a beginning
\* of the chain, and the whole chain when the call returns.
DeliveredInOrder ==
  /\ IsPrefix(Delivered, Asked)
  /\ stage = "done" => Delivered = Asked

\* The quote is on the first physical message and on no other one, however
\* the text is cut ("Ensure an AstrBot Reply is attached to one physical send
\* only"); a leading edit uses it up.
QuoteOnFirst ==
  \A i \in DOMAIN sent : sent[i].quoted <=> (job.quotes /\ i = 1 /\ sent[1].kind # "edit")

\* A mention whose address is known reaches its user: its name is never cut, and
\* the message that shows it carries the address, unless the rendering put it next
\* to a letter or inside italics.  The name of a stranger may be cut.
Reachable == {Stride * (i - 1) + 2 : i \in {k \in DOMAIN Flat(job.chain) : Flat(job.chain)[k].kind = "at"}}
Blurred(chars, j) == \/ KindAt(chars, j - 1) \in {"a", "U", "n", "@", "_"}
                     \/ KindAt(chars, j + 2) \in {"a", "U", "n", "_"}
MentionsReach ==
  \A i \in DOMAIN sent : \A j \in DOMAIN sent[i].chars :
    /\ sent[i].chars[j].c = "@" /\ sent[i].chars[j].n + 1 \in Reachable
    /\ ~Blurred(sent[i].chars, j)
    => KindAt(sent[i].chars, j + 1) = "n" /\ sent[i].chars[j + 1].n \in sent[i].mentions

\* Every message formats alone what it would format in one piece: its spans
\* are balanced, and a letter has the styles it has in the whole text.  What is
\* compared is the text that is complete, whether it is flushed or a caption.
Alike(part, inner, whole, outer) ==
  \A k \in DOMAIN part : part[k].c \in {"a", "U"} =>
    inner[k] = outer[CHOOSE l \in DOMAIN whole : whole[l] = part[k]]
StandAlone(cs, whole) ==
  \A i \in DOMAIN cs : /\ Last(Around(cs[i])) = <<>>
                       /\ Alike(cs[i], Around(cs[i]), whole, Around(whole))
Rejoined(cs) == SelectSeq(FlattenSeq(cs), LAMBDA x : x.n # 0 \/ x.s = "none")
Complete == stage = "take" /\ Kind \notin {"plain", "fallback", "at", "stranger", "reply"}
ChunksStandAlone ==
  Complete => StandAlone(VisibleChunks(pending, FALSE, Limit, mentions),
                         Rejoined(SplitRendered(Render(pending, FALSE), Limit, mentions)))

\* No message is longer than the configured length, unless it is a single
\* URL or name of a mention, which is never cut.
Pieced(post) == {u \in ToSet(Units(post.chars, post.mentions)) : post.chars[u.from].s = "none"}
Lone(post)   == Cardinality(Pieced(post)) = 1 /\ \A u \in Pieced(post) : u.atomic
LimitKept == \A i \in DOMAIN sent : Width(sent[i].chars) <= Limit \/ Lone(sent[i])

=============================================================================
