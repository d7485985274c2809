--------------------------- MODULE AdapterInbound ---------------------------
(***************************************************************************)
(* What the adapter makes of a message of the Gateway's event stream        *)
(* (whatsapp_adapter.py: convert_message, handle_msg): who sent it, whether *)
(* they may, whether it calls the bot, what its chain holds, and the        *)
(* reactions on the side. One message is handled at a time; it waits for    *)
(* the Gateway up to four times, while the configuration may be reloaded    *)
(* and the task cancelled.                                                  *)
(*                                                                          *)
(* A text is a sequence of words, some of which are visible mentions: the   *)
(* digits of an identity, the text of a public ID, or a name.               *)
(***************************************************************************)
EXTENDS PublicIds, ReactionJournal, SequencesExt

CONSTANTS SelfPn, SelfLid,    \* the account
          NameOf,             \* the name a mention shows, or 0; several may share one
          Jobs,               \* the messages of a stream, with a configuration
          Reloaded,           \* the configurations that a reload may set
          MaxTime, MaxBreaks, MaxReloads  \* bounds: clock, breaks and cancellations, reloads

All == 0        \* mentions everybody
Star == 0       \* in a list: anybody
GroupChat == 1000000
LidText(l) == 1000 + l   \* the text "lid-N"
Eyes == 1         \* the emoji of an acknowledgement
Marker == 999            \* "<media:...>", the Gateway's summary of media
Bot == <<SelfLid, SelfPn>>

\* The sides of an address: a LID, a number, or both of one person (0: not told).
TrueSides ==
  {s \in (Lids \cup {0}) \X (Pns \cup {0}) :
     s # <<0, 0>> /\ (s[1] # 0 /\ s[2] # 0 => Owner[s[1]] = s[2])}
\* The address a message comes from: the LID if it has one.
Jid(sides) == IF sides[1] # 0 THEN sides[1] ELSE sides[2]
\* A message comes from a person, in a chat with one or in the group.
Sighted(m) ==
  /\ m.from \in TrueSides /\ (m.chat = <<>> \/ m.chat \in TrueSides)
  /\ m.text \in Seq(Nat) /\ m.media \in Seq(BOOLEAN)
  /\ m.at \in Seq(Keys \cup {All}) /\ m.quote \in Keys \cup {0}
ASSUME StreamAssumption ==
  /\ GroupChat \notin Keys /\ Bot \in TrueSides
  /\ \A job \in Jobs : \A i \in DOMAIN job.mail : Sighted(job.mail[i])
\* The account has the one LID that the Gateway tells, if any.  The Gateway sends an own
\* message with both sides (senderIdentityFromKey); any other private chat is with who writes.
Addressing(m) ==
  IF m.mine THEN m.from = Bot
  ELSE /\ Person(Jid(m.from)) # SelfPn
       /\ m.chat # <<>> => Person(Jid(m.chat)) = Person(Jid(m.from))
ASSUME AccountAssumption ==
  /\ SelfPn \in Pns /\ \A l \in Lids : Owner[l] = SelfPn => l = SelfLid
  /\ \A job \in Jobs : \A i \in DOMAIN job.mail : Addressing(job.mail[i])
\* No name and no text of a public ID is the number of anybody.
ASSUME TextsAssumption ==
  NameOf \in [Keys -> Nat \ Keys] /\ \A l \in Lids : LidText(l) \notin Keys

VARIABLES mail, next,   \* the stream and the place in it
          config, cache,
          task,         \* the message that is handled, and what is known of it
          decided,      \* what became of the messages
          journal, log, \* the reactions, and all that were ever observed
          now, breaks, reloads

stream == <<mail, next>>
bounds == <<now, breaks, reloads>>
vars == <<stream, config, cache, task, decided, journal, log, bounds>>

Idle == [pc |-> "idle", m |-> 0, pn |-> 0, rule |-> 0, known |-> {}, heard |-> {}, chain |-> <<>>,
         woken |-> FALSE]
Private(m) == m.chat # <<>>
ChatJid(m) == IF Private(m) THEN Jid(m.chat) ELSE GroupChat
Here(c, l, p) == IF p = 0 THEN PnOf(c, l) ELSE p
-----------------------------------------------------------------------------
\* same_whatsapp_identity: the same, or the two sides of a known link.
Same(c, j, k) ==
  \/ j = k
  \/ j \in c.known /\ Owner[j] = k
  \/ k \in c.known /\ Owner[k] = j
IsSelf(c, k) == Same(c, k, SelfPn) \/ (SelfLid # 0 /\ Same(c, k, SelfLid))

PublicText(id) == IF id \in Lids THEN LidText(id) ELSE id
\* The words by which a message may show a mention of k.
Tokens(c, k) ==
  IF k = All THEN {All}
  ELSE {k, PublicText(IdOf(c, k))}
         \cup (IF NameOf[k] = 0 THEN {} ELSE {NameOf[k]})
         \cup ({PnOf(c, k), IF k \in Pns THEN LidFor(c, k) ELSE 0} \ {0})
         \cup (IF IsSelf(c, k) THEN {SelfPn, SelfLid} \ {0} ELSE {})
Word(t) == [is |-> "word", of |-> t]
At(c, k) == [is |-> "at", of |-> IF k = All THEN All ELSE IF IsSelf(c, k) THEN IdOf(c, SelfPn) ELSE IdOf(c, k)]

\* Each visible mention becomes a component in its place: the first mention of that word
\* that is not used yet, or the first of all.
Candidates(c, m, t) == {i \in DOMAIN m.at : t \in Tokens(c, m.at[i])}
\* Mutant: the first mention with the word is always taken.
TakenFirst(c, m, t, used) == Min(Candidates(c, m, t))
Taken(c, m, t, used) ==
  LET free == Candidates(c, m, t) \ used IN Min(IF free = {} THEN Candidates(c, m, t) ELSE free)
\* The mentions that the first n words used up.
UsedUp(c, m, text) ==
  LET used[n \in 0 .. Len(text)] ==
        IF n = 0 THEN {}
        ELSE used[n - 1] \cup (IF Candidates(c, m, text[n]) = {} THEN {}
                               ELSE {Taken(c, m, text[n], used[n - 1])})
  IN  used
Placed(c, m, text) ==
  LET used == UsedUp(c, m, text)
  IN  [n \in DOMAIN text |->
         IF Candidates(c, m, text[n]) = {} THEN Word(text[n])
         ELSE At(c, m.at[Taken(c, m, text[n], used[n - 1])])]
\* The numbers of a set, the least one first.
InOrder(S) == [i \in 1 .. Cardinality(S) |-> CHOOSE k \in S : Cardinality({j \in S : j < k}) = i - 1]
\* The mentions that no word shows come first.
Missing(c, m, text) == InOrder(DOMAIN m.at \ UsedUp(c, m, text)[Len(text)])
Ordered(c, m, text) ==
  LET missing == Missing(c, m, text)
  IN  [i \in DOMAIN missing |-> At(c, m.at[missing[i]])] \o Placed(c, m, text)

Media(m) == [i \in DOMAIN m.media |-> IF m.media[i] THEN [is |-> "file", of |-> i] ELSE [is |-> "missing", of |-> i]]
Extra(m) == IF m.extra THEN <<[is |-> "extra", of |-> 0]>> ELSE <<>>
\* The summary of media gives way to the media, that of a poll or the like to the poll.
Shown(m) == IF m.media # <<>> /\ m.text = <<Marker>> THEN <<>> ELSE m.text
Quoted(c, m) ==
  IF m.quote = 0 THEN <<>>
  ELSE <<[is |-> "reply", of |-> IF IsSelf(c, m.quote) THEN 0 ELSE IdOf(c, m.quote)]>>
Body(c, m) ==
  IF m.extra \/ Shown(m) = <<>>
  THEN IF ToSet(m.at) \cap Keys = {} THEN <<>> ELSE Ordered(c, m, <<>>)
  ELSE Ordered(c, m, Shown(m))
Chain(c, m) == Quoted(c, m) \o Body(c, m) \o Extra(m) \o Media(m)

\* _message_mentions_self: by a mention, of everybody or of the account, or by a word.
Mentioned(c, m, cfg) ==
  \/ ~cfg.ignoreAll /\ All \in ToSet(m.at)
  \/ \E k \in ToSet(m.at) \ {All} : IsSelf(c, k)
  \/ PublicText(IdOf(c, SelfPn)) \in ToSet(m.text)
\* Mutant: a quoted message of the bot calls it.
WakesByQuote(c, m, cfg) == Mentioned(c, m, cfg) \/ m.call # "none" \/ (m.quote # 0 /\ IsSelf(c, m.quote))
Wakes(c, m, cfg) == Mentioned(c, m, cfg) \/ m.call # "none"

\* _is_sender_allowed: an item of the list names one of the addresses.
\* Mutant: a LID in the list is not known by its number.
NamedOneWay(c, list, v) == Star \in list \/ v \in list
Named(c, list, v) == Star \in list \/ \E item \in list : v # 0 /\ Same(c, item, v)
Listed(c, list, m, pn) ==
  \E v \in {ChatJid(m), Jid(m.from), pn} : Named(c, list, v) \/ Named(c, list, PnOf(c, v))
List(m, cfg) ==
  IF Private(m) \/ cfg.groupFrom = {} THEN cfg.from ELSE cfg.groupFrom
Policy(m, cfg) ==
  IF Private(m) THEN cfg.dm ELSE IF cfg.groupListed THEN cfg.group ELSE "disabled"
\* "ask": the sender is not listed, and their number is not known yet.
Verdict(c, m, pn, cfg) ==
  CASE Policy(m, cfg) = "disabled" -> "no"
    [] Policy(m, cfg) = "open" -> "yes"
    [] OTHER -> IF Listed(c, List(m, cfg), m, pn) THEN "yes"
                ELSE IF m.from[1] # 0 /\ pn = 0 THEN "ask" ELSE "no"

\* rule is the configuration the message was looked at under, cfg the one it is answered under.
ShouldAck(c, m, rule, cfg) ==
  IF Private(m) THEN cfg.ackPrivate
  ELSE \/ cfg.ackGroup = "always"
       \/ cfg.ackGroup = "mentions" /\ (Mentioned(c, m, rule) \/ m.call = "command")

\* All that a message shows is projected: its sender, its chat, the account, whom it mentions
\* and whom it quotes.
Sighting(k) == IF k \in Lids THEN <<k, 0>> ELSE <<0, k>>
ProjectSides(c, sides) == Project(c, sides[1], sides[2])
Addressed(c, m, pn) ==
  LET chat == IF Private(m) THEN <<m.chat[1], Here(c, m.chat[1], m.chat[2])>> ELSE Bot
  IN  ProjectSides(ProjectSides(Project(c, m.from[1], pn), chat), Bot)
Persons(m) == Append(m.at, m.quote)
Seen(c, m, pn) ==
  LET seen[n \in 0 .. Len(Persons(m))] ==
        IF n = 0 THEN Addressed(c, m, pn)
        ELSE IF Persons(m)[n] \in Keys THEN ProjectSides(seen[n - 1], Sighting(Persons(m)[n]))
        ELSE seen[n - 1]
  IN  seen[Len(Persons(m))]
-----------------------------------------------------------------------------
Init == /\ \E job \in Jobs : mail = job.mail /\ config = job.config
        /\ next = 1 /\ task = Idle /\ decided = <<>>
        /\ cache = [Off EXCEPT !.up = TRUE]
        /\ journal = {} /\ log = <<>>
        /\ now = 0 /\ breaks = 0 /\ reloads = 0

Observe(chat, message, sender, emoji) ==
  LET e == [chat |-> chat, message |-> message, sender |-> sender, emoji |-> emoji, at |-> now,
            turn |-> Len(log) + 1]
  IN  journal' = Record(journal, e) /\ log' = Append(log, e)
Quiet == UNCHANGED <<journal, log>>
\* What became of the message, with what was known when it was looked at.
Settle(t, outcome) ==
  /\ task' = Idle
  /\ decided' = Append(decided, [m |-> t.m, outcome |-> outcome, woken |-> t.woken, pn |-> t.pn,
                                 known |-> t.known, heard |-> t.heard, rule |-> t.rule, chain |-> t.chain])
Wait(t, pc) == task' = [t EXCEPT !.pc = pc] /\ UNCHANGED decided

ReactionOnly(m) == m.react.of # 0 /\ m.media = <<>> /\ ~m.extra /\ m.text \in {<<>>, <<Marker>>}
\* handle_msg up to its first await.
Handle(c, t) ==
  LET m == t.m
      done == [t EXCEPT !.chain = Chain(c, m), !.rule = config, !.known = c.known, !.heard = c.known,
                        !.woken = Wakes(c, m, config)]
      verdict == Verdict(c, m, t.pn, config)
  IN  /\ cache' = c
      /\ IF config.ignoreSelf /\ IsSelf(c, Jid(m.from)) THEN Settle(t, "ignored") /\ Quiet
         ELSE IF ReactionOnly(m)
         THEN /\ Observe(ChatJid(m), m.react.of, IdOf(c, Jid(m.from)), m.react.emoji)
              /\ Settle(t, "recorded")
         ELSE /\ Quiet
              /\ CASE verdict = "no" -> Settle(done, "refused")
                   [] verdict = "ask" -> Wait(done, "admit")
                   [] OTHER -> IF ShouldAck(c, m, config, config) THEN Wait(done, "ack")
                               ELSE Settle(done, "committed")
\* convert_message once it knows of the number of the sender what it will know.
Convert(c, t) ==
  IF Private(t.m) /\ Here(c, t.m.chat[1], t.m.chat[2]) = 0
  THEN cache' = c /\ Wait(t, "chat") /\ Quiet
  ELSE Handle(Seen(c, t.m, t.pn), t)
-----------------------------------------------------------------------------
\* The sides of the sender are linked if the message tells both; else their number is asked for.
Take ==
  /\ task.pc = "idle" /\ next \in DOMAIN mail /\ next' = next + 1
  /\ LET m == mail[next]
         l == m.from[1]
         p == Here(cache, l, m.from[2])
         t == [Idle EXCEPT !.m = m, !.pn = p, !.rule = config]
     IN  IF m.mine /\ config.ignoreSelf THEN Settle(t, "ignored") /\ UNCHANGED cache /\ Quiet
         ELSE IF p = 0 THEN Wait(t, "sender") /\ UNCHANGED cache /\ Quiet
         ELSE Convert(IF l # 0 /\ l \notin cache.known THEN Remember(cache, l, p) ELSE cache, t)
  /\ UNCHANGED <<mail, config, bounds>>

\* _resolve_lid_pn: the Gateway tells the number within four seconds, or it stays unknown.
AskSender(told) ==
  /\ task.pc = "sender"
  /\ LET l == task.m.from[1]
     IN  IF told THEN Convert(Remember(cache, l, Owner[l]), [task EXCEPT !.pn = Owner[l]])
         ELSE Convert(cache, task)
  /\ UNCHANGED <<stream, config, bounds>>
AskChat(told) ==
  /\ task.pc = "chat"
  /\ LET l == task.m.chat[1]
     IN  Handle(Seen(IF told THEN Remember(cache, l, Owner[l]) ELSE cache, task.m, task.pn), task)
  /\ UNCHANGED <<stream, config, bounds>>
\* A sender who is not listed under their LID may be under their number.
AskAdmit(told) ==
  /\ task.pc = "admit" /\ Quiet
  /\ LET l == task.m.from[1]
         t == IF told THEN [task EXCEPT !.pn = Owner[l], !.heard = cache.known] ELSE task
     IN  IF told /\ Named(cache, List(t.m, t.rule), Owner[l])
         THEN LET c == Remember(cache, l, Owner[l])
              IN  /\ cache' = c
                  /\ IF ShouldAck(c, t.m, t.rule, config) THEN Wait(t, "ack") ELSE Settle(t, "committed")
         ELSE UNCHANGED cache /\ Settle(t, "refused")
  /\ UNCHANGED <<stream, config, bounds>>
\* react: what the Gateway took is observed as well; a refusal is only logged.
Acknowledge(ok) ==
  /\ task.pc = "ack"
  /\ IF ok THEN Observe(ChatJid(task.m), task.m.id, IdOf(cache, SelfPn), Eyes)
     ELSE Quiet
  /\ Settle(task, "committed")
  /\ UNCHANGED <<stream, config, cache, bounds>>
-----------------------------------------------------------------------------
\* get_group, called by another task while this one waits.
GroupListed(l) ==
  /\ task.pc # "idle" /\ l \notin cache.known
  /\ cache' = Project(cache, l, Owner[l])
  /\ UNCHANGED <<stream, config, task, decided, journal, log, bounds>>
\* A reload ends the stream after the message that is handled.
Reload(cfg) ==
  /\ reloads < MaxReloads /\ cfg # config
  /\ config' = cfg /\ next' = Len(mail) + 1 /\ reloads' = reloads + 1
  /\ UNCHANGED <<mail, cache, task, decided, journal, log, now, breaks>>
\* The stream breaks, or the task is cancelled where it waits.
Break ==
  /\ breaks < MaxBreaks /\ (next <= Len(mail) \/ task.pc # "idle")
  /\ breaks' = breaks + 1 /\ next' = Len(mail) + 1
  /\ IF task.pc = "idle" THEN UNCHANGED <<task, decided>> ELSE Settle(task, "lost")
  /\ UNCHANGED <<mail, config, cache, journal, log, now, reloads>>
Tick == /\ now < MaxTime /\ now' = now + 1
        /\ UNCHANGED <<stream, config, cache, task, decided, journal, log, breaks, reloads>>
\* get_arbiter_reaction_users prunes the journal it reads.
Query == /\ journal' = Pruned(journal, now)
         /\ UNCHANGED <<stream, config, cache, task, decided, log, bounds>>

Work == \/ Take
        \/ \E told \in BOOLEAN : AskSender(told) \/ AskChat(told) \/ AskAdmit(told)
        \/ \E ok \in BOOLEAN : Acknowledge(ok)
Next == \/ Work \/ Break \/ Tick \/ Query
        \/ \E l \in Lids : GroupListed(l)
        \/ \E cfg \in Reloaded : Reload(cfg)
Spec == Init /\ [][Next]_vars
-----------------------------------------------------------------------------
\* An item of the list lets a message in exactly when it names the chat or, under any identity
\* known to be theirs when the message is looked at, the person who writes, whichever of their
\* identities they wrote from; once their number is told, what is known of it by then counts
\* (_is_sender_allowed: a link that another task learns during the question helps only an
\* answered one).
Linked(d, k) == k = Jid(d.m.from) \/ {k, Jid(d.m.from)} \cap Lids \subseteq d.known
Sender(d, k) ==
  /\ k \in Keys /\ Person(k) = Person(Jid(d.m.from))
  /\ \/ Linked(d, k)
     \/ d.pn # 0 /\ (k \in Lids => k \in d.heard)
ChatOf(d, k) ==
  \/ k = ChatJid(d.m)
  \/ /\ Private(d.m) /\ k \in Keys /\ Person(k) = Person(ChatJid(d.m))
     /\ {k, ChatJid(d.m)} \cap Lids \subseteq d.known
LetIn(d) ==
  \/ Policy(d.m, d.rule) = "open"
  \/ /\ Policy(d.m, d.rule) # "disabled"
     /\ \E k \in List(d.m, d.rule) : k = Star \/ Sender(d, k) \/ ChatOf(d, k)
AdmittedIffListed ==
  \A i \in DOMAIN decided :
    /\ decided[i].outcome = "committed" => LetIn(decided[i])
    /\ decided[i].outcome = "refused" => ~LetIn(decided[i])

\* A message wakes the bot exactly when it mentions the account under either identity,
\* everybody (unless that is ignored) or its number in the text, or is a command; to quote
\* the bot alone neither wakes it nor names it as the sender of the quote, which AstrBot would
\* take for a call (_message_mentions_self, _message_chain, handle_msg).
Calls(d) ==
  \/ d.m.call # "none"
  \/ All \in ToSet(d.m.at) /\ ~d.rule.ignoreAll
  \/ \E k \in ToSet(d.m.at) \cap Keys : Person(k) = SelfPn
  \/ SelfPn \in ToSet(d.m.text)
RightlyWoken(d) ==
  /\ d.woken = Calls(d)
  /\ Person(d.m.quote) = SelfPn =>
       \A j \in DOMAIN d.chain : d.chain[j].is = "reply" => d.chain[j].of = 0
WokenByCall ==
  \A i \in DOMAIN decided : decided[i].outcome = "committed" => RightlyWoken(decided[i])

\* The chain of a message holds its parts in order, none twice and none left out: the quote,
\* then the mentions that no word shows, the words with the mentions that they show in their
\* places, each person mentioned there (a mention of everybody is lost without words), what
\* else it holds, and one component for each medium, received or not; a name shown twice is
\* not one person twice while another of that name is left over, unless one of the two is
\* mentioned twice (_ordered_text_components, _message_chain).
Shows(x, k) == x.is = "at" /\ (IF k = All THEN x.of = All ELSE x.of \in Keys /\ Person(x.of) = Person(k))
Once(m, x) == \A a, b \in DOMAIN m.at : Shows(x, m.at[a]) /\ Shows(x, m.at[b]) => a = b
Names(word, k) ==
  IF k = All THEN word = All
  ELSE word = NameOf[k] \/ \E l \in Lids : word = LidText(l) /\ Person(l) = Person(k)
WordKept(m, word, x) ==
  \/ x = Word(word) /\ word \notin ToSet(m.at)
  \/ word \in Keys /\ Shows(x, word)
  \/ word \notin Keys /\ \E k \in ToSet(m.at) : Names(word, k) /\ Shows(x, k)
Keeps(d) ==
  LET m     == d.m
      text  == IF m.extra THEN <<>> ELSE Shown(m)
      first == IF m.quote = 0 THEN 0 ELSE 1
      rest  == Extra(m) \o Media(m)
      size  == Len(d.chain) - first - Len(rest)
      front == size - Len(text)
      part(j) == d.chain[first + j]
  IN /\ first = 1 => d.chain[1].is = "reply"
     /\ front >= 0 /\ \A j \in 1 .. front : part(j).is = "at"
     /\ \A j \in DOMAIN text : WordKept(m, text[j], part(front + j))
     /\ \A k \in ToSet(m.at) : (k = All /\ text = <<>>) \/ \E j \in 1 .. size : Shows(part(j), k)
     /\ \A j, n \in DOMAIN text :
          j < n /\ part(front + j) = part(front + n) /\ part(front + n).is = "at" /\ Once(m, part(front + n)) =>
            \A f \in 1 .. front, a \in DOMAIN m.at :
              Shows(part(f), m.at[a]) /\ Once(m, part(f)) /\ m.at[a] \in Keys =>
                text[n] \notin {NameOf[m.at[a]]} \ {0}
     /\ \A j \in DOMAIN rest : d.chain[first + size + j] = rest[j]
ChainKeepsMessage ==
  \A i \in DOMAIN decided : decided[i].outcome = "committed" => Keeps(decided[i])

\* The journal answers what it promises of all reactions that were ever observed, the bot's
\* own included (ReactionJournal, react, handle_msg).
JournalAnswers == Answers(journal, log, now)
=============================================================================
