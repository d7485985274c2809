-------------------------- MODULE AdapterInboundMC --------------------------
(***************************************************************************)
(* Three families of streams: two messages of one person under every form   *)
(* of their identity and every list that may name them; one message of      *)
(* every text of up to two words with every pair of mentions; and a message *)
(* that is acknowledged among reactions to it.                              *)
(***************************************************************************)
EXTENDS AdapterInbound, TLC

\* A person with a number and two LIDs, another of the same name, and the account.
MCOwner == (11 :> 1) @@ (12 :> 2) @@ (13 :> 3) @@ (14 :> 1)
MCNames == [k \in Keys |-> IF k \in {1, 2, 11, 12} THEN 500 ELSE 0]
Hello == 900

Rules == [dm |-> "allowlist", group |-> "allowlist", groupListed |-> TRUE, from |-> {}, groupFrom |-> {},
          ignoreSelf |-> FALSE, ignoreAll |-> FALSE, ackPrivate |-> FALSE, ackGroup |-> "never"]
Plain == [id |-> 1, from |-> <<11, 0>>, chat |-> <<>>, mine |-> FALSE, text |-> <<Hello>>, at |-> <<>>,
          quote |-> 0, media |-> <<>>, extra |-> FALSE, call |-> "none", react |-> [of |-> 0, emoji |-> 0]]

\* Who writes: by LID, by LID and number, or by number, alone or in the group.
Addresses == {<<11, 0>>, <<11, 1>>, <<0, 1>>}
Writes(id) ==
  {[Plain EXCEPT !.id = id, !.from = s, !.chat = c] : s \in Addresses, c \in {<<>>}}
    \cup {[Plain EXCEPT !.id = id, !.from = s, !.chat = s] : s \in Addresses}
ByMe(id) == {[Plain EXCEPT !.id = id, !.from = Bot, !.mine = TRUE, !.chat = c] : c \in {<<>>, <<11, 0>>}}
Lists == {{}, {1}, {11}, {14}, {2}, {Star}, {GroupChat}}
Admission ==
  {[mail |-> <<a, b>>, config |-> [Rules EXCEPT !.from = l, !.ackPrivate = TRUE, !.ackGroup = "mentions"]] :
     a \in Writes(1) \cup ByMe(1), b \in Writes(2), l \in Lists}
  \cup {[mail |-> <<a>>, config |-> [Rules EXCEPT !.dm = "disabled", !.group = "open", !.ignoreSelf = TRUE]] :
     a \in Writes(1) \cup ByMe(1)}

\* What a text shows and whom the message mentions.
Open == [Rules EXCEPT !.dm = "open", !.group = "open"]
Words == {Hello, 1, 2, 11, 13, 500, LidText(11), All, 3}
Texts == {<<>>} \cup {<<v>> : v \in Words} \cup {<<v, w>> : v, w \in Words}
Mentions == {<<>>} \cup {<<j>> : j \in {All, 1, 11, 13}} \cup {<<j, k>> : j \in {1, 11}, k \in {2, 12, 3, 1}}
Talk ==
  {[mail |-> <<[Plain EXCEPT !.from = <<12, 2>>, !.text = t, !.at = m, !.quote = q]>>, config |-> c] :
     t \in Texts, m \in Mentions, q \in {0, 13}, c \in {Open, [Open EXCEPT !.ignoreAll = TRUE]}}
  \cup {[mail |-> <<[Plain EXCEPT !.from = <<11, 1>>, !.text = t, !.at = <<1, 11, 2>>]>>, config |-> Open] : t \in Texts}
  \cup {[mail |-> <<[Plain EXCEPT !.from = <<12, 2>>, !.text = t, !.media = d, !.extra = x, !.at = <<1>>, !.call = c]>>, config |-> Open] :
     t \in {<<>>, <<Marker>>, <<Hello>>, <<1, Hello>>}, d \in {<<TRUE>>, <<FALSE, TRUE>>}, x \in BOOLEAN, c \in {"none", "command", "legacy"}}

\* Two bots react to a message that this one acknowledges; one takes its reaction back.
React(id, from, emoji) == [Plain EXCEPT !.id = id, !.from = from, !.text = <<>>, !.react = [of |-> 1, emoji |-> emoji]]
Arbitration ==
  {[mail |-> <<[Plain EXCEPT !.from = <<12, 2>>]>> \o r, config |-> [Open EXCEPT !.ackGroup = "always"]] :
     r \in {<<React(2, f, e), React(3, <<12, 2>>, 1), React(4, f, g), React(5, h, d)>> :
              f \in {<<11, 1>>}, e \in {1, 2}, g \in {0, 1, 2}, h \in {<<11, 1>>, <<12, 2>>}, d \in {0, 1}}}

MCJobs == Admission \cup Talk \cup Arbitration
MCReloaded == {Open, Rules}

\* Time matters only once something was observed.
Timely == now = 0 \/ log # <<>>
=============================================================================
