----------------------------- MODULE TextFormat -----------------------------
(***************************************************************************)
(* From Markdown to the messages of a chat: the inline renderer            *)
(* (_whatsapp_helpers_impl.py) and the chunker (whatsapp_chunking.py) as   *)
(* pure operators on sequences of characters.                              *)
(*                                                                         *)
(* A character is [c, n, s]: its kind, its position in the source text (0  *)
(* if the code inserted it) and whether it opens or closes formatting.  The  *)
(* kinds tell apart what the code tells apart:                             *)
(*   "a" a letter   " " space   "." punctuation   "*" "_" "~" "tick"       *)
(*   "U" the beginning of a URL   "@" "n" a mention   "J" a word joiner    *)
(* Texts are one paragraph; blocks, links, escapes and brackets are left   *)
(* out.                                                                    *)
(***************************************************************************)
EXTENDS Integers, Sequences, FiniteSets, SequencesExt

CONSTANT UrlWidth   \* how many characters a "U" stands for

Kinds   == {"a", " ", ".", "*", "_", "~", "tick", "U", "@", "n"}
Styles  == {"*", "_", "~"}
Characters == [c : Kinds \cup {"J"}, n : Nat, s : {"none", "open", "close"}]
Source(ks) == [i \in DOMAIN ks |-> [c |-> ks[i], n |-> i, s |-> "none"]]

\* What n rounds of a loop make of base.
Rounds(Round(_, _), base, n) ==
  LET after[k \in 0..n] == IF k = 0 THEN base ELSE Round(after[k - 1], k) IN after[n]
Tail2(seq, i)   == SubSeq(seq, i, Len(seq))
KindAt(t, i)    == IF i \in DOMAIN t THEN t[i].c ELSE ""
Mark(c, n, s)   == [c |-> c, n |-> n, s |-> s]
Joiner          == [c |-> "J", n |-> 0, s |-> "none"]
VisibleKinds    == {"a", ".", "U", "@", "n"}
HasVisible(t)   == \E i \in DOMAIN t : t[i].c \in VisibleKinds
Width(t)        == FoldLeft(LAMBDA w, x : w + IF x.c = "U" THEN UrlWidth ELSE 1, 0, t)

\* The last index of the run of one kind that begins at i.
RunEnd(t, i) ==
  CHOOSE j \in i..Len(t) : /\ \A k \in i..j : t[k].c = t[i].c
                           /\ KindAt(t, j + 1) # t[i].c

\* A marker between two characters may open and may close a span; "_" and
\* "~" are stricter inside words.
SpaceLike(k)   == k \in {"", " "}
PunctLike(k)   == k \in Styles \cup {".", "tick", "@"}
Flanking(before, after, marker) ==
  LET left  == ~SpaceLike(after) /\ (~PunctLike(after) \/ SpaceLike(before) \/ PunctLike(before))
      right == ~SpaceLike(before) /\ (~PunctLike(before) \/ SpaceLike(after) \/ PunctLike(after))
  IN IF marker \in {"_", "~"}
     THEN [open |-> left /\ (~right \/ PunctLike(before)), close |-> right /\ (~left \/ PunctLike(after))]
     ELSE [open |-> left, close |-> right]

WordEnd(t, i) == CHOOSE j \in i..Len(t) : (\A k \in i..j : t[k].c # " ") /\ KindAt(t, j + 1) \in {"", " "}
\* A URL reaches to the next space, without trailing punctuation and without
\* the longest tail that closes delimiters which were open before it.
UrlTail(t, i, open) ==
  LET blank  == WordEnd(t, i)
      trim   == CHOOSE j \in i..blank : (\A k \in (j + 1)..blank : t[k].c = ".") /\ t[j].c # "."
      closer(k) == FlattenSeq(Reverse(Tail2(open, Len(open) - k + 1)))
      fits(k)   == LET cs == closer(k) IN
                   Len(cs) <= trim - i /\ \A d \in 1..Len(cs) : t[trim - Len(cs) + d].c = cs[d]
      counts == {k \in 1..Len(open) : fits(k)}
  IN IF counts = {} THEN trim ELSE trim - Len(closer(CHOOSE k \in counts : \A l \in counts : l <= k))

-----------------------------------------------------------------------------
(* The renderer: pieces, pairs, the tail, unsafe pairs, output.             *)

Piece(kind, cs) == [kind |-> kind, chars |-> cs, m |-> "", cand |-> FALSE, pair |-> 0, s |-> "none"]
Text(cs)   == Piece("text", cs)
Opaque(cs) == Piece("opaque", cs)
Delimiter(cs, cand) == [kind |-> "mark", chars |-> cs, m |-> cs[1].c, cand |-> cand, pair |-> 0, s |-> "none"]
AddText(pieces, cs) ==
  IF pieces # <<>> /\ Last(pieces).kind = "text"
  THEN [pieces EXCEPT ![Len(pieces)].chars = @ \o cs] ELSE Append(pieces, Text(cs))
Escaped(cs) == FlattenSeq([i \in DOMAIN cs |-> IF cs[i].c \in Styles \cup {"tick"} THEN <<cs[i], Joiner>> ELSE <<cs[i]>>])

\* A code span keeps its content opaque; ticks in it need the longer fence,
\* and a fence in it leaves no delimiter at all.
CodeToken(cs, from, to) ==
  LET trims == /\ Len(cs) >= 2 /\ cs[1].c = " " /\ Last(cs).c = " "
               /\ \E i \in DOMAIN cs : cs[i].c # " "
      body  == IF trims THEN SubSeq(cs, 2, Len(cs) - 1) ELSE cs
      fence(n, s) == [k \in 1..(IF \E i \in DOMAIN body : body[i].c = "tick" THEN 3 ELSE 1) |-> Mark("tick", n, s)]
      fenced == \E i \in DOMAIN body : {KindAt(body, i), KindAt(body, i + 1), KindAt(body, i + 2)} = {"tick"}
  IN IF fenced THEN Escaped(body) ELSE fence(from, "open") \o body \o fence(to, "close")

\* One run of backticks: literal when the runs of its length are odd in
\* number from here on, else it closes at the next one.
Ticks(acc, t, i) ==
  LET e     == RunEnd(t, i)
      twins == {j \in i..Len(t) : /\ t[j].c = "tick" /\ (j = i \/ t[j - 1].c # "tick")
                                  /\ RunEnd(t, j) - j = e - i}
      close == CHOOSE j \in twins \ {i} : \A k \in twins \ {i} : j <= k
  IN IF Cardinality(twins) % 2 = 1
     THEN [acc EXCEPT !.pieces = AddText(@, Escaped(SubSeq(t, i, e))), !.next = e + 1]
     ELSE [acc EXCEPT !.pieces = Append(@, Opaque(CodeToken(SubSeq(t, e + 1, close - 1), t[i].n, t[close].n))),
                      !.next = close + (e - i) + 1]

\* One run of style markers: it closes what is open on top of the stack as
\* long as it can, opens with what is left, and the rest is literal.
CloseOne(acc, chars) ==
  LET top == Last(acc.stack) IN
  IF /\ acc.stack # <<>> /\ acc.pieces[top].m = chars[1].c
     /\ Len(acc.pieces[top].chars) <= Len(acc.left)
  THEN LET size == Len(acc.pieces[top].chars) IN
       [acc EXCEPT !.pieces = Append([@ EXCEPT ![top].pair = acc.pairs + 1, ![top].s = "open"],
                                     [Delimiter(SubSeq(acc.left, 1, size), TRUE) EXCEPT !.pair = acc.pairs + 1, !.s = "close"]),
                   !.stack = Front(@), !.pairs = @ + 1, !.left = Tail2(@, size + 1)]
  ELSE acc
OpenOne(acc, size) ==
  [acc EXCEPT !.pieces = Append(@, Delimiter(SubSeq(acc.left, 1, size), TRUE)),
              !.stack = Append(@, Len(acc.pieces) + 1), !.left = Tail2(@, size + 1)]
Closed(acc, run, f) == IF f.close THEN Rounds(LAMBDA a, k : CloseOne(a, run), acc, Len(run)) ELSE acc
Sizes(m, n)  == (IF m # "~" /\ n % 2 = 1 THEN <<1>> ELSE <<>>) \o [k \in 1..(n \div 2) |-> 2]
Opened(acc, m, f) ==
  LET sizes == Sizes(m, Len(acc.left))
  IN IF f.open /\ acc.left # <<>> THEN Rounds(LAMBDA a, k : OpenOne(a, sizes[k]), acc, Len(sizes)) ELSE acc
Literal(acc, cs, cand) ==
  IF cs = <<>> THEN acc ELSE [acc EXCEPT !.pieces = Append(@, Delimiter(cs, cand)), !.left = <<>>]
Unopened(acc, f) == Literal(acc, acc.left, f.open \/ f.close)
\* A tilde too many stands behind the pairs of its run.
MarkerRun(acc, run, f) ==
  LET m   == run[1].c
      odd == IF m = "~" /\ Len(run) % 2 = 1 THEN <<Last(run)>> ELSE <<>>
      own == [acc EXCEPT !.left = IF odd = <<>> THEN run ELSE Front(run), !.next = @ + Len(run)]
  IN Literal(Unopened(Opened(Closed(own, run, f), m, f), f), odd, FALSE)
Markers(acc, t, i) ==
  LET e == RunEnd(t, i)
  IN MarkerRun(acc, SubSeq(t, i, e), Flanking(KindAt(t, i - 1), KindAt(t, e + 1), t[i].c))

Url(acc, t, i) ==
  LET open == [k \in DOMAIN acc.stack |-> LET p == acc.pieces[acc.stack[k]] IN [d \in DOMAIN p.chars |-> p.m]]
      e    == UrlTail(t, i, open)
  IN [acc EXCEPT !.pieces = Append(@, Opaque(SubSeq(t, i, e))), !.next = e + 1]

PieceAt(acc, t, i) ==
  IF i < acc.next THEN acc
  ELSE CASE t[i].c = "U" -> Url(acc, t, i)
         [] t[i].c = "tick" -> Ticks(acc, t, i)
         [] t[i].c \in Styles -> Markers(acc, t, i)
         [] OTHER -> [acc EXCEPT !.pieces = AddText(@, <<t[i]>>), !.next = i + 1]
Unread    == [pieces |-> <<>>, stack |-> <<>>, next |-> 1, pairs |-> 0, left |-> <<>>]
Pieces(t) == Rounds(LAMBDA acc, i : PieceAt(acc, t, i), Unread, Len(t)).pieces

Unmatched(p) == p.kind = "mark" /\ p.pair = 0
\* Two or more unmatched markers at the very end (spaces aside) are dropped.
DroppedTail(ps) ==
  LET blank(p) == p.kind = "text" /\ \A i \in DOMAIN p.chars : p.chars[i].c = " "
      ends     == {j \in 0..Len(ps) : (\A k \in (j + 1)..Len(ps) : blank(ps[k])) /\ (j = 0 \/ ~blank(ps[j]))}
      last     == CHOOSE j \in ends : TRUE
      tail     == {k \in 1..last : \A l \in k..last : Unmatched(ps[l])}
  IN IF Cardinality(tail) >= 2 \/ \E k \in tail : Len(ps[k].chars) >= 2 THEN tail ELSE {}

StyleOf(p) == IF p.m = "~" THEN "~" ELSE IF Len(p.chars) = 2 THEN "*" ELSE "_"
Rendered(p, streaming) ==
  CASE p.kind # "mark"        -> p.chars
    [] p.pair # 0             -> <<Mark(StyleOf(p), p.chars[1].n, p.s)>>
    [] Unmatched(p) /\ p.cand /\ streaming -> <<>>
    [] OTHER                  -> IF p.cand THEN Escaped(p.chars) ELSE p.chars

\* Pairs whose outer neighbour would be a letter are not rendered; dropping
\* one may expose another, up to the fixpoint.
UnsafePairs(ps, dropped, streaming) ==
  LET ids == {ps[i].pair : i \in DOMAIN ps} \ {0}
      shown(i, off) == i \notin dropped /\ ps[i].pair \notin off /\ Rendered(ps[i], streaming) # <<>>
      ahead(i, off)  == {k \in (i + 1)..Len(ps) : shown(k, off)}
      behind(i, off) == {k \in 1..(i - 1) : shown(k, off)}
      safe(k) == SpaceLike(k) \/ PunctLike(k) \/ k = "J"
      mark(id, side) == CHOOSE i \in DOMAIN ps : ps[i].pair = id /\ ps[i].s = side
      exposed(b, a) == \/ b # {} /\ ~safe(Last(Rendered(ps[Max(b)], streaming)).c)
                       \/ a # {} /\ ~safe(Head(Rendered(ps[Min(a)], streaming)).c)
      unsafe(id, off) == exposed(behind(mark(id, "open"), off), ahead(mark(id, "close"), off))
      off[k \in 0..Cardinality(ids)] ==
        IF k = 0 THEN {} ELSE off[k - 1] \cup {id \in ids : unsafe(id, off[k - 1])}
  IN off[Cardinality(ids)]

Remaining(ps, dropped, unsafe, streaming) ==
  FlattenSeq([i \in DOMAIN ps |->
    IF i \in dropped \/ (ps[i].pair # 0 /\ ps[i].pair \in unsafe) THEN <<>> ELSE Rendered(ps[i], streaming)])
Output(ps, dropped, streaming) == Remaining(ps, dropped, UnsafePairs(ps, dropped, streaming), streaming)
RenderPieces(ps, streaming)    == Output(ps, DroppedTail(ps), streaming)
Render(t, streaming)           == RenderPieces(Pieces(t), streaming)

-----------------------------------------------------------------------------
(* The chunker: it parses the rendered text again, independently.           *)

\* What a style character does in a stack of open styles.
StyleRole(v, i, open) ==
  LET near  == {KindAt(v, i - 1), KindAt(v, i + 1)}
      f     == IF "J" \in near THEN [open |-> FALSE, close |-> FALSE]
               ELSE Flanking(KindAt(v, i - 1), KindAt(v, i + 1), v[i].c)
      list  == v[i].c = "*" /\ i = 1 /\ KindAt(v, 2) = " "
  IN CASE list -> "none"
       [] ~list /\ open # <<>> /\ Last(open) = v[i].c /\ (f.close \/ i = Len(v)) -> "close"
       [] OTHER -> IF f.open /\ ~list THEN "open" ELSE "none"
Guarded(v, i, j) == "J" \in {KindAt(v, i - 1), KindAt(v, j + 1)}

\* The styles and the code span that are open after v[from..to].
AdvanceAt(v, to, a, i) ==
  LET e == IF RunEnd(v, i) < to THEN RunEnd(v, i) ELSE to
      n == e - i + 1
  IN CASE i < a.next -> a
       [] i >= a.next /\ v[i].c = "tick" ->
            [a EXCEPT !.next = e + 1,
               !.code = CASE Guarded(v, i, e) -> @
                          [] ~Guarded(v, i, e) /\ @ = n -> 0
                          [] OTHER -> IF @ = 0 /\ n \in {1, 3} THEN n ELSE @]
       [] i >= a.next /\ v[i].c \in Styles /\ a.code = 0 ->
            CASE StyleRole(v, i, a.styles) = "close" -> [a EXCEPT !.styles = Front(@)]
              [] StyleRole(v, i, a.styles) = "open"  -> [a EXCEPT !.styles = Append(@, v[i].c)]
              [] OTHER -> a
       [] OTHER -> a
Advance(v, from, to, st) ==
  LET end == Rounds(LAMBDA a, k : AdvanceAt(v, to, a, from + k - 1),
                    [styles |-> st.styles, code |-> st.code, next |-> from], to - from + 1)
  IN [styles |-> end.styles, code |-> end.code]

\* URLs, without the markers at their end that close an open span.
AfterUrl(acc, v, i, st) ==
  LET code == <<[k \in 1..st.code |-> "tick"]>>
      open == IF st.code # 0 THEN code ELSE [k \in DOMAIN st.styles |-> <<st.styles[k]>>]
      span(e) == [spans |-> acc.spans \cup {<<i, e>>}, state |-> st, cursor |-> e + 1, next |-> WordEnd(v, i) + 1]
  IN span(UrlTail(v, i, open))
SpanAt(acc, v, i) == IF v[i].c # "U" \/ i < acc.next THEN acc
                     ELSE AfterUrl(acc, v, i, Advance(v, acc.cursor, i - 1, acc.state))
NoFormat    == [styles |-> <<>>, code |-> 0]
UrlSpans(v) == Rounds(LAMBDA acc, i : SpanAt(acc, v, i),
                      [spans |-> {}, state |-> NoFormat, cursor |-> 1, next |-> 1], Len(v)).spans

\* The visible text of a mention stands alone unless it touches a letter.
\* Mutant: only a space may precede a mention.
MentionSpaced(v, i) == KindAt(v, i) = "@" /\ KindAt(v, i + 1) = "n" /\ SpaceLike(KindAt(v, i - 1)) /\ KindAt(v, i + 2) \notin {"a", "U", "n", "_"}
MentionAlone(v, i) == /\ KindAt(v, i) = "@" /\ KindAt(v, i + 1) = "n"
                      /\ KindAt(v, i - 1) \notin {"a", "U", "n", "@", "_"}
                      /\ KindAt(v, i + 2) \notin {"a", "U", "n", "_"}
\* The chunker is told the names of the mentions whose address is known (atomic_texts);
\* the name of anybody else is a text like any other.
Mentions(v, urls, names) ==
  {<<i, i + 1>> : i \in {j \in DOMAIN v : /\ MentionAlone(v, j) /\ v[j + 1].n \in names
                                          /\ \A u \in urls : j \notin u[1]..u[2]}}
WithMentions(v, urls, names) == urls \cup Mentions(v, urls, names)
Spans(v, names) == WithMentions(v, UrlSpans(v), names)

\* The units that are never cut: spans, runs of backticks, single characters.
UnitEnd(v, spans, i) ==
  LET mine == {sp \in spans : sp[1] = i}
  IN CASE mine # {} -> (CHOOSE sp \in mine : TRUE)[2]
       [] mine = {} /\ v[i].c = "tick" ->
            CHOOSE j \in i..RunEnd(v, i) : /\ \A sp \in spans : sp[1] \notin i..j
                                           /\ j = RunEnd(v, i) \/ \E sp \in spans : sp[1] = j + 1
       [] OTHER -> i
UnitAt(acc, v, spans, i) ==
  IF i < acc.next THEN acc
  ELSE [units |-> Append(acc.units, [from |-> i, to |-> UnitEnd(v, spans, i), atomic |-> \E sp \in spans : sp[1] = i]),
        next  |-> UnitEnd(v, spans, i) + 1]
UnitsAround(v, spans) ==
  Rounds(LAMBDA acc, i : UnitAt(acc, v, spans, i), [units |-> <<>>, next |-> 1], Len(v)).units
Units(v, names) == UnitsAround(v, Spans(v, names))
Chars(v, u)    == SubSeq(v, u.from, u.to)
TickLen(v, u)  == IF ~u.atomic /\ v[u.from].c = "tick" THEN u.to - u.from + 1 ELSE 0

\* Confirmed pairs: fences first, inline code outside them, styles outside code.
CodeAt(acc, v, us, n, covered, i) ==
  CASE i \in covered \/ TickLen(v, us[i]) # n \/ Guarded(v, us[i].from, us[i].to) -> acc
    [] OTHER -> IF acc.open = 0 THEN [acc EXCEPT !.open = i] ELSE [open |-> 0, pairs |-> acc.pairs \cup {<<acc.open, i>>}]
CodePairs(v, us, n, covered) ==
  Rounds(LAMBDA acc, i : CodeAt(acc, v, us, n, covered, i), [open |-> 0, pairs |-> {}], Len(us)).pairs
Inside(pairs)  == UNION {p[1]..p[2] : p \in pairs}
StyleAt(acc, v, us, inside, i) ==
  LET role == StyleRole(v, us[i].from, [k \in DOMAIN acc.stack |-> v[us[acc.stack[k]].from].c])
  IN CASE us[i].atomic \/ i \in inside \/ v[us[i].from].c \notin Styles -> acc
       [] OTHER -> CASE role = "close" -> [stack |-> Front(acc.stack), pairs |-> acc.pairs \cup {<<Last(acc.stack), i>>}]
                     [] role = "open"  -> [acc EXCEPT !.stack = Append(@, i)]
                     [] OTHER          -> acc
StylePairs(v, us, inside) ==
  Rounds(LAMBDA acc, i : StyleAt(acc, v, us, inside, i), [stack |-> <<>>, pairs |-> {}], Len(us)).pairs
PairedDelimiters(v, us) ==
  LET fences == CodePairs(v, us, 3, {})
      code   == fences \cup CodePairs(v, us, 1, Inside(fences))
  IN [code |-> code, style |-> StylePairs(v, us, Inside(code))]

\* Mutant: all pairs are kept.
FitAll(v, us, roles, limit) == [code |-> roles.code, style |-> roles.style, ignored |-> {}]
\* Only the pairs whose wrappers leave room for text: code, then outer styles.
KeptPairs(us, roles, limit) ==
  LET budget == (limit - 1) \div 2
      weight(p) == us[p[1]].to - us[p[1]].from + 1
      before(p, q) == \/ p \in roles.code /\ q \notin roles.code
                      \/ (p \in roles.code <=> q \in roles.code) /\ p[1] < q[1]
      order == SetToSortSeq(roles.code \cup roles.style, before)
      load(kept, i) == FoldLeft(LAMBDA w, p : IF p \in kept /\ i \in p[1]..(p[2] - 1) THEN w + weight(p) ELSE w, 0, order)
      keep(kept, p) == IF \A i \in p[1]..(p[2] - 1) : load(kept, i) + weight(p) <= budget THEN kept \cup {p} ELSE kept
  IN FoldLeft(keep, {}, order)
FitToLimit(v, us, roles, limit) ==
  LET kept == KeptPairs(us, roles, limit)
  IN [code |-> roles.code \cap kept, style |-> roles.style \cap kept,
      ignored |-> {p[k] : p \in (roles.code \cup roles.style) \ kept, k \in {1, 2}}]

\* The chunks of a rendered text: formatting that is open at a cut is closed
\* before it and opened again after it.
\* Mutant: the closing markers are in the order of the opening ones.
WrapperUnreversed(st) ==
  LET styles(s) == [k \in DOMAIN st.styles |-> Mark(st.styles[k], 0, s)]
      code(s)   == [k \in 1..st.code |-> Mark("tick", 0, s)]
  IN [prefix |-> styles("open") \o code("open"), suffix |-> code("close") \o styles("close")]
Wrapper(st) ==
  LET styles(s) == [k \in DOMAIN st.styles |-> Mark(st.styles[k], 0, s)]
      code(s)   == [k \in 1..st.code |-> Mark("tick", 0, s)]
  IN [prefix |-> styles("open") \o code("open"), suffix |-> code("close") \o Reverse(styles("close"))]
RoleChars(v, u, s) == [k \in 1..(u.to - u.from + 1) |-> [v[u.from + k - 1] EXCEPT !.s = s]]
Opens(pairs)  == {p[1] : p \in pairs}
Closes(pairs) == {p[2] : p \in pairs}
Cut(a) ==
  LET w == Wrapper(a.state) IN
  [a EXCEPT !.chunks = IF a.payload > 0 THEN Append(@, a.current \o w.suffix) ELSE @,
            !.current = w.prefix, !.payload = 0]
Finished(a) == IF a.payload > 0 THEN Append(a.chunks, a.current \o Wrapper(a.state).suffix) ELSE a.chunks
\* The formatting that is open after unit i.
StateAfter(st, v, us, roles, i) ==
  LET c == v[us[i].from].c IN
  CASE i \in Opens(roles.code)   -> [st EXCEPT !.code = us[i].to - us[i].from + 1]
    [] i \in Closes(roles.code)  -> [st EXCEPT !.code = 0]
    [] i \in Opens(roles.style)  -> [st EXCEPT !.styles = Append(@, c)]
    [] i \in Closes(roles.style) -> [st EXCEPT !.styles = IF @ # <<>> /\ Last(@) = c THEN Front(@) ELSE RemoveFirst(@, c)]
    [] OTHER -> st
ChunkAt(acc, v, us, roles, limit, i) ==
  LET opens == Opens(roles.code) \cup Opens(roles.style)
      ends  == Closes(roles.code) \cup Closes(roles.style)
      full(a, w) == Width(a.current) + w + Len(Wrapper(StateAfter(a.state, v, us, roles, i)).suffix) > limit
      w    == Width(Chars(v, us[i]))
      lone == /\ i \in opens /\ acc.payload > 0 /\ i < Len(us) /\ us[i + 1].atomic
              /\ full(acc, w + Width(Chars(v, us[i + 1])))
      a    == IF lone THEN Cut(acc) ELSE acc
      b    == IF a.payload > 0 /\ i \notin ends /\ full(a, w) THEN Cut(a) ELSE a
      role == IF i \in opens THEN "open" ELSE IF i \in ends THEN "close" ELSE "none"
  IN IF i \in roles.ignored THEN acc
     ELSE [b EXCEPT !.current = @ \o RoleChars(v, us[i], role),
                    !.state = StateAfter(@, v, us, roles, i),
                    !.payload = IF role = "none" THEN @ + 1 ELSE @]
NoChunk == [chunks |-> <<>>, current |-> <<>>, payload |-> 0, state |-> NoFormat]
Chunked(v, us, roles, limit) ==
  Finished(Rounds(LAMBDA acc, i : ChunkAt(acc, v, us, roles, limit, i), NoChunk, Len(us)))
ChunkedUnits(v, us, limit) == Chunked(v, us, FitToLimit(v, us, PairedDelimiters(v, us), limit), limit)
SplitRendered(v, limit, names) == ChunkedUnits(v, Units(v, names), limit)

\* What flush_pending_text and the streaming publisher send for a text.
VisibleChunks(t, streaming, limit, names) ==
  LET cs == SplitRendered(Render(t, streaming), limit, names)
  IN FlattenSeq([i \in DOMAIN cs |-> IF HasVisible(cs[i]) THEN <<cs[i]>> ELSE <<>>])

\* What a receiver sees of a message: the places of its letters in the source.
Places(chars)  == FlattenSeq([i \in DOMAIN chars |-> IF chars[i].c \in VisibleKinds THEN <<chars[i].n>> ELSE <<>>])
\* The styles around each character of a message.
Around(v) == [i \in DOMAIN v |-> FoldLeft(LAMBDA st, k :
              CASE v[k].s = "open" -> Append(st, v[k].c)
                [] v[k].s = "close" -> IF st # <<>> /\ Last(st) = v[k].c THEN Front(st) ELSE <<"unbalanced">>
                [] OTHER -> st, <<>>, [k \in 1..i |-> k])]
=============================================================================
