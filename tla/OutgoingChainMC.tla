-------------------------- MODULE OutgoingChainMC --------------------------
EXTENDS OutgoingChain

Typing(ks)  == [kind |-> "plain", text |-> ks, items |-> <<>>]
Thing(kind) == [kind |-> kind, text |-> <<>>, items |-> <<>>]
Nest(cs)    == [kind |-> "nested", text |-> <<>>, items |-> cs]

\* A paragraph does not begin as a block: no leading space or list item.
Paragraph(ks) == ks[1] # " " /\ ~(ks[1] = "*" /\ ks[2] = " ")
\* One text of five characters, alone.
Texts == {<<Typing(ks)>> : ks \in {ks \in [1..5 -> {"a", " ", "*", "_"}] : Paragraph(ks)}}

\* Nested spans around one or two words, alone.
Spanned(ms, body) == FlattenSeq(ms) \o body \o FlattenSeq(Reverse(ms))
Nested == {<<Typing(Spanned(ms, body))>> :
             ms   \in {<<<<"*", "*">>, <<"_">>>>, <<<<"_">>, <<"*", "*">>>>, <<<<"~", "~">>, <<"*", "*">>, <<"_">>>>,
                      <<<<"~", "~">>, <<"tick">>>>, <<<<"*", "*">>, <<"_">>, <<"tick", "tick">>>>},
             body \in {<<"a", " ", "a">>, <<"a", "a", "a">>, <<"U">>, <<"a", " ", "U">>, <<"a", "a", ".", "a", " ", "a">>}}

\* Two or three parts in every order; the text among them is cut at the limit,
\* and formatting may reach over a mention.
Parts == {Typing(<<"a", " ", "a", "a", "a", "a", "a">>), Typing(<<"*", "*", "a", " ", "U">>),
          Typing(<<"*", "*">>), Typing(<<"tick", "a", " ", "tick">>), Thing("at"), Thing("stranger"), Thing("reply"),
          [Typing(<<"a", "a">>) EXCEPT !.kind = "fallback"],
          Thing("image"), Thing("sticker"), Thing("record"), Thing("edit"),
          Nest(<<Typing(<<"a">>), Thing("at"), Thing("file")>>)}
MCChains == Nested \cup Texts \cup [1..2 -> Parts] \cup [1..3 -> Parts]
=============================================================================
