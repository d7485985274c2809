-------------------------- MODULE StreamingReplyMC --------------------------
EXTENDS StreamingReply

Item(kind, text, ends) == [kind |-> kind, text |-> text, ends |-> ends]
Tokens == {Item("text", <<"*", "*", "a">>, TRUE), Item("text", <<"a", " ", "a", ".">>, TRUE),
           Item("text", <<"a", "*", "*">>, TRUE), Item("text", <<"tick", "a">>, TRUE),
           Item("text", <<"a", "a">>, FALSE), Item("at", <<>>, FALSE),
           Item("break", <<>>, TRUE), Item("part", <<>>, TRUE), Item("reply", <<>>, FALSE)}
\* A code span that closes makes its text shorter.
Shrinking == <<Item("text", <<"a", "a", "tick", "tick", "a">>, TRUE), Item("text", <<"tick", "tick">>, TRUE),
               Item("text", <<" ", "a", ".">>, TRUE)>>
Chatter == <<Item("text", <<"a", " ", "a", ".">>, TRUE), Item("text", <<"a", " ", "a", ".">>, TRUE)>>
MCJobs ==
  [feed : [1..2 -> Tokens] \cup [1..3 -> Tokens] \cup {Shrinking, Front(Shrinking)}, realtime : BOOLEAN, company : {FALSE}]
    \cup [feed : {Chatter}, realtime : BOOLEAN, company : {TRUE}]

\* What ReplyAssumption says of these jobs holds of every text of up to four characters.
ShortTexts == UNION {[1..n -> Kinds] : n \in 1..4}
ASSUME ShortTextsAreShown ==
  \A t \in ShortTexts, streaming \in BOOLEAN :
    Places(FlattenSeq(VisibleChunks(Source(t), streaming, Limit, Names(Source(t))))) = Places(Source(t))
=============================================================================
