--------------------------- MODULE ReactionJournal ---------------------------
(***************************************************************************)
(* whatsapp_reaction_journal.py: the reactions observed in the last seconds, *)
(* for bots that settle among themselves by reacting who answers. A         *)
(* journal is a set of entries; the turn of an entry, its place among all   *)
(* observations, stands for its place in the dictionary.                    *)
(***************************************************************************)
EXTENDS Naturals, Sequences, FiniteSets

CONSTANTS Ttl,      \* an entry is kept for so long
          Capacity  \* entries at most

ASSUME JournalAssumption == Ttl \in Nat \ {0} /\ Capacity \in Nat \ {0}

NoEmoji == 0
Slot(e) == [chat |-> e.chat, message |-> e.message, sender |-> e.sender, emoji |-> e.emoji]
BySender(e, f) == e.chat = f.chat /\ e.message = f.message /\ e.sender = f.sender

\* Mutant: an entry expires at its last moment already.
PrunedEarly(entries, now) == {e \in entries : e.at + Ttl > now}
Pruned(entries, now) == {e \in entries : e.at + Ttl >= now}
\* A refreshed observation moves to the end; what is over the bound falls off the front.
Newer(entries, e) == {f \in entries : e.turn < f.turn}
Kept(entries, e) ==
  LET all == {f \in entries : Slot(f) # Slot(e)} \cup {e}
  IN  {f \in all : Cardinality(Newer(all, f)) < Capacity}
\* A removed reaction takes all that its sender reacted with to that message.
Record(entries, e) ==
  IF e.emoji = NoEmoji THEN {f \in Pruned(entries, e.at) : ~BySender(e, f)}
  ELSE Kept(Pruned(entries, e.at), e)
Users(entries, slot, now) ==
  {e.sender : e \in {f \in Pruned(entries, now) :
     f.chat = slot.chat /\ f.message = slot.message /\ f.emoji = slot.emoji}}
-----------------------------------------------------------------------------
\* What the journal promises of a log of all observations: what was observed in the window
\* and not removed since is answered unless as many others were observed after it.
After(log, i) == {Slot(log[j]) : j \in {k \in i + 1 .. Len(log) : log[k].emoji # NoEmoji}}
Stands(log, i, now) ==
  /\ log[i].emoji # NoEmoji /\ log[i].at + Ttl >= now
  /\ \A j \in i + 1 .. Len(log) : log[j].emoji = NoEmoji => ~BySender(log[i], log[j])
Answers(entries, log, now) ==
  \A i \in DOMAIN log :
    LET slot == Slot(log[i]) IN
    /\ Stands(log, i, now) /\ Cardinality(After(log, i) \ {slot}) < Capacity
         => slot.sender \in Users(entries, slot, now)
    /\ \A u \in Users(entries, slot, now) :
         \E j \in DOMAIN log : Slot(log[j]) = [slot EXCEPT !.sender = u] /\ Stands(log, j, now)
=============================================================================
