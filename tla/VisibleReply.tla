---------------------------- MODULE VisibleReply ----------------------------
(***************************************************************************)
(* What a streamed reply promises: only what was said is seen, the          *)
(* framework knows of it as soon as anything is seen, and a reply that ends *)
(* well shows all that was said.                                            *)
(***************************************************************************)
VARIABLES said,      \* what the model has generated, a set of places
          seen,      \* what the chat shows of it
          recorded,  \* the framework counts the reply as sent
          status     \* "streaming", "done" or "failed"

reply == <<said, seen, recorded, status>>

Init == said = {} /\ seen = {} /\ recorded = FALSE /\ status = "streaming"

Say == /\ status = "streaming" /\ said \subseteq said'
       /\ UNCHANGED <<seen, recorded, status>>

\* Text may move from one message to another: it is out of sight in between.
Show == /\ status = "streaming"
        /\ seen' \subseteq said /\ recorded' = TRUE
        /\ UNCHANGED <<said, status>>

Finish == /\ status = "streaming" /\ seen = said
          /\ status' = "done"
          /\ UNCHANGED <<said, seen, recorded>>

Abort == /\ status = "streaming"
         /\ status' = "failed"
         /\ UNCHANGED <<said, seen, recorded>>

Spec == Init /\ [][Say \/ Show \/ Finish \/ Abort]_reply
=============================================================================
