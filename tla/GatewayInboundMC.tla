-------------------------- MODULE GatewayInboundMC --------------------------
EXTENDS GatewayInbound

Letter(group, media, at) ==
  [from |-> CHOOSE u \in Users : TRUE, group |-> group, media |-> media, album |-> media, at |-> at]

\* A direct picture and a text; three direct pictures, the second without a timestamp and the
\* third too late for the first; three pictures in a group, the last two in a burst.
MCMails == {<<Letter(FALSE, TRUE, 10), Letter(FALSE, FALSE, 21)>>,
            <<Letter(FALSE, TRUE, 10), Letter(FALSE, TRUE, 0), Letter(FALSE, TRUE, 20)>>,
            <<Letter(TRUE, TRUE, 10), Letter(TRUE, TRUE, 20), Letter(TRUE, TRUE, 21)>>}
=============================================================================
