-------------------------- MODULE MCBrokerSessions --------------------------
(* Two host processes and session numbers that wrap around after two. *)
EXTENDS BrokerSessions

CONSTANTS a, b   \* the text services

MCTip == {a, b}
MCFields == [t \in MCTip |-> IF t = a THEN <<"ordinary", "restricted">>
                                      ELSE <<"restricted">>]
==============================================================================
