-------------------------- MODULE MCChannelWebhook --------------------------
(***************************************************************************)
(* Instances of ChannelWebhook for TLC.                                    *)
(***************************************************************************)
EXTENDS ChannelWebhook

\* A notification with two messages in its first change and one in the second.
MCChanges == [n \in Notifications |-> <<<<"m1", "m2">>, <<"m3">>>>]
=============================================================================
