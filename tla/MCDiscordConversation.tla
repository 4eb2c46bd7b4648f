------------------------ MODULE MCDiscordConversation ------------------------
(* Small instances of DiscordConversation for TLC. *)
EXTENDS DiscordConversation

CONSTANTS c1, c2

Input(c, b, i) == [chan |-> c, bad |-> b, image |-> i]

\* One channel with plain messages, a clean and a blocklisted one, and one
\* channel with a message that carries images.
ThreeInputs ==
    {Input(c1, FALSE, FALSE), Input(c1, TRUE, FALSE), Input(c2, FALSE, TRUE)}

\* Clean plain messages in one channel, blocklisted ones with images in the
\* other.
TwoInputs == {Input(c1, FALSE, FALSE), Input(c2, TRUE, TRUE)}
=============================================================================
