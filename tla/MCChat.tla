------------------------------- MODULE MCChat -------------------------------
(***************************************************************************)
(* An instance of OpenAIStream and ChatHistory for TLC: the two sides of   *)
(* the chat program, each with the other at rest.                          *)
(***************************************************************************)
EXTENDS OpenAIStream, ChatHistory

VARIABLE side

Streams == side = "stream" /\ StreamNext /\ UNCHANGED chatVars
Remembers == side = "history" /\ ChatNext /\ UNCHANGED streamVars

SidesInit == StreamInit /\ ChatInit /\ side \in {"stream", "history"}
SidesNext == (Streams \/ Remembers) /\ UNCHANGED side

SidesSpec == SidesInit /\ [][SidesNext]_<<streamVars, chatVars, side>> /\ Fairness
=============================================================================
