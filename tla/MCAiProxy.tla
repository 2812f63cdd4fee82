----------------------------- MODULE MCAiProxy -----------------------------
(* An instance of AiProxy for TLC: a request to each engine.  Answers with *)
(* an empty line, with two accounting lines, without a last newline, and   *)
(* with a line that is too long and ends like an accounting line.          *)
EXTENDS AiProxy

CONSTANTS chat, completion

MCEngineOf == [r \in Requests |-> IF r = chat THEN "ollama" ELSE "lmstudio"]
MCBodies ==
  [r \in Requests |->
    IF r = chat
    THEN {<<"nl", "{final", "}", "nl", "{final", "}">>, <<"text", "text", "text", "{final", "}", "nl">>}
    ELSE {<<"{usage", "}">>}]
=============================================================================
