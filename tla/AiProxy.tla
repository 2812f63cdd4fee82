------------------------------- MODULE AiProxy -------------------------------
(***************************************************************************)
(* The reverse proxy in front of the local inference engines               *)
(* (ai_observability.rs, server/mod.rs), the samples it records and what   *)
(* get_stats reads of them.                                                *)
(*                                                                         *)
(* An answer is a sequence of pieces, and its lines end in "nl".  The      *)
(* engine sends it piece by piece and the proxy reads whatever has         *)
(* arrived, so that a chunk may end anywhere in a line.  Requests are      *)
(* served concurrently and share the connection of the database only.      *)
(***************************************************************************)
EXTENDS Integers, Sequences, FiniteSets, SequencesExt, FiniteSetsExt

CONSTANTS
  Requests, EngineOf,   \* requests, each for "ollama" or "lmstudio"
  Bodies,               \* external: the answers of each engine
  MaxBody,              \* MAX_REQUEST_BODY, in pieces
  MaxTime, MaxFailures  \* bounds

ASSUME ProxyAssumption ==
  /\ EngineOf \in [Requests -> {"ollama", "lmstudio"}]
  /\ {MaxBody, MaxTime, MaxFailures} \subseteq Nat
Pieces == {"nl", "text", "{final", "{usage", "}"}
ASSUME BodiesAssumption == Bodies \in [Requests -> SUBSET Seq(Pieces)]
ASSUME ValveAssumption == MaxBody >= 2   \* an accounting line, of two pieces, fits

VARIABLES
  server,    \* start_server
  call,      \* the requests, as the proxy has them
  engine,    \* external: what the engines do for them
  client,    \* external: what the clients have received
  samples,   \* the rows of ai_tokens_per_sec
  panel,     \* get_stats: what it reads of them
  now,       \* external: a monotonic clock
  failures   \* history: rows that could not be inserted, by request

vars == <<server, call, engine, client, samples, panel, now, failures>>

Fields == {"lastTokensPerSec", "samples"}
Init ==
  /\ server = "starting"
  /\ call = [r \in Requests |->
       [pc |-> "none", started |-> 0, read |-> 0, acc |-> <<>>, recorded |-> FALSE]]
  /\ engine \in [Requests -> {[body |-> body, begun |-> 0, sent |-> <<>>, broken |-> FALSE] :
                                body \in UNION {Bodies[r] : r \in Requests}}]
  /\ \A r \in Requests : engine[r].body \in Bodies[r]
  /\ client = [r \in Requests |-> [received |-> 0, ended |-> "no"]]
  /\ samples = <<>> /\ now = 0
  /\ panel = [read |-> 0, values |-> [f \in Fields |-> 0]]
  /\ failures = [r \in Requests |-> 0]

-----------------------------------------------------------------------------
(* Lines.  parse_ollama_metrics takes the final object with its counts,    *)
(* parse_openai_completion_tokens the one with the usage: a line is JSON   *)
(* only as a whole.                                                        *)
IsAccounting(kind, line) ==
  \/ kind = "ollama" /\ line = <<"{final", "}">>
  \/ kind = "lmstudio" /\ line = <<"{usage", "}">>

NewlinesOf(pieces) == {i \in DOMAIN pieces : pieces[i] = "nl"}
LineAt(pieces, end) ==
  SubSeq(pieces, Max({i \in NewlinesOf(pieces) : i < end} \cup {0}) + 1, end - 1)
Rest(pieces) == LineAt(pieces, Len(pieces) + 1)
Accounting(kind, pieces) ==
  {i \in NewlinesOf(pieces) : IsAccounting(kind, LineAt(pieces, i))}

(* record_line and log_tps, for lines that end at these positions of the   *)
(* answer: the rate is the engine's own, or that over the time since the   *)
(* request was about to be sent.  A row that is refused is given up.       *)
Record(r, ends) ==
  LET made(i) == engine[r].sent[i] - engine[r].begun
      row(i) == [request |-> r, generated |-> made(i),
                 elapsed |-> IF EngineOf[r] = "ollama" THEN made(i) ELSE now - call[r].started]
  IN \E kept \in SUBSET ends : \E order \in SetToSeqs(kept) :
       /\ \A k, l \in DOMAIN order : k < l => order[k] < order[l]
       /\ failures[r] + Cardinality(ends \ kept) <= MaxFailures
       /\ samples' = samples \o [k \in DOMAIN order |-> row(order[k])]
       /\ failures' = [failures EXCEPT ![r] = @ + Cardinality(ends \ kept)]

(* consume_lines: acc is cleared if what is left of it is too long.        *)
\* Mutant of Consume: acc is cleared before its lines are looked at.
ConsumeTooLate(r, chunk) ==
  LET buffer == call[r].acc \o chunk
      long == Len(buffer) > MaxBody
      from == call[r].read + Len(chunk) - Len(buffer)
      found == IF long THEN {} ELSE Accounting(EngineOf[r], buffer)
  IN /\ Record(r, {from + i : i \in found})
     /\ call' = [call EXCEPT ![r].acc = IF long THEN <<>> ELSE Rest(buffer),
                             ![r].recorded = @ \/ found # {},
                             ![r].read = @ + Len(chunk), ![r].pc = "yield"]
Consume(r, chunk) ==
  LET buffer == call[r].acc \o chunk
      from == call[r].read + Len(chunk) - Len(buffer)
      found == Accounting(EngineOf[r], buffer)
  IN /\ Record(r, {from + i : i \in found})
     /\ call' = [call EXCEPT ![r].acc = IF Len(Rest(buffer)) > MaxBody THEN <<>> ELSE Rest(buffer),
                             ![r].recorded = @ \/ found # {},
                             ![r].read = @ + Len(chunk), ![r].pc = "yield"]

-----------------------------------------------------------------------------
(* start_server: the port may be taken, and then nothing is served.        *)
Bind ==
  /\ server = "starting" /\ server' \in {"up", "dead"}
  /\ UNCHANGED <<call, engine, client, samples, panel, now, failures>>

(* proxy: the body of the request is read, or is too long or broken off.   *)
Receive(r) ==
  /\ server = "up" /\ call[r].pc = "none"
  /\ \/ call' = [call EXCEPT ![r].pc = "send", ![r].started = now] /\ UNCHANGED client
     \/ /\ call' = [call EXCEPT ![r].pc = "end"]
        /\ client' = [client EXCEPT ![r].ended = "bad_request"]
  /\ UNCHANGED <<server, engine, samples, panel, now, failures>>

(* The engine takes the request and generates; it answers while it does,   *)
(* or as a whole, or is not there.                                         *)
Begin(r) ==
  /\ call[r].pc = "send"
  /\ \/ /\ engine' = [engine EXCEPT ![r].begun = now]
        /\ call' = [call EXCEPT ![r].pc = "sent"] /\ UNCHANGED client
     \/ /\ call' = [call EXCEPT ![r].pc = "end"]
        /\ client' = [client EXCEPT ![r].ended = "bad_gateway"] /\ UNCHANGED engine
  /\ UNCHANGED <<server, samples, panel, now, failures>>

Generate(r) ==
  /\ call[r].pc \in {"sent", "stream", "yield"}
  /\ LET e == engine[r]
     IN /\ ~e.broken
        /\ \/ /\ Len(e.sent) < Len(e.body)
              /\ engine' = [engine EXCEPT ![r].sent = Append(@, now)]
           \/ engine' = [engine EXCEPT ![r].broken = Len(e.sent) < Len(e.body)] /\ engine' # engine
  /\ UNCHANGED <<server, call, client, samples, panel, now, failures>>

(* The head of the answer arrives and is passed on, or the engine breaks   *)
(* off before it sent anything.                                            *)
\* Mutant of Respond: the time is taken now.
RespondAndStart(r) ==
  /\ call[r].pc = "sent"
  /\ call' = [call EXCEPT ![r].pc = "stream", ![r].started = now]
  /\ UNCHANGED <<server, engine, client, samples, panel, now, failures>>
Respond(r) ==
  /\ call[r].pc = "sent"
  /\ \/ call' = [call EXCEPT ![r].pc = "stream"] /\ UNCHANGED client
     \/ /\ engine[r].broken /\ engine[r].sent = <<>>
        /\ call' = [call EXCEPT ![r].pc = "end"]
        /\ client' = [client EXCEPT ![r].ended = "bad_gateway"]
  /\ UNCHANGED <<server, engine, samples, panel, now, failures>>

(* The stream: a chunk is looked through and then passed on, an error is   *)
(* passed on, and at the end a line without a newline is looked at.        *)
Chunk(r) ==
  /\ call[r].pc = "stream"
  /\ \E last \in call[r].read + 1..Len(engine[r].sent) :
       Consume(r, SubSeq(engine[r].body, call[r].read + 1, last))
  /\ UNCHANGED <<server, engine, client, panel, now>>

Yield(r) ==
  /\ call[r].pc = "yield"
  /\ call' = [call EXCEPT ![r].pc = "stream"]
  /\ client' = [client EXCEPT ![r].received = call[r].read]
  /\ UNCHANGED <<server, engine, samples, panel, now, failures>>

\* Mutant of PassError: the stream ends as if it were complete.
PassErrorAsEnd(r) ==
  /\ call[r].pc = "stream" /\ engine[r].broken /\ call[r].read = Len(engine[r].sent)
  /\ call' = [call EXCEPT ![r].pc = "end"]
  /\ client' = [client EXCEPT ![r].ended = "complete"]
  /\ UNCHANGED <<server, engine, samples, panel, now, failures>>
PassError(r) ==
  /\ call[r].pc = "stream" /\ engine[r].broken /\ call[r].read = Len(engine[r].sent)
  /\ call' = [call EXCEPT ![r].pc = "end"]
  /\ client' = [client EXCEPT ![r].ended = "error"]
  /\ UNCHANGED <<server, engine, samples, panel, now, failures>>

Finish(r) ==
  /\ call[r].pc = "stream" /\ call[r].read = Len(engine[r].body)
  /\ LET tail == call[r].acc
         flush == ~call[r].recorded /\ IsAccounting(EngineOf[r], tail)
     IN Record(r, IF flush THEN {call[r].read} ELSE {})
  /\ call' = [call EXCEPT ![r].pc = "end"]
  /\ client' = [client EXCEPT ![r].ended = "complete"]
  /\ UNCHANGED <<server, engine, panel, now>>

(* The client goes away: the stream is dropped where it waits.             *)
Leave(r) ==
  /\ call[r].pc \in {"send", "sent", "stream", "yield"} /\ client[r].ended = "no"
  /\ call' = [call EXCEPT ![r].pc = "end"]
  /\ client' = [client EXCEPT ![r].ended = "left"]
  /\ UNCHANGED <<server, engine, samples, panel, now, failures>>

(* get_stats reads the newest row and their number, one after the other.   *)
\* Mutant of ReadOrder: the other way round.
ReadOrderReversed == <<"samples", "lastTokensPerSec">>
ReadOrder == <<"lastTokensPerSec", "samples">>
Read ==
  /\ panel' = [read |-> (panel.read + 1) % 2,
               values |-> [panel.values EXCEPT ![ReadOrder[panel.read + 1]] = Len(samples)]]
  /\ UNCHANGED <<server, call, engine, client, samples, now, failures>>

Tick ==
  /\ now < MaxTime /\ now' = now + 1
  /\ UNCHANGED <<server, call, engine, client, samples, panel, failures>>

Next ==
  \/ Bind \/ Read \/ Tick
  \/ \E r \in Requests :
       \/ Receive(r) \/ Begin(r) \/ Generate(r) \/ Respond(r)
       \/ Chunk(r) \/ Yield(r) \/ PassError(r) \/ Finish(r) \/ Leave(r)

Spec == Init /\ [][Next]_vars

-----------------------------------------------------------------------------
(* However an answer is cut into chunks, the rows of a request are those   *)
(* of the accounting lines read so far, each once and none left out unless *)
(* its row was refused, and where there is none, of a last line without a  *)
(* newline once the answer is complete.  Only a line of more than          *)
(* MAX_REQUEST_BODY may add a row it should not: the valve cuts it.        *)
SamplesAreTheLines ==
  \A r \in Requests :
    LET seen == SubSeq(engine[r].body, 1, call[r].read)
        lines == Accounting(EngineOf[r], seen)
        tail == lines = {} /\ client[r].ended = "complete" /\ IsAccounting(EngineOf[r], Rest(seen))
        due == Cardinality(lines) + (IF tail THEN 1 ELSE 0)
        long == {i \in NewlinesOf(seen) \cup {Len(seen) + 1} : Len(LineAt(seen, i)) > MaxBody}
        rows == {k \in DOMAIN samples : samples[k].request = r}
    IN Cardinality(rows) + failures[r] \in due..due + Cardinality(long)

(* What ends as complete for the client is the whole answer: the framing   *)
(* headers are not passed on, so nothing else would tell it.               *)
CompleteMeansWhole ==
  \A r \in Requests :
    client[r].ended = "complete" => client[r].received = Len(engine[r].body)

(* A rate is never better than the engine's: the time it is measured over  *)
(* holds all of the generation, when the engine answers only at the end of *)
(* it, too.                                                                *)
RatesAreNotOverstated == \A k \in DOMAIN samples : samples[k].elapsed >= samples[k].generated

(* The rate shown is one of the observations counted next to it, though    *)
(* rows are inserted between the two reads.                                *)
RateIsCounted ==
  panel.read = 0 => panel.values["lastTokensPerSec"] <= panel.values["samples"]

=============================================================================
