---------------------------- MODULE OpenAIStream ----------------------------
(***************************************************************************)
(* Chatting with a language model: src/PortDrivers/openai.c with its       *)
(* reader, ch_recv of AppSamples/chat/chat.c.                              *)
(*                                                                         *)
(* The chat program starts a request twice: the 0 that ends the payload    *)
(* on port 121 starts a detached thread, and IN 120 starts another one.    *)
(* Each finds out by itself whether a stream is running, so that usually   *)
(* one of them ends at once.  The callback of the stream hands the text    *)
(* over through one chunk and waits, without a time-out, until the reader  *)
(* emptied it.                                                             *)
(*                                                                         *)
(* A critical section of the response mutex is one step.  Byte j of the    *)
(* i-th delta of all that are streamed is <<i, j>>.  The payload is left   *)
(* out; so is the line buffer of the callback, which is filled from blocks *)
(* of any size: lines come one by one, at any time.  Two streams at once   *)
(* would corrupt it; no property speaks of them.                           *)
(***************************************************************************)
EXTENDS Naturals, Sequences, SequencesExt

CONSTANTS ChunkSize,    \* RESPONSE_CHUNK_SIZE, which leaves room for a 0
          ReaderSize,   \* characters the reader has room for
          DeltaSizes,   \* bound: lengths of a delta, in characters
          MaxDeltas,    \* bound: deltas in all answers together
          MaxRequests,  \* bound: requests in a behaviour
          NoWorker

ASSUME StreamAssumption ==
  /\ ChunkSize \in Nat \ {0, 1}
  /\ ReaderSize \in Nat \ {0}
  /\ DeltaSizes \subseteq Nat \ {0}
  /\ MaxDeltas \in Nat
  /\ MaxRequests \in Nat

\* The thread that port p starts for request x.
Workers == (1..MaxRequests) \X {120, 121}
ASSUME NoWorkerAssumption == NoWorker \notin Workers

VARIABLES
  chunk,      \* the part of chunk_buffer that was not read yet
  complete,   \* response_complete
  streaming,  \* the flag of the same name
  worker,     \* the detached threads: step, text to hand over, end of the answer seen
  deltas,     \* number of deltas streamed
  cpu,        \* where the chat program is
  request,    \* number of requests; the last one is current
  got,        \* what the reader received
  result,     \* why it stopped
  voice,      \* history: the worker that streams the answer to the current request
  answer,     \* history: the text of that answer, each delta cut at the chunk's size,
              \* as long as it is not disturbed
  disturbed   \* history: another request, or another stream, is in its way

streamVars == <<chunk, complete, streaming, worker, deltas, cpu, request, got, result, voice,
                answer, disturbed>>
response == <<chunk, complete>>
history == <<voice, answer, disturbed>>

NotStarted == [at |-> "none", text |-> <<>>, finished |-> FALSE]
Alive(w) == worker[w].at \notin {"none", "gone"}

StreamInit ==
  /\ chunk = <<>> /\ complete = FALSE
  /\ streaming = FALSE
  /\ worker = [w \in Workers |-> NotStarted] /\ deltas = 0
  /\ cpu = "idle" /\ request = 0 /\ got = <<>> /\ result = "none"
  /\ voice = NoWorker /\ answer = <<>> /\ disturbed = FALSE

-----------------------------------------------------------------------------
(* The chat program, on the CPU thread *)

\* OUT 120 begins a new payload.
Ask ==
  /\ cpu = "idle" /\ request < MaxRequests
  /\ request' = request + 1
  /\ got' = <<>> /\ result' = "none"
  /\ cpu' = "reset"
  /\ voice' = NoWorker /\ answer' = <<>>
  /\ disturbed' = \E w \in Workers : Alive(w)
  /\ UNCHANGED <<response, streaming, deltas, worker>>

\* OUT 122, reset_openai_response: nobody who waits for the chunk is told.
ResetResponse ==
  /\ cpu = "reset"
  /\ chunk' = <<>> /\ complete' = FALSE
  /\ cpu' = "payload"
  /\ UNCHANGED <<streaming, deltas, worker, request, got, result, history>>

\* The end of the payload on port 121, and IN 120.
Starts(port) ==
  /\ worker' = IF streaming THEN worker
               ELSE [worker EXCEPT ![<<request, port>>].at = "check"]
  /\ UNCHANGED <<response, streaming, deltas, request, got, result, history>>

EndPayload == cpu = "payload" /\ cpu' = "send" /\ Starts(121)
Send == cpu = "send" /\ cpu' = "poll" /\ Starts(120)

Stops(why) == cpu' = "idle" /\ result' = why

\* IN 123: data, the end, or nothing yet, 3000 times in a row.
Poll ==
  /\ cpu = "poll"
  /\ \/ chunk # <<>> /\ cpu' = "read" /\ UNCHANGED result
     \/ chunk = <<>> /\ complete /\ Stops("end")
     \/ chunk = <<>> /\ ~complete /\ Stops("timeout")
  /\ UNCHANGED <<response, streaming, deltas, worker, request, got, history>>

Signalled == [w \in Workers |->
  IF worker[w].at = "wait" THEN [worker[w] EXCEPT !.at = "add"] ELSE worker[w]]

\* The reader takes a byte, and stops when its buffer is full.
Take ==
  /\ cpu = "read"
  /\ got' = Append(got, Head(chunk))
  /\ chunk' = Tail(chunk)
  /\ IF Len(got) + 1 = ReaderSize THEN Stops("full") ELSE cpu' = "poll" /\ UNCHANGED result
  /\ UNCHANGED <<complete, streaming, deltas, request, history>>

\* Variant of Read: the callback is not told that the chunk is empty.
ReadQuietly == Take /\ UNCHANGED worker

\* IN 124: the last byte of a chunk signals the callback.
Read == Take /\ IF Len(chunk) = 1 THEN worker' = Signalled ELSE UNCHANGED worker

-----------------------------------------------------------------------------
(* Worker w: openai_thread *)

At(w, step) == worker[w].at = step
To(w, step) == worker' = [worker EXCEPT ![w].at = step]

\* The flag is tested, and set in another step.
Check(w) ==
  /\ At(w, "check")
  /\ To(w, IF streaming THEN "gone" ELSE "claim")
  /\ UNCHANGED <<response, streaming, deltas, cpu, request, got, result, history>>

Claim(w) ==
  /\ At(w, "claim")
  /\ streaming' = TRUE
  /\ To(w, "stream")
  /\ voice' = w /\ answer' = <<>>
  /\ disturbed' = (disturbed \/ voice # NoWorker \/ w[1] # request)
  /\ UNCHANGED <<response, deltas, cpu, request, got, result>>

Text(n) == [j \in 1..n |-> <<deltas + 1, j>>]

\* What fits into the chunk; the rest of a delta is dropped.
Kept(text) == IF Len(text) >= ChunkSize THEN SubSeq(text, 1, ChunkSize - 1) ELSE text

\* StreamOpenAICallback finds a delta with content.
Delta(w) ==
  /\ At(w, "stream") /\ ~worker[w].finished /\ deltas < MaxDeltas
  /\ deltas' = deltas + 1
  /\ \E n \in DeltaSizes :
       /\ worker' = [worker EXCEPT ![w].at = "add", ![w].text = Text(n)]
       /\ answer' = IF w = voice /\ ~disturbed THEN answer \o Kept(Text(n)) ELSE answer
  /\ UNCHANGED <<response, streaming, cpu, request, got, result, voice, disturbed>>

\* It finds a finish reason, or, after it or without one, "[DONE]".
Finish(w) ==
  /\ At(w, "stream")
  /\ complete' = TRUE
  /\ worker' = [worker EXCEPT ![w].finished = TRUE]
  /\ UNCHANGED <<chunk, streaming, deltas, cpu, request, got, result, history>>

\* Variant of Add: an unread chunk is overwritten.
AddOver(w) ==
  /\ At(w, "add")
  /\ chunk' = Kept(worker[w].text)
  /\ worker' = [worker EXCEPT ![w].at = "stream", ![w].text = <<>>]
  /\ UNCHANGED <<complete, streaming, deltas, cpu, request, got, result, history>>

\* add_response_data waits until the chunk is empty, then fills it.
Add(w) ==
  /\ At(w, "add")
  /\ IF chunk # <<>>
     THEN To(w, "wait") /\ UNCHANGED chunk
     ELSE /\ chunk' = Kept(worker[w].text)
          /\ worker' = [worker EXCEPT ![w].at = "stream", ![w].text = <<>>]
  /\ UNCHANGED <<complete, streaming, deltas, cpu, request, got, result, history>>

\* Variant of CurlEnds: the flag stays.
CurlEndsBusy(w) ==
  /\ At(w, "stream")
  /\ To(w, "gone")
  /\ UNCHANGED <<response, streaming, deltas, cpu, request, got, result, history>>

\* curl_easy_perform returns, well or not, within 40 seconds: that is not told to the
\* reader.
CurlEnds(w) ==
  /\ At(w, "stream")
  /\ streaming' = FALSE
  /\ To(w, "gone")
  /\ UNCHANGED <<response, deltas, cpu, request, got, result, history>>

-----------------------------------------------------------------------------
Chat == ResetResponse \/ EndPayload \/ Send \/ Poll \/ Read
Work(w) == Check(w) \/ Claim(w) \/ Delta(w) \/ Finish(w) \/ Add(w) \/ CurlEnds(w)

StreamNext == Ask \/ Chat \/ \E w \in Workers : Work(w)

\* The threads are scheduled, and curl returns; the user need not ask again.
Fairness ==
  /\ WF_streamVars(Chat)
  /\ \A w \in Workers : /\ WF_streamVars(Check(w) \/ Claim(w) \/ Add(w))
                        /\ WF_streamVars(CurlEnds(w))

StreamSpec == StreamInit /\ [][StreamNext]_streamVars
FairStreamSpec == StreamSpec /\ Fairness

-----------------------------------------------------------------------------
(* Properties *)

Bytes == (1..MaxDeltas) \X (Nat \ {0})

StreamTypeOK ==
  /\ chunk \in Seq(Bytes) /\ Len(chunk) < ChunkSize
  /\ complete \in BOOLEAN /\ streaming \in BOOLEAN
  /\ \A w \in Workers :
       /\ worker[w].at \in {"none", "check", "claim", "stream", "add", "wait", "gone"}
       /\ worker[w].text \in Seq(Bytes)
       /\ worker[w].finished \in BOOLEAN
  /\ cpu \in {"idle", "reset", "payload", "send", "poll", "read"}
  /\ request \in 0..MaxRequests /\ deltas \in 0..MaxDeltas
  /\ got \in Seq(Bytes) /\ Len(got) <= ReaderSize
  /\ result \in {"none", "end", "timeout", "full"}
  /\ voice \in Workers \union {NoWorker} /\ answer \in Seq(Bytes)
  /\ disturbed \in BOOLEAN

\* Unless an older stream or the request's other thread is in its way, the reader gets
\* the answer to its own request from the beginning, no character lost or doubled,
\* whatever comes between the callback's waits and the reader's polls.
AnswerFromStart == ~disturbed => IsPrefix(got, answer)

\* The end is told only after the whole answer was read: the last chunk is read before
\* the end is seen, although the callback marks it while the chunk is still full.
EndAfterAnswer ==
  ~disturbed /\ result = "end" => voice # NoWorker /\ worker[voice].finished /\ got = answer

\* The reader copies the answer to its own request while it grows, and is told the end
\* when the answer is complete and it has all of it.
Copies == INSTANCE StreamCopy WITH
  Filler <- <<0, 0>>,
  transfer <- request,
  source <- answer,
  closed <- IF voice # NoWorker /\ worker[voice].finished THEN "well" ELSE "no",
  copy <- got,
  report <- CASE result = "none" -> "open" [] result = "end" -> "done" [] OTHER -> "failed",
  spoiled <- disturbed
AnswerCopied == Copies!Spec

\* The callback waits only while the chunk has text for the reader, and the flag that keeps
\* other requests from starting is set only while somebody streams: no wake-up is missed
\* between the callback's test of the chunk and the reader's signal.
CallbackWaitsForReader ==
  /\ ~disturbed => \A w \in Workers : At(w, "wait") => chunk # <<>>
  /\ streaming => \E w \in Workers : worker[w].at \in {"stream", "add", "wait"}

\* The reader went away from unread text and left the callback waiting for it.
Abandoned == cpu = "idle" /\ chunk # <<>> /\ \E w \in Workers : At(w, "wait")

\* A stream ends, so that the next request can start: its callback does not miss the
\* reader's signal.  It hangs only if the reader went away before it read everything.
StreamEnds == streaming /\ ~disturbed ~> ~streaming \/ disturbed \/ Abandoned
=============================================================================
