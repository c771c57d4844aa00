-------------------------------- MODULE LlmCall --------------------------------
(***************************************************************************)
(* A call of the model with its retries (llm-client.ts), while the         *)
(* administrator changes the configuration and other calls run.            *)
(*                                                                         *)
(* A configuration is a number that stands for its endpoints, keys and     *)
(* model names.  A timeout aborts the request, so that what arrives later  *)
(* is dropped with it: to the caller it is one more way to fail.           *)
(***************************************************************************)
EXTENDS Integers, Sequences

CONSTANTS
    MaxRetries,  \* attempts of one call
    MaxBytes,    \* tokens that the buffer of a stream takes
    MaxTokens,   \* bound: tokens of one attempt
    MaxConfig    \* bound: changes of the configuration

VARIABLES
    config,   \* the present configuration
    client,   \* [chat, embed]: the configurations the shared clients were built from, 0 for none
    request,  \* [kind, bound, phase, emitted, buffer] of the call
    asked,    \* what each attempt asked: [endpoint, model]
    shown,    \* tokens handed to the caller: [attempt, n]
    reply     \* what the call returned

callVars == <<config, client, request, asked, shown, reply>>

Attempt == Len(asked)

\* The clients that a call finds after ensureFresh.
EnsureFresh == IF client.chat = config THEN client ELSE [chat |-> config, embed |-> 0]

\* The client of an embedding call stays the one it began with; the model is
\* always the present one.
Endpoint == IF request.kind = "embed" THEN request.bound ELSE client.chat

CallInit ==
    /\ config = 1 /\ client \in {[chat |-> 1, embed |-> e] : e \in 0 .. 1}
    /\ request = [kind |-> "none", bound |-> 0, phase |-> "idle", emitted |-> FALSE, buffer |-> <<>>]
    /\ asked = <<>> /\ shown = <<>> /\ reply = <<>>

\* chat, chatStream and embed up to the first request.
Ask ==
    /\ request.phase = "idle"
    /\ \E kind \in {"chat", "stream", "embed"} :
          /\ client' = IF kind = "embed" /\ EnsureFresh.embed = 0
                       THEN [EnsureFresh EXCEPT !.embed = config] ELSE EnsureFresh
          /\ request' = [request EXCEPT !.kind = kind, !.bound = client'.embed, !.phase = "asking"]
          /\ asked' = <<[endpoint |-> IF kind = "embed" THEN client'.embed ELSE client'.chat, model |-> config]>>
    /\ UNCHANGED <<config, shown, reply>>

\* Mutant: a stream is retried like the others.
RetryAlways(req) == TRUE

\* shouldRetry of a stream.
ShouldRetry(req) == req.kind = "stream" => ~req.emitted

\* runWithRetry, after an error.
Failed(req) == [req EXCEPT !.phase = IF Attempt < MaxRetries /\ ShouldRetry(req) THEN "pausing" ELSE "failed"]

\* An error, a timeout, an empty answer.
Fail ==
    /\ request.phase = "asking"
    /\ request' = Failed(request)
    /\ UNCHANGED <<config, client, asked, shown, reply>>

\* One token of a stream; the buffer takes it before the caller does.
Token ==
    /\ request.phase = "asking" /\ request.kind = "stream" /\ Len(request.buffer) < MaxTokens
    /\ LET token == [attempt |-> Attempt, n |-> Len(request.buffer) + 1]
           taken == [request EXCEPT !.emitted = TRUE, !.buffer = Append(@, token)]
       IN  \/ token.n <= MaxBytes /\ request' = taken /\ shown' = Append(shown, token)
           \/ /\ token.n > MaxBytes
              /\ request' = Failed([request EXCEPT !.emitted = TRUE])
              /\ UNCHANGED shown
    /\ UNCHANGED <<config, client, asked, reply>>

Answer ==
    /\ request.phase = "asking"
    /\ request' = [request EXCEPT !.phase = "answered"]
    /\ reply' = IF request.kind = "stream" THEN request.buffer ELSE <<[attempt |-> Attempt, n |-> 1]>>
    /\ UNCHANGED <<config, client, asked, shown>>

\* The delay is over.
Retry ==
    /\ request.phase = "pausing"
    /\ request' = [request EXCEPT !.phase = "asking", !.buffer = <<>>]
    /\ asked' = Append(asked, [endpoint |-> Endpoint, model |-> config])
    /\ UNCHANGED <<config, client, shown, reply>>

ChangeConfig ==
    /\ config < MaxConfig /\ config' = config + 1
    /\ UNCHANGED <<client, request, asked, shown, reply>>

\* Another call passes ensureFresh.
OtherCall ==
    /\ client' = EnsureFresh
    /\ UNCHANGED <<config, request, asked, shown, reply>>

CallNext == Ask \/ Fail \/ Token \/ Answer \/ Retry \/ ChangeConfig \/ OtherCall

-----------------------------------------------------------------------------
\* However often a call is retried: the caller is shown the tokens of one
\* attempt, in order, and never more than the buffer takes; what it is
\* returned is what it was shown; the first attempt asks the configured model
\* where that is configured, and no later one an endpoint newer than its model
\* (chatStream, runWithRetry, ensureFresh).
ReplyIsOneAnswer ==
    /\ \A i \in DOMAIN shown : shown[i] = [attempt |-> Attempt, n |-> i]
    /\ Len(shown) <= MaxBytes /\ Attempt <= MaxRetries
    /\ request.phase = "answered" =>
          \A i \in DOMAIN reply : reply[i].attempt = Attempt
    /\ request.phase = "answered" /\ request.kind = "stream" => reply = shown
    /\ \A i \in DOMAIN asked : asked[i].endpoint <= asked[i].model
    /\ asked # <<>> => asked[1].endpoint = asked[1].model
=============================================================================
