----------------------------- MODULE TokenUsage -----------------------------
(***************************************************************************)
(* The token usage a client is told for one chat completion: the            *)
(* TokenCounter (service/token_counter.go) of its request, filled line by    *)
(* line while a stream runs, over all attempts of the stream               *)
(* (service/stream.go), or once from the whole answer (service/chat.go).     *)
(*                                                                          *)
(* One goroutine uses the counter, so its mutex never waits.  The figures a  *)
(* stream sends stand for the frame, whether or not its write succeeds.      *)
(***************************************************************************)
EXTENDS TokenCount

CONSTANTS Prompts,   \* the lists of message contents a request may have
          Figures,   \* the figures the backend may report; 0 is an absent one
          Retry,     \* config.Client.Retry
          MaxRunes,  \* bound on the runes of one line's text
          MaxLines   \* bound on the lines of one response

ASSUME UsageAssumption ==
  /\ Prompts \subseteq Seq(Seq(Classes))
  /\ Figures \subseteq Nat /\ 0 \in Figures
  /\ Retry \in Nat \ {0}
  /\ MaxRunes \in Nat /\ MaxLines \in Nat

Texts == UNION {[1..n -> Classes] : n \in 0..MaxRunes}

Usage == [prompt : Nat, completion : Nat]
NoUsage == [prompt |-> 0, completion |-> 0]

VARIABLES
  stream,    \* the request asks for a stream
  messages,  \* the contents of its messages
  place,     \* "start", "call", "scan", "closing", "parse" or "end"
  attempt,   \* attempts of the stream begun
  lines,     \* lines read of the current response
  inputTokens, outputTokens, totalTokens, streamUsage,  \* the TokenCounter
  content, reasoningContent, usage,  \* what parseResponseBody has collected
  told,      \* the usage in the last frame or reply
  counted    \* history: each attempt's lines, counted one by one

counter == <<inputTokens, outputTokens, totalTokens, streamUsage>>
parsed  == <<content, reasoningContent, usage>>
request == <<stream, messages>>
vars == <<stream, messages, place, attempt, lines, inputTokens, outputTokens, totalTokens,
          streamUsage, content, reasoningContent, usage, told, counted>>

Nothing == [kind |-> "none", prompt |-> 0, completion |-> 0, total |-> 0]

Init ==
  /\ stream \in BOOLEAN /\ messages \in Prompts
  /\ place = "start" /\ attempt = 0 /\ lines = 0
  /\ inputTokens = 0 /\ outputTokens = 0 /\ totalTokens = 0 /\ streamUsage = NoUsage
  /\ content = <<>> /\ reasoningContent = <<>> /\ usage = NoUsage
  /\ told = Nothing
  /\ counted = [a \in 1..Retry |-> 0]
-----------------------------------------------------------------------------
(* TokenCounter *)

(* Fault: the total is that of the input alone. *)
SetInputTokensAlone(n) == inputTokens' = n /\ totalTokens' = n

SetInputTokens(n) == inputTokens' = n /\ totalTokens' = n + outputTokens

AddOutputTokens(n) ==
  /\ outputTokens' = outputTokens + n
  /\ totalTokens' = inputTokens + outputTokens'

(* GetUsage, in the frame being sent. *)
TellUsage(kind) ==
  told' = [kind |-> kind, prompt |-> inputTokens', completion |-> outputTokens',
           total |-> totalTokens']

(* correctUsage *)
TellCorrected(kind, server) ==
  LET prompt     == CorrectTokenCount(server.prompt, inputTokens')
      completion == CorrectTokenCount(server.completion, outputTokens')
  IN told' = [kind |-> kind, prompt |-> prompt, completion |-> completion,
              total |-> prompt + completion]

(* ChatCompletionsHandler counts the prompt before it chooses the path. *)
Begin ==
  /\ place = "start"
  /\ SetInputTokens(CalculateMessageTokens(messages))
  /\ place' = IF stream THEN "call" ELSE "parse"
  /\ UNCHANGED <<request, attempt, lines, outputTokens, streamUsage, parsed, told, counted>>
-----------------------------------------------------------------------------
(* A stream *)

(* The attempt fails before the stream (transport error or status). *)
CallFails ==
  /\ place = "call"
  /\ attempt' = attempt + 1
  /\ place' = IF attempt' < Retry THEN "call" ELSE "end"
  /\ UNCHANGED <<request, lines, counter, parsed, told, counted>>

(* processResponseStream counts the prompt again and sends the initial frame. *)
Open ==
  /\ place = "call" /\ place' = "scan"
  /\ attempt' = attempt + 1 /\ lines' = 0
  /\ SetInputTokens(CalculateMessageTokens(messages))
  /\ UNCHANGED <<outputTokens, streamUsage>>
  /\ TellUsage("init")
  /\ UNCHANGED <<request, parsed, counted>>

ReadLine(from) == place = from /\ lines < MaxLines /\ lines' = lines + 1

Count(a, text) == counted' = [counted EXCEPT ![a] = @ + CountTokens(text)]

(* A "g:" or "0:" line: its text is counted before its frame is written, so a  *)
(* frame that cannot be written has been counted too.                        *)
StreamText(text) ==
  /\ ReadLine("scan")
  /\ AddOutputTokens(CountTokens(text))
  /\ UNCHANGED <<inputTokens, streamUsage>>
  /\ TellUsage("chunk")
  /\ Count(attempt, text)
  /\ UNCHANGED <<request, place, attempt, parsed>>

(* A "d:" line replaces the usage of an earlier one, by zeros if it cannot be  *)
(* parsed.                                                                   *)
StreamFigures(figures) ==
  /\ ReadLine("scan")
  /\ streamUsage' = figures
  /\ UNCHANGED <<request, place, attempt, inputTokens, outputTokens, totalTokens, parsed,
                 told, counted>>

(* Fault: one retry too many. *)
FailOffByOne ==
  /\ place \in {"scan", "closing"}
  /\ place' = IF attempt =< Retry THEN "call" ELSE "end"
  /\ UNCHANGED <<request, attempt, lines, counter, parsed, told, counted>>

(* The attempt fails: silently, with an error frame that has the current       *)
(* figures, or with that of a recovered panic, which has none.                *)
Fail ==
  /\ place \in {"scan", "closing"}
  /\ place' = IF attempt < Retry THEN "call" ELSE "end"
  /\ UNCHANGED counter
  /\ \/ UNCHANGED told
     \/ place = "scan" /\ TellUsage("error")
     \/ told' = [Nothing EXCEPT !.kind = "panic"]
  /\ UNCHANGED <<request, attempt, lines, parsed, counted>>

(* sendFinalMessage: the figures of the last "d:" line of any attempt, corrected. *)
Finish ==
  /\ place = "scan" /\ place' = "closing"
  /\ UNCHANGED counter
  /\ TellCorrected("stop", streamUsage)
  /\ UNCHANGED <<request, attempt, lines, parsed, counted>>

(* The finishing frame and [DONE] are written; or the stream just ended, its    *)
(* context being done.                                                       *)
End ==
  /\ place \in {"closing", "scan"} /\ place' = "end"
  /\ UNCHANGED <<request, attempt, lines, counter, parsed, told, counted>>
-----------------------------------------------------------------------------
(* A whole answer: parseResponseBody, processLineData, processTokenCounting *)

ParseText(text) ==
  /\ ReadLine("parse")
  /\ content' = content \o text
  /\ Count(1, text)
  /\ UNCHANGED <<request, place, attempt, counter, reasoningContent, usage, told>>

(* Fault: the lines of the reasoning are joined without a separator. *)
ParseReasoningTogether(text) ==
  /\ ReadLine("parse")
  /\ reasoningContent' = reasoningContent \o text
  /\ Count(1, text)
  /\ UNCHANGED <<request, place, attempt, counter, content, usage, told>>

(* The lines of the reasoning are joined by a newline. *)
ParseReasoning(text) ==
  /\ ReadLine("parse")
  /\ reasoningContent' = IF reasoningContent = <<>>
                           THEN text
                           ELSE reasoningContent \o <<"blank">> \o text
  /\ Count(1, text)
  /\ UNCHANGED <<request, place, attempt, counter, content, usage, told>>

(* A "d:" line sets the figures it has. *)
ParseFigures(figures) ==
  /\ ReadLine("parse")
  /\ usage' = [f \in DOMAIN usage |-> IF figures[f] > 0 THEN figures[f] ELSE usage[f]]
  /\ UNCHANGED <<request, place, attempt, counter, content, reasoningContent, told, counted>>

(* A line is too long, or the client left. *)
ParseFails ==
  /\ place = "parse" /\ place' = "end"
  /\ UNCHANGED <<request, attempt, lines, counter, parsed, told, counted>>

Reply ==
  /\ place = "parse" /\ place' = "end"
  /\ AddOutputTokens(CountTokens(content) + CountTokens(reasoningContent))
  /\ UNCHANGED <<inputTokens, streamUsage>>
  /\ TellCorrected("reply", usage)
  /\ UNCHANGED <<request, attempt, lines, parsed, counted>>

Next ==
  \/ Begin
  \/ CallFails \/ Open \/ Fail \/ Finish \/ End
  \/ \E text \in Texts : StreamText(text) \/ ParseText(text) \/ ParseReasoning(text)
  \/ \E p, c \in Figures :
       LET figures == [prompt |-> p, completion |-> c]
       IN  StreamFigures(figures) \/ ParseFigures(figures)
  \/ ParseFails \/ Reply

Spec == Init /\ [][Next]_vars
-----------------------------------------------------------------------------
TypeOK ==
  /\ stream \in BOOLEAN /\ messages \in Prompts
  /\ place \in {"start", "call", "scan", "closing", "parse", "end"}
  /\ attempt \in 0..Retry /\ lines \in 0..MaxLines
  /\ inputTokens \in Nat /\ outputTokens \in Nat /\ totalTokens \in Nat
  /\ streamUsage \in Usage /\ usage \in Usage
  /\ content \in Seq(Classes) /\ reasoningContent \in Seq(Classes)
  /\ told \in [kind : {"none", "init", "chunk", "error", "panic", "stop", "reply"},
               prompt : Nat, completion : Nat, total : Nat]
  /\ counted \in [1..Retry -> Nat]

(* The single pass over a text counts what a definition by positions counts:   *)
(* the words followed by a blank or the end of the text, the punctuation and   *)
(* the wide runes, however they alternate (utils.go:86-127).                  *)
EstimateIsByPosition ==
  \A text \in {content, reasoningContent} : CountTokens(text) = TokensByPosition(text)

Whole == CountTokens(content) + CountTokens(reasoningContent)

(* The same answer is billed alike in both modes: what a stream would count of *)
(* it, line by line, is at least two thirds of what the whole is counted as,   *)
(* each line being rounded for itself.  It is at most two tokens per line more, *)
(* a line of the text ending within a word; and nothing more when all is       *)
(* reasoning, whose lines stay apart (stream.go:383-393, chat.go:341-344).     *)
ModesCountAlike ==
  ~stream => /\ 3 * counted[1] >= 2 * Whole
             /\ counted[1] =< Whole + (IF content = <<>> THEN 0 ELSE 2 * lines)

(* The completion, over all attempts: the client was sent all of it. *)
Calculated == IF stream THEN Total(counted) ELSE Whole

CloseTo(figure, calculated) ==
  /\ 5 * (figure - calculated) =< calculated
  /\ 5 * (calculated - figure) =< calculated
  /\ calculated > 0 => figure > 0

(* Every usage the client is told adds up and speaks of the whole response: a  *)
(* frame in the middle has the tokens of the prompt, once, and of all lines of  *)
(* all attempts so far; the last one has the backend's figures or the calculated *)
(* ones, and is within a fifth of the latter, whichever attempt the former came *)
(* from (stream.go:202, 413, 473-493, handler.go:409-431).                    *)
UsageSpansAttempts ==
  /\ told.total = told.prompt + told.completion
  /\ told.kind \in {"init", "chunk", "error"} =>
       /\ told.completion = Calculated
       /\ told.prompt = CalculateMessageTokens(messages)
  /\ told.kind \in {"stop", "reply"} /\ place \in {"closing", "end"} =>
       /\ told.prompt > 0 /\ CloseTo(told.prompt, CalculateMessageTokens(messages))
       /\ Calculated > 0 => CloseTo(told.completion, Calculated)
=============================================================================
