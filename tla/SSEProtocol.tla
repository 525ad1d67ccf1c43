---------------------------- MODULE SSEProtocol ----------------------------
(***************************************************************************)
(* What a client of /v1/chat/completions with "stream": true may see, as    *)
(* the sequence of the kinds of frames it was sent, heartbeats left out:     *)
(* either one JSON error and nothing else, or an initial chunk, content      *)
(* chunks, one finishing chunk ("stop" or "error") and [DONE].  Unless it    *)
(* finished with "stop" the sequence may begin again, at any point, at most  *)
(* Restarts times.  In each of them a panic may be reported, in place of any  *)
(* other frame, and is a finishing chunk too.  A connection that breaks may   *)
(* cut all of it anywhere.                                                   *)
(***************************************************************************)
EXTENDS Sequences, FiniteSets, Naturals

CONSTANT Restarts

VARIABLE sent

Ends(kinds) == sent # <<>> /\ sent[Len(sent)] \in kinds

Count(kind) == Cardinality({i \in DOMAIN sent : sent[i] = kind})

Emit(kind) == sent' = Append(sent, kind)

(* The client was told of a success that no panic has revoked. *)
Stopped ==
  \E i \in DOMAIN sent :
    sent[i] = "stop" /\ \A j \in (i + 1)..Len(sent) : sent[j] # "panic"

Init == sent = <<>>

Refuse == sent = <<>> /\ Emit("json")
Open   == Count("json") = 0 /\ ~Stopped /\ Count("init") =< Restarts /\ Emit("init")
Delta  == Ends({"init", "chunk"}) /\ Emit("chunk")
Finish == Ends({"init", "chunk"}) /\ (Emit("stop") \/ Emit("error"))
Panic  ==
  /\ Count("json") = 0
  /\ Stopped => Ends({"stop"})
  /\ Count("panic") =< Restarts
  /\ Emit("panic")
Close  == Ends({"stop", "error", "panic"}) /\ Emit("done")

Next == Refuse \/ Open \/ Delta \/ Finish \/ Panic \/ Close

Spec == Init /\ [][Next]_sent
=============================================================================
