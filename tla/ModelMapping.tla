---------------------------- MODULE ModelMapping ----------------------------
(***************************************************************************)
(* The model names: how MODEL_MAPPINGS becomes the mapping from external to  *)
(* internal names (config/config.go), how a chat request uses it             *)
(* (service/validator.go, chat.go, stream.go), and how /v1/models lists it,   *)
(* through the model cache (service/model.go, pkg/cache/response_cache.go).   *)
(*                                                                          *)
(* Go iterates over a map in random order, so the external name found for an *)
(* internal one is any that maps to it.                                      *)
(***************************************************************************)
EXTENDS Sequences, FiniteSets, Integers

CONSTANTS Names,     \* model names, external and internal
          Empty,     \* the empty name
          NoName,    \* no request yet
          Defaults,  \* the hard-coded config.ModelMapping
          MaxPairs,  \* bound on the pairs in MODEL_MAPPINGS
          MaxMissed, \* bound on the handlers that generate a list at a time
          CacheOn

ASSUME MappingAssumption ==
  /\ Empty \notin Names /\ NoName \notin Names
  /\ DOMAIN Defaults \subseteq Names /\ DOMAIN Defaults # {}
  /\ \A n \in DOMAIN Defaults : Defaults[n] \in Names
  /\ MaxPairs \in Nat /\ MaxMissed \in Nat
  /\ CacheOn \in BOOLEAN

(* A pair of MODEL_MAPPINGS is its parts around the first colon, trimmed; one  *)
(* without a colon has a single part.                                        *)
Pairs == {<<Empty>>} \cup ((Names \cup {Empty}) \X (Names \cup {Empty}))

VARIABLES
  pairs,    \* what MODEL_MAPPINGS holds
  next,     \* the pair the loop of loadModelMappings looks at
  mappings, \* its local map, and c.ModelMappings when ready
  ready,    \* the configuration is loaded
  cached,   \* the model cache: a list (as a set of names), or {} for none
  missed,   \* handlers of /v1/models that found the cache empty, not yet done
  listed,   \* the last reply of /v1/models
  chat      \* the last chat request: the kind of its reply, the name asked for,
            \* sent to the backend, named in the reply; or its refusal

loading == <<pairs, next, mappings, ready>>
vars == <<pairs, next, mappings, ready, cached, missed, listed, chat>>

NoMapping == [n \in {} |-> n]

NoChat == [kind |-> "none", asked |-> NoName, sent |-> NoName, named |-> NoName]

Init ==
  /\ pairs \in UNION {[1..n -> Pairs] : n \in 0..MaxPairs}
  /\ next = 1 /\ mappings = NoMapping /\ ready = FALSE
  /\ cached = {} /\ missed = 0 /\ listed = {} /\ chat = NoChat
-----------------------------------------------------------------------------
(* loadModelMappings *)

(* Fault: a pair with an empty name or model is taken. *)
ValidByColon(pair) == Len(pair) = 2

Valid(pair) == Len(pair) = 2 /\ pair[1] # Empty /\ pair[2] # Empty

(* Fault: the first pair for a name counts. *)
AddFirst(pair) ==
  mappings' = [n \in DOMAIN mappings \cup {pair[1]} |->
                 IF n \in DOMAIN mappings THEN mappings[n] ELSE pair[2]]

Add(pair) ==
  mappings' = [n \in DOMAIN mappings \cup {pair[1]} |->
                 IF n = pair[1] THEN pair[2] ELSE mappings[n]]

ParsePair ==
  /\ ~ready /\ next =< Len(pairs)
  /\ next' = next + 1
  /\ IF Valid(pairs[next]) THEN Add(pairs[next]) ELSE UNCHANGED mappings
  /\ UNCHANGED <<pairs, ready, cached, missed, listed, chat>>

(* Without a valid pair the hard-coded mapping is used. *)
FinishLoading ==
  /\ ~ready /\ next = Len(pairs) + 1
  /\ ready' = TRUE
  /\ mappings' = IF DOMAIN mappings # {} THEN mappings ELSE Defaults
  /\ UNCHANGED <<pairs, next, cached, missed, listed, chat>>
-----------------------------------------------------------------------------
(* Config.Models *)
Models == {mappings[n] : n \in DOMAIN mappings}

(* The external names GetExternalModelName may return for a name: one that     *)
(* maps to it, or the name itself if there is none.                          *)
Aliases(name) == {n \in DOMAIN mappings : mappings[n] = name}

ExternalNames(name) == IF Aliases(name) = {} THEN {name} ELSE Aliases(name)

(* ModelGetHandler finds no list in the cache, or the cache is disabled. *)
Miss ==
  /\ ready /\ cached = {} /\ missed < MaxMissed
  /\ missed' = missed + 1
  /\ UNCHANGED <<loading, cached, listed, chat>>

(* Fault: the internal names are listed as they are. *)
ListInternal ==
  /\ missed > 0 /\ missed' = missed - 1
  /\ listed' = Models
  /\ cached' = IF CacheOn THEN Models ELSE cached
  /\ UNCHANGED <<loading, chat>>

(* ... and generates one: an external name for every internal one.  Another    *)
(* handler may have stored its list in the meantime; this one replaces it.    *)
List ==
  /\ missed > 0 /\ missed' = missed - 1
  /\ \E choice \in [Models -> Names] :
       /\ \A m \in Models : choice[m] \in ExternalNames(m)
       /\ listed' = {choice[m] : m \in Models}
       /\ cached' = IF CacheOn THEN listed' ELSE cached
  /\ UNCHANGED <<loading, chat>>

ListCached ==
  /\ ready /\ cached # {}
  /\ listed' = cached
  /\ UNCHANGED <<loading, cached, missed, chat>>

(* The model list reaches its TTL, or the cache is cleared. *)
Expire ==
  /\ cached # {} /\ cached' = {}
  /\ UNCHANGED <<loading, missed, listed, chat>>
-----------------------------------------------------------------------------
(* MapModelName *)
Internal(name) == IF name \in DOMAIN mappings THEN mappings[name] ELSE name

(* What may name the model to the client: a whole answer, a frame of a stream,  *)
(* or the frame that reports a panic in one.                                 *)
Kinds == {"whole", "frame", "panic"}

(* Fault: the hard-coded mapping is not asked. *)
WholeNamesUnasked(name) == ExternalNames(name)

(* getExternalModelName asks the hard-coded mapping whether the name is an     *)
(* external one.                                                             *)
WholeNames(name) == IF name \in DOMAIN Defaults THEN {name} ELSE ExternalNames(name)

(* The recovery looks the asked name up as if it were internal, and             *)
(* sendPanicErrorSSE what came of that once more.                            *)
PanicNames(name) == UNION {ExternalNames(n) : n \in ExternalNames(name)}

ReplyNames(name, kind) ==
  CASE kind = "whole" -> WholeNames(name)
    [] kind = "frame" -> {name}
    [] kind = "panic" -> PanicNames(name)

(* chatParamCheck knows the name. *)
Chat(name, kind) ==
  /\ ready /\ name \in DOMAIN mappings
  /\ \E named \in ReplyNames(name, kind) :
       chat' = [kind |-> kind, asked |-> name, sent |-> Internal(name), named |-> named]
  /\ UNCHANGED <<loading, cached, missed, listed>>

(* ... or does not. *)
Refuse(name) ==
  /\ ready /\ name \notin DOMAIN mappings
  /\ chat' = [NoChat EXCEPT !.asked = name]
  /\ UNCHANGED <<loading, cached, missed, listed>>

Next ==
  \/ ParsePair \/ FinishLoading
  \/ Miss \/ List \/ ListCached \/ Expire
  \/ \E name \in Names : Refuse(name) \/ \E kind \in Kinds : Chat(name, kind)

Spec == Init /\ [][Next]_vars
-----------------------------------------------------------------------------
TypeOK ==
  /\ next \in 1..(Len(pairs) + 1)
  /\ DOMAIN mappings \subseteq Names
  /\ \A n \in DOMAIN mappings : mappings[n] \in Names
  /\ ready \in BOOLEAN /\ missed \in 0..MaxMissed
  /\ cached \subseteq Names /\ listed \subseteq Names
  /\ chat \in [kind : Kinds \cup {"none"}, asked : Names \cup {NoName},
               sent : Names \cup {NoName}, named : Names \cup {NoName}]

(* What the operator wrote is what is served: the model a chat goes to is the  *)
(* one of the last valid pair for the name, or the hard-coded one if no pair   *)
(* is valid; a name no pair introduces is refused (config.go:255-287,          *)
(* validator.go:17-25).                                                      *)
ValidAt(name) == {i \in DOMAIN pairs : Valid(pairs[i]) /\ pairs[i][1] = name}

Configured ==
  IF \E i \in DOMAIN pairs : Valid(pairs[i])
    THEN {<<n, pairs[CHOOSE i \in ValidAt(n) : \A j \in ValidAt(n) : j =< i][2]>> :
            n \in {m \in Names : ValidAt(m) # {}}}
    ELSE {<<n, Defaults[n]>> : n \in DOMAIN Defaults}

ChatsGoWhereConfigured ==
  chat.sent # NoName => <<chat.asked, chat.sent>> \in Configured

(* A client can use what it is offered: every listed name is one that a chat   *)
(* request may ask for, and every internal model can be reached by exactly one *)
(* of them, whichever names the map iteration finds (model.go:42-50).         *)
OfferedIsUsable ==
  listed # {} =>
    /\ \A n \in listed : n \in DOMAIN mappings
    /\ \A m \in Models : Cardinality({n \in listed : Internal(n) = m}) = 1

(* A name in a reply leads back to the one that was asked for.  The frames of a *)
(* stream carry that very name.  A whole answer names another one only if the   *)
(* hard-coded mapping lacks the asked name, and then one that maps to it: a     *)
(* client that asks for that one next may be sent to another model.  The report  *)
(* of a panic is looked up twice, in the configured mapping alone, and may be    *)
(* two steps away.  Whatever is named can be asked for (chat.go:270-281,        *)
(* stream.go:196, 213, 522, utils.go:238-248).                               *)
ReplyLeadsBack ==
  chat.named # NoName =>
    /\ chat.named \in DOMAIN mappings
    /\ \/ chat.named = chat.asked
       \/ /\ chat.kind \in {"whole", "panic"} /\ Internal(chat.named) = chat.asked
          /\ chat.kind = "whole" => chat.asked \notin DOMAIN Defaults
       \/ chat.kind = "panic" /\ Internal(Internal(chat.named)) = chat.asked
=============================================================================
