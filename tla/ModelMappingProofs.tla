------------------------- MODULE ModelMappingProofs -------------------------
(***************************************************************************)
(* For any names, hard-coded mapping and MODEL_MAPPINGS of any length: chats  *)
(* go where the operator configured, every listed name can be used, and the  *)
(* name in a reply leads back to the one asked for.                          *)
(***************************************************************************)
EXTENDS ModelMapping, FiniteSetTheorems, SequenceTheorems, TLAPS

(* Nothing is served before the configuration is loaded. *)
LoadInv ==
  /\ pairs \in Seq(Pairs)
  /\ ~ready => cached = {} /\ missed = 0 /\ listed = {} /\ chat = NoChat

TypeInv == TypeOK /\ LoadInv

LEMMA ValidPair ==
  ASSUME NEW pair \in Pairs, Valid(pair)
  PROVE  pair = <<pair[1], pair[2]>> /\ pair[1] \in Names /\ pair[2] \in Names
BY DEF Pairs, Valid

(* Whatever name is looked up, a name is found. *)
LEMMA NamesFound ==
  ASSUME TypeInv, NEW name \in Names
  PROVE  /\ Internal(name) \in Names /\ Models \subseteq Names
         /\ ExternalNames(name) \subseteq Names
         /\ \A kind \in Kinds : ReplyNames(name, kind) \subseteq Names
<1>1. ASSUME NEW n \in Names PROVE ExternalNames(n) \subseteq Names
  BY <1>1 DEF TypeInv, TypeOK, Aliases, ExternalNames
<1>2. Internal(name) \in Names /\ Models \subseteq Names
  BY DEF TypeInv, TypeOK, Internal, Models
<1>3. WholeNames(name) \subseteq Names /\ PanicNames(name) \subseteq Names
  BY <1>1 DEF WholeNames, PanicNames
<1> QED
  BY <1>1, <1>2, <1>3 DEF Kinds, ReplyNames

LEMMA InitType == Init => TypeInv
<1> SUFFICES ASSUME Init PROVE TypeInv
  OBVIOUS
<1>1. pairs \in Seq(Pairs) /\ Len(pairs) \in Nat
  BY MappingAssumption, SeqDef, LenProperties DEF Init
<1>2. next = 1 /\ ready = FALSE /\ missed = 0 /\ MaxMissed \in Nat
  BY MappingAssumption DEF Init
<1>3. DOMAIN mappings = {} /\ chat = NoChat /\ cached = {} /\ listed = {} /\ missed = 0
  BY DEF Init, NoMapping
<1>4. next \in 1..(Len(pairs) + 1) /\ missed \in 0..MaxMissed
  BY <1>1, <1>2
<1> QED
  BY <1>1, <1>2, <1>3, <1>4 DEF TypeInv, TypeOK, LoadInv, NoChat

LEMMA StepType == TypeInv /\ [Next]_vars => TypeInv'
<1> SUFFICES ASSUME TypeInv, [Next]_vars PROVE TypeInv'
  OBVIOUS
<1> USE MappingAssumption DEF TypeInv, TypeOK, LoadInv, loading
<1>0. Len(pairs) \in Nat
  BY LenProperties
<1>1. CASE ParsePair
  <2>1. next \in 1..Len(pairs) /\ pairs[next] \in Pairs
    BY <1>0, <1>1, ElementOfSeq DEF ParsePair
  <2>2. next' \in 1..(Len(pairs) + 1) /\ UNCHANGED <<pairs, ready, cached, missed, listed, chat>>
    BY <1>0, <1>1, <2>1 DEF ParsePair
  <2>3. CASE Valid(pairs[next])
    BY <1>1, <2>1, <2>2, <2>3, ValidPair DEF ParsePair, Add
  <2>4. CASE ~Valid(pairs[next])
    BY <1>1, <2>2, <2>4 DEF ParsePair
  <2> QED
    BY <2>3, <2>4
<1>2. CASE FinishLoading
  BY <1>2 DEF FinishLoading
<1>3. CASE Miss \/ ListCached \/ Expire
  BY <1>3 DEF Miss, ListCached, Expire
<1>4. CASE List
  <2>1. PICK choice \in [Models -> Names] : /\ listed' = {choice[m] : m \in Models}
                                            /\ cached' = IF CacheOn THEN listed' ELSE cached
    BY <1>4 DEF List
  <2>2. listed' \subseteq Names /\ cached' \subseteq Names
    BY <2>1
  <2> QED
    BY <1>4, <2>2 DEF List
<1>5. ASSUME NEW name \in Names, Refuse(name) PROVE TypeInv'
  BY <1>5 DEF Refuse, NoChat
<1>6. ASSUME NEW name \in Names, NEW kind \in Kinds, Chat(name, kind) PROVE TypeInv'
  <2>1. PICK named \in Names :
          chat' = [kind |-> kind, asked |-> name, sent |-> Internal(name), named |-> named]
    BY <1>6, NamesFound DEF Chat
  <2> QED
    BY <1>6, <2>1, NamesFound DEF Chat
<1>7. CASE UNCHANGED vars
  BY <1>7 DEF vars
<1> QED
  BY <1>1, <1>2, <1>3, <1>4, <1>5, <1>6, <1>7 DEF Next

(* Every state is well typed; in particular the empty name never becomes part of *)
(* the mapping (config.go:266-280).                                          *)
THEOREM Typing == Spec => []TypeOK
<1>1. TypeInv => TypeOK
  BY DEF TypeInv
<1> QED
  BY <1>1, InitType, StepType, PTL DEF Spec
-----------------------------------------------------------------------------
(* The pairs the loop has passed that give a name a model. *)
PassedAt(name) == {i \in ValidAt(name) : i < next}

(* While it loads, the mapping holds the last passed pair of every name; once     *)
(* loaded it is what is configured.                                          *)
MappingInv ==
  /\ ~ready => /\ \A n \in DOMAIN mappings : \E i \in PassedAt(n) :
                      /\ pairs[i][2] = mappings[n]
                      /\ \A j \in PassedAt(n) : j =< i
               /\ \A n \in Names : PassedAt(n) # {} => n \in DOMAIN mappings
  /\ ready => \A n \in DOMAIN mappings : <<n, mappings[n]>> \in Configured

ChatInv == MappingInv /\ ChatsGoWhereConfigured

(* The last valid pair for a name is the configured one. *)
LEMMA LastPair ==
  ASSUME TypeInv, NEW n \in Names, NEW i \in ValidAt(n), \A j \in ValidAt(n) : j =< i
  PROVE  <<n, pairs[i][2]>> \in Configured
<1> DEFINE c == CHOOSE k \in ValidAt(n) : \A j \in ValidAt(n) : j =< k
<1>1. ValidAt(n) \subseteq Int
  BY LenProperties DEF ValidAt, TypeInv, LoadInv
<1>2. c \in ValidAt(n) /\ \A j \in ValidAt(n) : j =< c
  OBVIOUS
<1>3. c = i
  BY <1>1, <1>2
<1>4. \E k \in DOMAIN pairs : Valid(pairs[k])
  BY DEF ValidAt
<1>5. ValidAt(n) # {}
  OBVIOUS
<1> HIDE DEF c
<1>6. <<n, pairs[c][2]>> \in {<<m, pairs[CHOOSE k \in ValidAt(m) : \A j \in ValidAt(m) : j =< k][2]>> :
                                m \in {l \in Names : ValidAt(l) # {}}}
  BY <1>5 DEF c
<1> QED
  BY <1>3, <1>4, <1>6 DEF Configured

LEMMA InitChat == Init => ChatInv
<1> SUFFICES ASSUME Init PROVE ChatInv
  OBVIOUS
<1>1. /\ DOMAIN mappings = {} /\ ready = FALSE /\ next = 1 /\ chat.sent = NoName
      /\ DOMAIN pairs = 1..Len(pairs)
  BY InitType, LenProperties DEF Init, NoMapping, NoChat, TypeInv, LoadInv
<1>2. \A n : PassedAt(n) = {}
  BY <1>1 DEF PassedAt, ValidAt
<1> QED
  BY <1>1, <1>2 DEF ChatInv, MappingInv, ChatsGoWhereConfigured

LEMMA StepChat == TypeInv /\ ChatInv /\ [Next]_vars => ChatInv'
<1> SUFFICES ASSUME TypeInv, ChatInv, [Next]_vars PROVE ChatInv'
  OBVIOUS
<1> USE DEF loading
<1>0. pairs \in Seq(Pairs) /\ Len(pairs) \in Nat /\ next \in 1..(Len(pairs) + 1)
      /\ DOMAIN pairs = 1..Len(pairs)
  BY LenProperties DEF TypeInv, TypeOK, LoadInv
<1>1. pairs' = pairs
  BY DEF Next, ParsePair, FinishLoading, Miss, List, ListCached, Expire, Refuse, Chat, vars
<1>2. Configured' = Configured /\ \A n : ValidAt(n)' = ValidAt(n)
  BY <1>1 DEF Configured, ValidAt
<1>3. CASE ParsePair
  <2>1. /\ ~ready /\ ~ready' /\ next \in 1..Len(pairs) /\ next' = next + 1 /\ chat' = chat
        /\ pairs[next] \in Pairs
    BY <1>0, <1>3, ElementOfSeq DEF ParsePair
  <2>2. chat = NoChat
    BY <2>1 DEF TypeInv, LoadInv
  <2>3. \A n : PassedAt(n)' = IF next \in ValidAt(n) THEN PassedAt(n) \cup {next} ELSE PassedAt(n)
    <3> SUFFICES ASSUME NEW n
                 PROVE  PassedAt(n)' = IF next \in ValidAt(n) THEN PassedAt(n) \cup {next}
                                                              ELSE PassedAt(n)
      OBVIOUS
    <3>1. PassedAt(n)' = {i \in ValidAt(n) : i < next + 1}
      BY <1>2, <2>1 DEF PassedAt
    <3>2. ValidAt(n) \subseteq Int /\ next \in Int
      BY <1>0 DEF ValidAt
    <3> QED
      BY <3>1, <3>2 DEF PassedAt
  <2>4. \A n : \A j \in PassedAt(n) : j < next /\ j \in Int
    BY <1>0 DEF PassedAt, ValidAt
  <2>5. CASE Valid(pairs[next])
    <3> DEFINE name == pairs[next][1]
    <3>1. \A n : next \in ValidAt(n) <=> n = name
      BY <1>0, <2>1, <2>5 DEF ValidAt
    <3>2. /\ DOMAIN mappings' = DOMAIN mappings \cup {name}
          /\ mappings'[name] = pairs[next][2]
          /\ \A n \in DOMAIN mappings : n # name => mappings'[n] = mappings[n]
      BY <1>3, <2>5 DEF ParsePair, Add
    <3> HIDE DEF name
    <3>3. ASSUME NEW n \in DOMAIN mappings'
          PROVE  \E i \in PassedAt(n)' : pairs[i][2] = mappings'[n] /\ \A j \in PassedAt(n)' : j =< i
      <4>1. CASE n = name
        <5>1. next \in PassedAt(n)'
          BY <2>3, <3>1, <4>1
        <5>2. \A j \in PassedAt(n)' : j =< next
          BY <1>0, <2>3, <2>4, <3>1, <4>1
        <5> QED
          BY <3>2, <4>1, <5>1, <5>2
      <4>2. CASE n # name
        <5>1. n \in DOMAIN mappings /\ mappings'[n] = mappings[n] /\ PassedAt(n)' = PassedAt(n)
          BY <2>3, <3>1, <3>2, <3>3, <4>2
        <5> QED
          BY <2>1, <5>1 DEF ChatInv, MappingInv
      <4> QED
        BY <4>1, <4>2
    <3>4. \A n \in Names : PassedAt(n)' # {} => n \in DOMAIN mappings'
      BY <2>1, <2>3, <3>1, <3>2 DEF ChatInv, MappingInv
    <3> QED
      BY <1>1, <2>1, <2>2, <3>3, <3>4 DEF ChatInv, MappingInv, ChatsGoWhereConfigured, NoChat
  <2>6. CASE ~Valid(pairs[next])
    <3>1. \A n : PassedAt(n)' = PassedAt(n)
      BY <2>3, <2>6 DEF ValidAt
    <3>2. mappings' = mappings
      BY <1>3, <2>6 DEF ParsePair
    <3> QED
      BY <1>1, <2>1, <2>2, <3>1, <3>2 DEF ChatInv, MappingInv, ChatsGoWhereConfigured, NoChat
  <2> QED
    BY <2>5, <2>6
<1>4. CASE FinishLoading
  <2>1. /\ ~ready /\ ready' /\ next = Len(pairs) + 1 /\ chat' = chat
        /\ mappings' = IF DOMAIN mappings # {} THEN mappings ELSE Defaults
    BY <1>4 DEF FinishLoading
  <2>2. chat = NoChat
    BY <2>1 DEF TypeInv, LoadInv
  <2>3. \A n : PassedAt(n) = ValidAt(n)
    BY <1>0, <2>1 DEF PassedAt, ValidAt
  <2>4. \A n \in DOMAIN mappings : <<n, mappings[n]>> \in Configured
    <3>1. SUFFICES ASSUME NEW n \in DOMAIN mappings PROVE <<n, mappings[n]>> \in Configured
      OBVIOUS
    <3>2. n \in Names
      BY <3>1 DEF TypeInv, TypeOK
    <3>3. PICK i \in ValidAt(n) : pairs[i][2] = mappings[n] /\ \A j \in ValidAt(n) : j =< i
      BY <2>1, <2>3, <3>1 DEF ChatInv, MappingInv
    <3> QED
      BY <3>2, <3>3, LastPair
  <2>5. CASE DOMAIN mappings = {}
    <3>1. ASSUME NEW i \in DOMAIN pairs, Valid(pairs[i]) PROVE FALSE
      <4>1. pairs[i][1] \in Names
        BY <1>0, <3>1, ElementOfSeq, ValidPair
      <4>2. i \in ValidAt(pairs[i][1])
        BY <3>1 DEF ValidAt
      <4> QED
        BY <2>1, <2>3, <2>5, <4>1, <4>2 DEF ChatInv, MappingInv
    <3>2. Configured = {<<n, Defaults[n]>> : n \in DOMAIN Defaults}
      BY <3>1 DEF Configured
    <3> QED
      BY <1>2, <2>1, <2>2, <2>5, <3>2 DEF ChatInv, MappingInv, ChatsGoWhereConfigured, NoChat
  <2>6. CASE DOMAIN mappings # {}
    BY <1>2, <2>1, <2>2, <2>4, <2>6 DEF ChatInv, MappingInv, ChatsGoWhereConfigured, NoChat
  <2> QED
    BY <2>5, <2>6
<1>5. ASSUME NEW name \in Names, NEW kind \in Kinds, Chat(name, kind) PROVE ChatInv'
  <2>1. /\ ready /\ ready' /\ mappings' = mappings /\ name \in DOMAIN mappings
        /\ chat'.asked = name /\ chat'.sent = Internal(name)
    BY <1>5 DEF Chat
  <2>2. <<name, Internal(name)>> \in Configured
    BY <2>1 DEF Internal, ChatInv, MappingInv
  <2> QED
    BY <1>2, <2>1, <2>2 DEF ChatInv, MappingInv, ChatsGoWhereConfigured
<1>6. ASSUME NEW name \in Names, Refuse(name) PROVE ChatInv'
  BY <1>2, <1>6 DEF Refuse, NoChat, ChatInv, MappingInv, ChatsGoWhereConfigured
<1>7. CASE Miss \/ List \/ ListCached \/ Expire \/ UNCHANGED vars
  <2>1. UNCHANGED <<pairs, next, mappings, ready, chat>>
    BY <1>7 DEF Miss, List, ListCached, Expire, vars
  <2>2. \A n : PassedAt(n)' = PassedAt(n)
    BY <1>2, <2>1 DEF PassedAt
  <2> QED
    BY <1>2, <2>1, <2>2 DEF ChatInv, MappingInv, ChatsGoWhereConfigured
<1> QED
  BY <1>3, <1>4, <1>5, <1>6, <1>7 DEF Next

(* The model a chat goes to is that of the last valid pair for the name, or the     *)
(* hard-coded one if no pair is valid, for every MODEL_MAPPINGS and mapping           *)
(* (config.go:255-287, validator.go:17-25).                                     *)
THEOREM Configuring == Spec => []ChatsGoWhereConfigured
<1>1. ChatInv => ChatsGoWhereConfigured
  BY DEF ChatInv
<1> QED
  BY <1>1, InitType, StepType, InitChat, StepChat, PTL DEF Spec
-----------------------------------------------------------------------------
(* A list a client can use: its names can be asked for, and every model is reached *)
(* by exactly one of them.                                                   *)
Usable(list) ==
  /\ \A n \in list : n \in DOMAIN mappings
  /\ \A m \in Models : Cardinality({n \in list : Internal(n) = m}) = 1

OfferInv ==
  /\ listed # {} => Usable(listed)
  /\ cached # {} => Usable(cached)

LEMMA ChosenIsUsable ==
  ASSUME TypeInv, NEW choice \in [Models -> Names],
         \A m \in Models : choice[m] \in ExternalNames(m)
  PROVE  Usable({choice[m] : m \in Models})
<1> DEFINE list == {choice[m] : m \in Models}
<1>1. \A m \in Models : choice[m] \in DOMAIN mappings /\ mappings[choice[m]] = m
  BY DEF Models, ExternalNames, Aliases
<1>2. ASSUME NEW m \in Models PROVE Cardinality({n \in list : Internal(n) = m}) = 1
  <2>1. {n \in list : Internal(n) = m} = {choice[m]}
    BY <1>1 DEF Internal
  <2> QED
    BY <2>1, FS_Singleton
<1> QED
  BY <1>1, <1>2 DEF Usable

LEMMA StepOffer == TypeInv /\ OfferInv /\ [Next]_vars => OfferInv'
<1> SUFFICES ASSUME TypeInv, OfferInv, [Next]_vars PROVE OfferInv'
  OBVIOUS
<1> USE DEF loading, OfferInv
<1>1. CASE ParsePair \/ FinishLoading
  BY <1>1 DEF ParsePair, FinishLoading, TypeInv, LoadInv
<1>2. ASSUME mappings' = mappings, NEW list, Usable(list)
      PROVE  /\ listed' = list => Usable(listed)'
             /\ cached' = list => Usable(cached)'
  <2>1. Models' = Models /\ DOMAIN mappings' = DOMAIN mappings
    BY <1>2 DEF Models
  <2>2. \A m : {n \in list : Internal(n)' = m} = {n \in list : Internal(n) = m}
    BY <1>2 DEF Internal
  <2>3. \A m \in Models' : Cardinality({n \in list : Internal(n)' = m}) = 1
    BY <1>2, <2>1, <2>2 DEF Usable
  <2> QED
    BY <1>2, <2>1, <2>3 DEF Usable
<1>3. ASSUME UNCHANGED mappings, listed' \in {listed, cached}, cached' \in {cached, {}}
      PROVE  OfferInv'
  BY <1>2, <1>3
<1>4. CASE List
  <2>1. PICK choice \in [Models -> Names] :
          /\ \A m \in Models : choice[m] \in ExternalNames(m)
          /\ listed' = {choice[m] : m \in Models}
          /\ cached' = IF CacheOn THEN listed' ELSE cached
    BY <1>4 DEF List
  <2>2. mappings' = mappings
    BY <1>4 DEF List
  <2> DEFINE list == {choice[m] : m \in Models}
  <2>3. Usable(list)
    BY <2>1, ChosenIsUsable
  <2>4. listed' = list /\ cached' \in {list, cached}
    BY <2>1
  <2> HIDE DEF list
  <2> QED
    BY <1>2, <2>2, <2>3, <2>4
<1>5. CASE Miss \/ ListCached \/ Expire \/ UNCHANGED vars
  BY <1>3, <1>5 DEF Miss, ListCached, Expire, vars
<1>6. ASSUME NEW name \in Names, Refuse(name) \/ \E kind \in Kinds : Chat(name, kind)
      PROVE  OfferInv'
  BY <1>3, <1>6 DEF Refuse, Chat
<1> QED
  BY <1>1, <1>4, <1>5, <1>6 DEF Next

(* Every name /v1/models lists can be asked for, and every internal model is reached *)
(* by exactly one of them, whichever names the map iteration finds and whichever      *)
(* handler's list the cache holds (model.go:14-59).                               *)
THEOREM Offering == Spec => []OfferedIsUsable
<1>1. Init => OfferInv
  BY DEF Init, OfferInv
<1>2. OfferInv => OfferedIsUsable
  BY DEF OfferInv, OfferedIsUsable, Usable
<1> QED
  BY <1>1, <1>2, InitType, StepType, StepOffer, PTL DEF Spec

(* What the lookups may find for a known name: names that can be asked for, and   *)
(* that lead back to it.                                                     *)
LEMMA ReplyNamesLead ==
  ASSUME TypeOK, NEW name \in DOMAIN mappings, NEW kind \in Kinds,
         NEW named \in ReplyNames(name, kind)
  PROVE  /\ named \in DOMAIN mappings
         /\ \/ named = name
            \/ /\ kind \in {"whole", "panic"} /\ Internal(named) = name
               /\ kind = "whole" => name \notin DOMAIN Defaults
            \/ kind = "panic" /\ Internal(Internal(named)) = name
<1>1. ASSUME NEW asked \in DOMAIN mappings, NEW found \in ExternalNames(asked)
      PROVE  found \in DOMAIN mappings /\ (found = asked \/ Internal(found) = asked)
  BY <1>1 DEF ExternalNames, Aliases, Internal
<1>2. CASE kind = "whole"
  BY <1>1, <1>2 DEF ReplyNames, WholeNames
<1>3. CASE kind = "frame"
  BY <1>3 DEF ReplyNames
<1>4. CASE kind = "panic"
  <2>1. PICK hop \in ExternalNames(name) : named \in ExternalNames(hop)
    BY <1>4 DEF ReplyNames, PanicNames
  <2>2. hop \in DOMAIN mappings /\ (hop = name \/ Internal(hop) = name)
    BY <1>1, <2>1
  <2>3. named \in DOMAIN mappings /\ (named = hop \/ Internal(named) = hop)
    BY <1>1, <2>1, <2>2
  <2> QED
    BY <1>4, <2>2, <2>3
<1> QED
  BY <1>2, <1>3, <1>4 DEF Kinds

(* Every name a client reads in a reply, the report of a panic included, leads     *)
(* back to the one it asked for (chat.go:270-281, stream.go:196, 213, 522).       *)
THEOREM Naming == Spec => []ReplyLeadsBack
<1>1. Init => ReplyLeadsBack
  BY DEF Init, ReplyLeadsBack, NoChat
<1>2. TypeInv /\ ReplyLeadsBack /\ [Next]_vars => ReplyLeadsBack'
  <2> SUFFICES ASSUME TypeInv, ReplyLeadsBack, [Next]_vars PROVE ReplyLeadsBack'
    OBVIOUS
  <2> USE DEF loading
  <2>1. CASE ParsePair \/ FinishLoading
    BY <2>1 DEF ParsePair, FinishLoading, TypeInv, LoadInv, ReplyLeadsBack, NoChat
  <2>2. CASE Miss \/ List \/ ListCached \/ Expire \/ UNCHANGED vars
    BY <2>2 DEF Miss, List, ListCached, Expire, vars, ReplyLeadsBack, Internal
  <2>3. ASSUME NEW name \in Names, Refuse(name) PROVE ReplyLeadsBack'
    BY <2>3 DEF Refuse, NoChat, ReplyLeadsBack
  <2>4. ASSUME NEW name \in Names, NEW kind \in Kinds, Chat(name, kind)
        PROVE  ReplyLeadsBack'
    <3>1. PICK named \in ReplyNames(name, kind) :
            chat' = [kind |-> kind, asked |-> name, sent |-> Internal(name), named |-> named]
      BY <2>4 DEF Chat
    <3>2. /\ mappings' = mappings /\ name \in DOMAIN mappings
          /\ chat'.kind = kind /\ chat'.asked = name /\ chat'.named = named
      BY <2>4, <3>1 DEF Chat
    <3>3. \A n : Internal(n)' = Internal(n)
      BY <3>2 DEF Internal
    <3>4. /\ named \in DOMAIN mappings
          /\ \/ named = name
             \/ /\ kind \in {"whole", "panic"} /\ Internal(named) = name
                /\ kind = "whole" => name \notin DOMAIN Defaults
             \/ kind = "panic" /\ Internal(Internal(named)) = name
      BY <3>1, <3>2, ReplyNamesLead DEF TypeInv
    <3> QED
      BY <3>2, <3>3, <3>4 DEF ReplyLeadsBack
  <2> QED
    BY <2>1, <2>2, <2>3, <2>4 DEF Next
<1> QED
  BY <1>1, <1>2, InitType, StepType, PTL DEF Spec
=============================================================================
