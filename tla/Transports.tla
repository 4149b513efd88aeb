----------------------------- MODULE Transports -----------------------------
(***************************************************************************)
(* The transports of a client handle: the registry that applications add   *)
(* to and take from (src/cometd.c), what a handshake offers of it, and the *)
(* negotiation over the server's answer (src/transport.c), which leaves a  *)
(* pointer into the registry in the connection.                            *)
(*                                                                         *)
(* A transport is its address, which may be used again once it is freed.   *)
(***************************************************************************)
EXTENDS Integers, Sequences, FiniteSets, SequencesExt

CONSTANTS
  Addresses,      \* of registered transports
  Names,          \* of the transports that applications register
  Builtin,        \* the one that every handle has: "long-polling"
  ServerTypes,    \* the connection types a server may list ...
  MaxTypes,       \* ... and how many it lists
  MaxRegistered   \* how many transports are registered in all

ASSUME TransportsAssumption ==
  /\ IsFiniteSet(Addresses)
  /\ Builtin \in Names
  /\ Names \subseteq STRING \ {"NULL"} /\ "NULL" \notin Addresses
  /\ "NULL" \notin ServerTypes
  /\ MaxTypes \in Nat
  /\ MaxRegistered \in Nat \ {0}

NULL    == "NULL"
NoOffer == <<NULL>>

VARIABLES
  registry,     \* config->transports
  nameOf,       \* the name of a transport, NULL when it is free memory
  registered,   \* transports registered so far
  born,         \* the number of a transport among them
  current,      \* conn->transport
  offer         \* the connection types of a handshake under way, or NoOffer

(* For the properties only: how often each name was unregistered since the *)
(* offer.                                                                  *)
VARIABLE gone

vars == <<registry, nameOf, registered, born, current, offer, gone>>

NoneGone == [name \in Names |-> 0]

(* cometd_new registers the long-polling transport.                        *)
Init ==
  \E a \in Addresses :
    /\ registry = <<a>>
    /\ nameOf = [b \in Addresses |-> IF b = a THEN Builtin ELSE NULL]
    /\ registered = 1
    /\ born = [b \in Addresses |-> IF b = a THEN 1 ELSE 0]
    /\ current = NULL
    /\ offer = NoOffer
    /\ gone = NoneGone

Named(name) == {i \in 1..Len(registry) : nameOf[registry[i]] = name}

(* The first transport of that name, or NULL.                              *)
FindTransport(name) ==
  IF Named(name) = {} THEN NULL ELSE registry[Min(Named(name))]

-----------------------------------------------------------------------------

(* Mutant: the rest of the list is lost.                                   *)
RegisterTransport_Loses(a, name) ==
  /\ registered < MaxRegistered
  /\ nameOf[a] = NULL
  /\ registry' = <<a>>
  /\ nameOf' = [nameOf EXCEPT ![a] = name]
  /\ registered' = registered + 1
  /\ born' = [born EXCEPT ![a] = registered']
  /\ UNCHANGED <<current, offer, gone>>

RegisterTransport(a, name) ==
  /\ registered < MaxRegistered
  /\ nameOf[a] = NULL
  /\ registry' = <<a>> \o registry
  /\ nameOf' = [nameOf EXCEPT ![a] = name]
  /\ registered' = registered + 1
  /\ born' = [born EXCEPT ![a] = registered']
  /\ UNCHANGED <<current, offer, gone>>

Counted(name) ==
  gone' = IF offer = NoOffer THEN gone ELSE [gone EXCEPT ![name] = @ + 1]

(* Mutant: the oldest transport of the name goes.                          *)
UnregisterTransport_Oldest(name) ==
  LET t == registry[Max(Named(name))]
  IN  /\ Named(name) # {}
      /\ registry' = RemoveFirst(registry, t)
      /\ nameOf' = [nameOf EXCEPT ![t] = NULL]
      /\ Counted(name)
      /\ UNCHANGED <<registered, born, current, offer>>

(* The first of the name goes, whoever uses it: conn->transport may be     *)
(* left pointing to it.                                                    *)
UnregisterTransport(name) ==
  LET t == FindTransport(name)
  IN  /\ t # NULL
      /\ registry' = RemoveFirst(registry, t)
      /\ nameOf' = [nameOf EXCEPT ![t] = NULL]
      /\ Counted(name)
      /\ UNCHANGED <<registered, born, current, offer>>

(* cometd_new_handshake_message lists the names in the registry.           *)
OfferTransports ==
  /\ offer = NoOffer
  /\ offer' = [i \in 1..Len(registry) |-> nameOf[registry[i]]]
  /\ gone' = NoneGone
  /\ UNCHANGED <<registry, nameOf, registered, born, current>>

(* Mutant: a type of the server that is not supported undoes the match     *)
(* with an earlier one.                                                    *)
Negotiate_Forgets(types) ==
  LET found[n \in 0..Len(types)] ==
        IF n = 0 THEN NULL ELSE FindTransport(types[n])
  IN  found[Len(types)]

(* cometd_transport_negotiate: a match ends the search of the registry,    *)
(* not the walk along the server's types.                                  *)
Negotiate(types) ==
  LET found[n \in 0..Len(types)] ==
        IF n = 0 THEN NULL
        ELSE IF FindTransport(types[n]) # NULL THEN FindTransport(types[n])
        ELSE found[n - 1]
  IN  found[Len(types)]

(* The reply, which may also be none, or list no types: then the transport *)
(* of an earlier handshake stays.                                          *)
ProcessHandshake(types) ==
  /\ offer # NoOffer
  /\ offer' = NoOffer
  /\ gone' = NoneGone
  /\ current' = IF Negotiate(types) # NULL THEN Negotiate(types) ELSE current
  /\ UNCHANGED <<registry, nameOf, registered, born>>

Replies == SeqOf(ServerTypes, MaxTypes)

Next ==
  \/ \E a \in Addresses, name \in Names : RegisterTransport(a, name)
  \/ \E name \in Names : UnregisterTransport(name)
  \/ OfferTransports
  \/ \E types \in Replies : ProcessHandshake(types)

Spec == Init /\ [][Next]_vars

-----------------------------------------------------------------------------
(* Properties *)

(* Every variable has its type; conn->transport is an address that held a  *)
(* transport once.                                                         *)
TypeOK ==
  /\ registry \in Seq(Addresses)
  /\ nameOf \in [Addresses -> Names \cup {NULL}]
  /\ registered \in 1..MaxRegistered
  /\ born \in [Addresses -> 0..registered]
  /\ current \in Addresses \cup {NULL}
  /\ offer \in Seq(Names) \cup {NoOffer}
  /\ gone \in [Names -> Nat]

(* The registry holds every transport that is not freed, once, the newest  *)
(* first: a name finds the latest of those registered under it, and its    *)
(* removal uncovers the one before.                                        *)
NewestFirst ==
  /\ \A a \in Addresses : nameOf[a] # NULL <=> \E i \in 1..Len(registry) : registry[i] = a
  /\ \A i, j \in 1..Len(registry) : i < j => born[registry[i]] > born[registry[j]]

(* A transport is freed only when it is the newest of its name, and alone: *)
(* the one that conn->transport points to survives every unregistering     *)
(* while a newer one of its name is registered, also one registered in the *)
(* course of a handshake. Nothing else protects it.                        *)
OnlyTheNewestIsFreed ==
  [][\A a \in Addresses :
       nameOf[a] # NULL /\ nameOf'[a] # nameOf[a] =>
         /\ nameOf'[a] = NULL
         /\ \A b \in Addresses \ {a} :
              /\ nameOf'[b] = nameOf[b]
              /\ nameOf[b] = nameOf[a] => born[b] < born[a]]_vars

(* cometd_transport_negotiate finds a transport exactly when the server    *)
(* lists a type that is registered: the newest of the last such type.      *)
NegotiatesTheLastCommonType ==
  \A types \in Replies :
    LET common == {i \in 1..Len(types) :
                     \E a \in Addresses : nameOf[a] = types[i]}
        t == Negotiate(types)
    IN  /\ t = NULL <=> common = {}
        /\ common # {} =>
             /\ nameOf[t] = types[Max(common)]
             /\ \A a \in Addresses : nameOf[a] = nameOf[t] => born[a] <= born[t]

(* Whatever type the server picks from an offer, the answer is understood, *)
(* whatever was registered since and although others were unregistered: a  *)
(* name that was offered more often than it was unregistered since still   *)
(* has a transport.                                                        *)
OfferedAs(name) == {i \in 1..Len(offer) : offer[i] = name}

OfferIsKept ==
  offer # NoOffer =>
    \A name \in Names :
      Cardinality(OfferedAs(name)) > gone[name] =>
        LET t == Negotiate(<<name>>)
        IN  t # NULL /\ nameOf[t] = name

=============================================================================
