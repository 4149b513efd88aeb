----------------------------- MODULE Listeners -----------------------------
(***************************************************************************)
(* src/event.c: the listeners of a client handle and how a message is      *)
(* dispatched to them, on one thread.  A callback may add and remove       *)
(* listeners, and may dispatch again before it returns: the reply of a     *)
(* cometd_publish in a callback is dispatched inside that call.            *)
(*                                                                         *)
(* A subscription is its address, which malloc may hand out again after it *)
(* was freed.                                                              *)
(***************************************************************************)
EXTENDS Channel, FiniteSets

CONSTANTS
  Addresses,   \* of subscriptions
  Channels,    \* the channels of messages
  Patterns,    \* the channels of subscriptions
  MaxAdds,     \* how many listeners are added in all
  MaxDepth     \* how deep dispatches nest

(* cometd_listener_add refuses the empty channel.                          *)
ASSUME ListenersAssumption ==
  /\ Channels \subseteq Seq(STRING) /\ Patterns \subseteq Seq(STRING)
  /\ <<>> \notin Patterns
  /\ MaxAdds \in Nat /\ MaxDepth \in Nat

NULL == <<>>

VARIABLES
  listeners,   \* the hash table: the subscriptions of each channel
  channelOf,   \* the channel of a subscription, NULL when it is free memory
  born,        \* the number of adds when a subscription was made
  adds,        \* listeners added so far
  calls        \* the cometd_listener_fire calls under way, the innermost last:
               \* the list each iterates over and how far it has come

vars == <<listeners, channelOf, born, adds, calls>>

Init ==
  /\ listeners = [p \in Patterns |-> <<>>]
  /\ channelOf = [s \in Addresses |-> NULL]
  /\ born = [s \in Addresses |-> 0]
  /\ adds = 0
  /\ calls = <<>>

Lookup(p) == IF p \in Patterns THEN listeners[p] ELSE <<>>

ListenerCount(p) == Len(Lookup(p))

(* cometd_listener_get: the lists of all the channels to look under.       *)
ListenerGet(channel) ==
  LET channels == ChannelMatches(channel)
      found[i \in 0..Len(channels)] ==
        IF i = 0 THEN <<>> ELSE found[i - 1] \o Lookup(channels[i])
  IN  found[Len(channels)]

(* Mutant: as the comments say, the list is prepended to.                  *)
ListenerAdd_Prepend(s, p) ==
  /\ adds < MaxAdds
  /\ channelOf[s] = NULL
  /\ channelOf' = [channelOf EXCEPT ![s] = p]
  /\ listeners' = [listeners EXCEPT ![p] = <<s>> \o @]
  /\ adds' = adds + 1
  /\ born' = [born EXCEPT ![s] = adds + 1]
  /\ UNCHANGED calls

ListenerAdd(s, p) ==
  /\ adds < MaxAdds
  /\ channelOf[s] = NULL
  /\ channelOf' = [channelOf EXCEPT ![s] = p]
  /\ listeners' = [listeners EXCEPT ![p] = Append(@, s)]
  /\ adds' = adds + 1
  /\ born' = [born EXCEPT ![s] = adds + 1]
  /\ UNCHANGED calls

(* Mutant: the table keeps the subscription that is freed.                 *)
ListenerRemove_NoUpdate(s) ==
  /\ channelOf[s] # NULL
  /\ channelOf' = [channelOf EXCEPT ![s] = NULL]
  /\ UNCHANGED <<listeners, born, adds, calls>>

ListenerRemove(s) ==
  /\ channelOf[s] # NULL
  /\ listeners' = [listeners EXCEPT ![channelOf[s]] = RemoveFirst(@, s)]
  /\ channelOf' = [channelOf EXCEPT ![s] = NULL]
  /\ UNCHANGED <<born, adds, calls>>

(* cometd_listener_fire, up to its first callback                          *)
Fire(channel) ==
  /\ Len(calls) < MaxDepth
  /\ ~IsWildcard(channel)
  /\ LET list == ListenerGet(channel)
     IN  calls' = IF list = <<>> THEN calls
                  ELSE Append(calls, [list |-> list, item |-> 1])
  /\ UNCHANGED <<listeners, channelOf, born, adds>>

(* Mutant: the list ends one item too late.                                *)
CallbackReturns_OffByOne(success) ==
  /\ calls # <<>>
  /\ LET call == Last(calls)
     IN  calls' = IF success /\ call.item <= Len(call.list)
                  THEN Front(calls) \o <<[call EXCEPT !.item = @ + 1]>>
                  ELSE Front(calls)
  /\ UNCHANGED <<listeners, channelOf, born, adds>>

(* The innermost callback returns: on to the next one, unless it failed or *)
(* was the last.                                                           *)
CallbackReturns(success) ==
  /\ calls # <<>>
  /\ LET call == Last(calls)
     IN  calls' = IF success /\ call.item < Len(call.list)
                  THEN Front(calls) \o <<[call EXCEPT !.item = @ + 1]>>
                  ELSE Front(calls)
  /\ UNCHANGED <<listeners, channelOf, born, adds>>

Next ==
  \/ \E s \in Addresses, p \in Patterns : ListenerAdd(s, p)
  \/ \E s \in Addresses : ListenerRemove(s)
  \/ \E c \in Channels : Fire(c)
  \/ \E success \in BOOLEAN : CallbackReturns(success)

Spec == Init /\ [][Next]_vars

-----------------------------------------------------------------------------
(* Properties *)

(* Every variable has its type.                                            *)
TypeOK ==
  /\ listeners \in [Patterns -> Seq(Addresses)]
  /\ channelOf \in [Addresses -> Patterns \cup {NULL}]
  /\ born \in [Addresses -> 0..MaxAdds]
  /\ adds \in 0..MaxAdds
  /\ Len(calls) <= MaxDepth
  /\ \A i \in 1..Len(calls) :
       /\ calls[i].list \in Seq(Addresses)
       /\ calls[i].item \in 1..Len(calls[i].list)

(* The table and the subscriptions agree, whatever was added and removed   *)
(* in whatever order: a subscription is found under its own channel, once, *)
(* and nowhere else, and nothing freed is found.                           *)
TableIsConsistent ==
  \A p \in Patterns :
    /\ IsInjective(listeners[p])
    /\ \A s \in Addresses : Contains(listeners[p], s) <=> channelOf[s] = p

(* A dispatch sets out to call exactly the listeners whose subscription    *)
(* selects the channel, each of them once, the most specific first and     *)
(* those of one channel in the order in which they were added.             *)
FiresTheSelected(channel, list) ==
  /\ ToSet(list) = {s \in Addresses : channelOf[s] # NULL /\ Selects(channelOf[s], channel)}
  /\ \A i, j \in 1..Len(list) :
       i < j => LET d(k) == Distance(channelOf[list[k]], channel)
                IN  \/ d(i) < d(j)
                    \/ d(i) = d(j) /\ born[list[i]] < born[list[j]]

DispatchesAsSubscribed ==
  \A c \in Channels :
    Len(c) <= MaxParts /\ ~IsWildcard(c) => FiresTheSelected(c, ListenerGet(c))

=============================================================================
