------------------------------ MODULE Channel ------------------------------
(***************************************************************************)
(* src/channel.c: the channels on which a listener has to be registered to *)
(* receive a message.  A channel is the sequence of its parts, split at    *)
(* "/": "/foo/bar" is <<"", "foo", "bar">>.                                *)
(***************************************************************************)
EXTENDS Integers, Sequences, SequencesExt

CONSTANT MaxParts    \* COMETD_MAX_CHANNEL_PARTS

ASSUME MaxPartsAssumption == MaxParts \in Nat

Star     == "*"
StarStar == "**"

(* No part of a channel in the model ends in * but the wildcards.          *)
IsWildcard(channel) == channel # <<>> /\ Last(channel) \in {Star, StarStar}

(* The candidates, built front to back from the part list and each put at  *)
(* the head: a double wildcard after every part but the last, a single one *)
(* after the last but one, and the channel itself.                         *)
ChannelMatches(channel) ==
  LET n == Len(channel)
      Wild(i, w) == Append(SubSeq(channel, 1, i), w)
      AddAt(channels, i) ==
        LET widened == <<IF i < n THEN Wild(i, StarStar) ELSE channel>> \o channels
        IN  IF i = n - 1 THEN <<Wild(i, Star)>> \o widened ELSE widened
      built[i \in 0..n] == IF i = 0 THEN <<>> ELSE AddAt(built[i - 1], i)
  IN  IF n > MaxParts THEN <<>> ELSE built[n]

-----------------------------------------------------------------------------
(* What a subscription means, independently of the above.                  *)

(* pattern selects channel: it is the channel, or its wildcard stands for  *)
(* one more part, or for one or more.  A channel begins with a "/", so that*)
(* a wildcard is never its first part.                                     *)
Selects(pattern, channel) ==
  \/ pattern = channel
  \/ /\ Last(pattern) = Star
     /\ Len(pattern) > 1 /\ Len(pattern) = Len(channel)
     /\ IsPrefix(Front(pattern), channel)
  \/ /\ Last(pattern) = StarStar
     /\ Len(pattern) > 1 /\ Len(pattern) <= Len(channel)
     /\ IsPrefix(Front(pattern), channel)

(* 0 for the channel itself, 1 for *, then ** from the longest on.         *)
Distance(pattern, channel) ==
  IF pattern = channel THEN 0
  ELSE IF Last(pattern) = Star THEN 1
  ELSE 2 + Len(channel) - Len(pattern)

=============================================================================
