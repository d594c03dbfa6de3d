--------------------------- MODULE LayoutInference ---------------------------
(***************************************************************************)
(* How core/ChannelCapture finds out where the engine's channel_t has its  *)
(* fields: addresses of fields, seen by the mixer or reported by the       *)
(* engine, are compared with the channels bound to slots, and offsets that *)
(* collect enough votes are taken for good.  Channels lie side by side, so *)
(* that an address is as well an offset from any channel in front of it.   *)
(***************************************************************************)
EXTENDS Integers, Sequences, FiniteSets

CONSTANTS
  ArrayPositions, \* positions of channels in the engine's array
  Stride,         \* sizeof(channel_t)
  Offset,         \* true offset of each field
  MinVotes,       \* votes an inference needs
  AnchorCapacity, \* capacity of m_fvolumeAnchors
  MaxVotes        \* bound on the votes for a field

Fields == {"origin", "fvolume"}
Unknown == -1

ASSUME LayoutAssumption ==
  /\ ArrayPositions \subseteq Nat /\ Stride \in Nat \ {0} /\ Offset \in [Fields -> 0 .. Stride - 1]
  /\ MinVotes \in Nat \ {0} /\ AnchorCapacity \in Nat

VARIABLES
  boundChannels,  \* positions of the channels bound to slots
  anchors,        \* m_fvolumeAnchors
  votes,          \* votes for each offset of each field
  strideVotes,    \* votes for each stride
  layout,         \* m_layout
  stride,         \* m_layout.stride
  sized           \* history: fields inferred while the stride was known

layoutVars == <<boundChannels, anchors, votes, strideVotes, layout, stride, sized>>

\* Offsets of kMaxOffset and above are not counted.
Offsets == 0 .. 2 * Stride - 1
Strides == {Stride * k : k \in 1 .. 2}
Address(field, p) == p * Stride + Offset[field]

LayoutInit ==
  /\ boundChannels = {} /\ anchors = <<>>
  /\ votes = [f \in Fields |-> [o \in Offsets |-> 0]] /\ strideVotes = [s \in Strides |-> 0]
  /\ layout = [f \in Fields |-> Unknown] /\ stride = Unknown /\ sized = {}

-----------------------------------------------------------------------------

Sum(v) == LET sum[S \in SUBSET DOMAIN v] == IF S = {} THEN 0
                                            ELSE LET x == CHOOSE x \in S : TRUE IN v[x] + sum[S \ {x}]
          IN sum[DOMAIN v]

\* Of all candidates with most of the votes the smallest wins: the others are
\* the same field seen from channels further in front.
Winner(v, minVotes, share) ==
  LET strong == {o \in DOMAIN v : v[o] > 0 /\ \A p \in DOMAIN v : 10 * v[o] >= share * v[p]}
  IN IF Sum(v) < minVotes \/ strong = {} THEN Unknown ELSE CHOOSE o \in strong : \A p \in strong : o <= p

\* An address votes for its distance from every bound channel in front of it.
Voted(v, address) ==
  [o \in Offsets |-> v[o] + Cardinality({p \in boundChannels : address - p * Stride = o})]

\* The mixer binds and releases channels.
Rebind(p) ==
  /\ boundChannels' = IF p \in boundChannels THEN boundChannels \ {p} ELSE boundChannels \union {p}
  /\ UNCHANGED <<anchors, votes, strideVotes, layout, stride, sized>>

\* The mixer spatializes a channel, bound or not; a full queue loses the address.
OnSpatialize(p) ==
  /\ layout["fvolume"] = Unknown /\ Len(anchors) < AnchorCapacity
  /\ anchors' = Append(anchors, Address("fvolume", p))
  /\ UNCHANGED <<boundChannels, votes, strideVotes, layout, stride, sized>>

\* The engine reports where the origin of an active sound lies.
VoteOriginAnchor(p) ==
  /\ layout["origin"] = Unknown /\ Sum(votes["origin"]) < MaxVotes
  /\ votes' = [votes EXCEPT !["origin"] = Voted(@, Address("origin", p))]
  /\ UNCHANGED <<boundChannels, anchors, strideVotes, layout, stride, sized>>

\* Greatest common divisor of the distances between bound channels.
CommonStride ==
  LET ds == {Stride * (p - q) : p, q \in boundChannels} \ {0}
  IN CHOOSE s \in 1 .. Stride * 8 : /\ \A d \in ds : d % s = 0
                                    /\ \A t \in s + 1 .. Stride * 8 : \E d \in ds : d % t # 0

\* Mutant: an offset need not lie within the channel.
AnyOffset(w, size) == w # Unknown
WithinChannel(w, size) == w # Unknown /\ (size = Unknown \/ w < size)

RunLayoutInference ==
  LET sv == IF stride = Unknown /\ Cardinality(boundChannels) >= 2 /\ CommonStride \in Strides
            THEN [strideVotes EXCEPT ![CommonStride] = @ + 1] ELSE strideVotes
      size == IF stride = Unknown /\ Cardinality(boundChannels) >= 2 THEN Winner(sv, MinVotes, 9) ELSE stride
      fold[k \in 0 .. Len(anchors)] == IF k = 0 THEN votes["fvolume"] ELSE Voted(fold[k - 1], anchors[k])
      fv == [votes EXCEPT !["fvolume"] = IF layout["fvolume"] = Unknown THEN fold[Len(anchors)] ELSE @]
      found == {f \in Fields : layout[f] = Unknown /\ WithinChannel(Winner(fv[f], MinVotes, 8), size)}
  IN /\ Sum(sv) <= MaxVotes /\ Sum(fv["fvolume"]) <= MaxVotes
     /\ anchors' = <<>> /\ votes' = fv /\ strideVotes' = sv /\ stride' = size
     /\ layout' = [f \in Fields |-> IF f \in found THEN Winner(fv[f], MinVotes, 8) ELSE layout[f]]
     /\ sized' = IF size = Stride THEN sized \union found ELSE sized
     /\ UNCHANGED boundChannels

LayoutNext ==
  RunLayoutInference \/ \E p \in ArrayPositions : Rebind(p) \/ OnSpatialize(p) \/ VoteOriginAnchor(p)

LayoutSpec == LayoutInit /\ [][LayoutNext]_layoutVars

-----------------------------------------------------------------------------

\* A stride that was found is one or several channels long, and an offset found
\* while the size of a channel was known is the field's, although addresses
\* arrive late and may be of channels that are not bound.
OffsetsAreTrue ==
  /\ stride # Unknown => stride % Stride = 0
  /\ \A f \in sized : layout[f] = Offset[f]
=============================================================================
