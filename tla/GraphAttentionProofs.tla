------------------------ MODULE GraphAttentionProofs ------------------------
(***************************************************************************)
(* Proofs about GraphAttention, for any numbers of chunks, RoPE chunks,    *)
(* ranges and splits, and any number of calls.                             *)
(*                                                                         *)
(* The invariant says for every place of the main thread where the worker  *)
(* may stand with the request of this step and which one copy may be under *)
(* way (Handshake), and what the requests before it have left on the       *)
(* second GPU and in the target (Staging, Written).  That those suffice    *)
(* for what is asked next is a fact about the script (ScriptShape).        *)
(***************************************************************************)
EXTENDS GraphAttention, Integers, SequenceTheorems, TLAPS

Routes == [sol : BOOLEAN, rope : BOOLEAN]
Late == {"audio", "stream", "range"}
Drops == {"qkv", "release"}
Asks ==
  {Plain(op) : op \in {"adopt", "allocate", "qkv", "release", "audio", "stream"}}
    \cup {Put(name) : name \in Weights}
    \cup {CopyInput(i) : i \in 1..Chunks} \cup {CopyRope(i) : i \in 1..RopeChunks}
    \cup {ProjectChunk(i) : i \in 1..Chunks} \cup {ComputeRange(i) : i \in 1..Ranges}

-----------------------------------------------------------------------------
(* The script.                                                             *)

Has(s, q) == \E k \in 1..Len(s) : s[k] = q
Only(s, ops) == \A k \in 1..Len(s) : s[k].op \in ops
AdoptFirst(s) == \A k \in 1..Len(s) : s[k].op = "adopt" => k = 1

\* What a concatenation has: all that its parts have, in their order.
LEMMA Joined ==
  ASSUME NEW s \in Seq(Asks), NEW t \in Seq(Asks)
  PROVE  /\ s \o t \in Seq(Asks) /\ Len(s) \in Nat /\ Len(t) \in Nat
         /\ Len(s \o t) = Len(s) + Len(t)
         /\ \A k \in 1..Len(s) : (s \o t)[k] = s[k]
         /\ \A k \in 1..Len(t) : (s \o t)[Len(s) + k] = t[k]
         /\ \A k \in 1..Len(s \o t) :
              k \in 1..Len(s) \/ \E j \in 1..Len(t) : k = Len(s) + j /\ (s \o t)[k] = t[j]
<1> DEFINE u == s \o t
<1>1. /\ u \in Seq(Asks) /\ Len(s) \in Nat /\ Len(t) \in Nat /\ Len(u) = Len(s) + Len(t)
      /\ \A i \in 1..(Len(s) + Len(t)) : u[i] = IF i <= Len(s) THEN s[i] ELSE t[i - Len(s)]
  BY ConcatProperties, LenProperties
<1> HIDE DEF u
<1>2. \A k \in 1..Len(s) : u[k] = s[k]
  BY <1>1
<1>3. ASSUME NEW k \in 1..Len(t) PROVE u[Len(s) + k] = t[k]
  <2>1. Len(s) + k \in 1..(Len(s) + Len(t)) /\ ~(Len(s) + k <= Len(s)) /\ Len(s) + k - Len(s) = k
    BY <1>1
  <2> QED BY <1>1, <2>1
<1>4. ASSUME NEW k \in 1..Len(u), k \notin 1..Len(s)
      PROVE  \E j \in 1..Len(t) : k = Len(s) + j /\ u[k] = t[j]
  <2>1. k - Len(s) \in 1..Len(t) /\ k = Len(s) + (k - Len(s))
    BY <1>1, <1>4
  <2> QED BY <1>3, <2>1
<1> QED BY <1>1, <1>2, <1>3, <1>4 DEF u

LEMMA JoinedHas ==
  ASSUME NEW s \in Seq(Asks), NEW t \in Seq(Asks), NEW q, Has(s, q) \/ Has(t, q)
  PROVE  Has(s \o t, q)
<1> DEFINE u == s \o t
<1>1. /\ Len(s) \in Nat /\ Len(t) \in Nat /\ Len(u) = Len(s) + Len(t)
      /\ \A k \in 1..Len(s) : u[k] = s[k]
      /\ \A k \in 1..Len(t) : u[Len(s) + k] = t[k]
  BY Joined
<1> HIDE DEF u
<1>2. ASSUME NEW k \in 1..Len(s), s[k] = q PROVE Has(u, q)
  BY <1>1, <1>2 DEF Has
<1>3. ASSUME NEW k \in 1..Len(t), t[k] = q PROVE Has(u, q)
  <2>1. Len(s) + k \in 1..Len(u)
    BY <1>1
  <2> QED BY <1>1, <1>3, <2>1 DEF Has
<1> QED BY <1>2, <1>3 DEF Has, u

LEMMA JoinedOnly ==
  ASSUME NEW s \in Seq(Asks), NEW t \in Seq(Asks), NEW ops, Only(s, ops), Only(t, ops)
  PROVE  Only(s \o t, ops)
<1> DEFINE u == s \o t
<1>1. /\ \A k \in 1..Len(s) : u[k] = s[k]
      /\ \A k \in 1..Len(u) :
           k \in 1..Len(s) \/ \E j \in 1..Len(t) : k = Len(s) + j /\ u[k] = t[j]
  BY Joined
<1> HIDE DEF u
<1>2. Only(u, ops)
  BY <1>1 DEF Only
<1> QED BY <1>2 DEF u

LEMMA JoinedAdopt ==
  ASSUME NEW s \in Seq(Asks), NEW t \in Seq(Asks), AdoptFirst(s),
         \A k \in 1..Len(t) : t[k].op # "adopt"
  PROVE  AdoptFirst(s \o t)
<1> DEFINE u == s \o t
<1>1. /\ \A k \in 1..Len(s) : u[k] = s[k]
      /\ \A k \in 1..Len(u) :
           k \in 1..Len(s) \/ \E j \in 1..Len(t) : k = Len(s) + j /\ u[k] = t[j]
  BY Joined
<1> HIDE DEF u
<1>2. AdoptFirst(u)
  BY <1>1 DEF AdoptFirst
<1> QED BY <1>2 DEF u

\* s begins with p, and what follows is late.
LateAfter(s, p) ==
  /\ Len(p) <= Len(s)
  /\ \A k \in 1..Len(p) : s[k] = p[k]
  /\ \A k \in 1..Len(s) : k > Len(p) => s[k].op \in Late

LEMMA JoinedLate ==
  ASSUME NEW p \in Seq(Asks), NEW s \in Seq(Asks), NEW t \in Seq(Asks),
         LateAfter(s, p), Only(t, Late)
  PROVE  LateAfter(s \o t, p)
<1> DEFINE u == s \o t
<1>1. /\ Len(s) \in Nat /\ Len(t) \in Nat /\ Len(u) = Len(s) + Len(t)
      /\ \A k \in 1..Len(s) : u[k] = s[k]
      /\ \A k \in 1..Len(u) :
           k \in 1..Len(s) \/ \E j \in 1..Len(t) : k = Len(s) + j /\ u[k] = t[j]
  BY Joined
<1>2. Len(p) \in Nat
  BY LenProperties
<1> HIDE DEF u
<1>3. Len(p) <= Len(u)
  BY <1>1, <1>2 DEF LateAfter
<1>4. \A k \in 1..Len(p) : k \in 1..Len(s)
  BY <1>1, <1>2 DEF LateAfter
<1>5. \A k \in 1..Len(p) : u[k] = p[k]
  BY <1>1, <1>4 DEF LateAfter
<1>6. \A k \in 1..Len(u) : k > Len(p) => u[k].op \in Late
  BY <1>1 DEF LateAfter, Only
<1>7. LateAfter(u, p)
  BY <1>3, <1>5, <1>6 DEF LateAfter
<1> QED BY <1>7 DEF u

\* The parts of the script.
Opening ==
  << Plain("adopt"), Put("qkv_weight"), Put("out_weight"), Put("q_norm"), Put("k_norm") >>
InputChunks == Each(Chunks, CopyInput)
RopeSlices == Each(RopeChunks, CopyRope)
RangeAsks == Each(Ranges, ComputeRange)
Inputs(r) == IF r.sol THEN << >> ELSE << Plain("allocate") >> \o InputChunks
Ropes(r) == IF r.rope THEN << Plain("allocate") >> \o RopeSlices ELSE << >>
Projection(r) ==
  IF r.sol THEN << Plain("allocate") >> \o SolChunks \o << Plain("release") >>
           ELSE << Plain("qkv") >>
Streams(r) == IF r.sol THEN << Plain("stream") >> ELSE << >>

Loaded(r) == Opening \o Inputs(r) \o Ropes(r)
Projected(r) == Loaded(r) \o Projection(r)

LEMMA ScriptParts ==
  ASSUME NEW r
  PROVE  Script(r) = Projected(r) \o << Plain("audio") >> \o Streams(r) \o RangeAsks
BY DEF Script, Projected, Loaded, Opening, Inputs, Ropes, Projection, Streams, InputChunks,
       RopeSlices, RangeAsks

LEMMA OneAsk ==
  ASSUME NEW q \in Asks
  PROVE  <<q>> \in Seq(Asks) /\ Len(<<q>>) = 1 /\ <<q>>[1] = q
OBVIOUS

\* The runs of requests over chunks and ranges.
LEMMA EachParts ==
  /\ InputChunks \in Seq(Asks) /\ Len(InputChunks) = Chunks
  /\ \A i \in 1..Chunks : InputChunks[i] = CopyInput(i)
  /\ RopeSlices \in Seq(Asks) /\ Len(RopeSlices) = RopeChunks
  /\ \A i \in 1..RopeChunks : RopeSlices[i] = CopyRope(i)
  /\ SolChunks \in Seq(Asks) /\ Len(SolChunks) = Chunks
  /\ \A i \in 1..Chunks : SolChunks[i] = ProjectChunk(i)
  /\ RangeAsks \in Seq(Asks) /\ Len(RangeAsks) = Ranges
  /\ \A i \in 1..Ranges : RangeAsks[i] = ComputeRange(i)
<1>1. Chunks \in Nat /\ RopeChunks \in Nat /\ Ranges \in Nat
  BY GraphAssumption
<1>2. /\ \A i \in 1..Chunks : CopyInput(i) \in Asks /\ ProjectChunk(i) \in Asks
      /\ \A i \in 1..RopeChunks : CopyRope(i) \in Asks
      /\ \A i \in 1..Ranges : ComputeRange(i) \in Asks
  BY DEF Asks
<1> HIDE DEF Asks
<1> QED BY <1>1, <1>2 DEF Each, SolChunks, InputChunks, RopeSlices, RangeAsks

Early == {"adopt", "put", "allocate", "slice"}
Middle == Early \cup {"chunk", "release", "qkv"}

LEMMA OpeningParts ==
  /\ Opening \in Seq(Asks) /\ Only(Opening, Early) /\ AdoptFirst(Opening)
  /\ Has(Opening, Put("out_weight"))
<1>1. \A q \in {Plain("adopt"), Put("qkv_weight"), Put("out_weight"), Put("q_norm"),
                Put("k_norm")} : q \in Asks
  BY DEF Asks, Weights
<1>2. Opening \in Seq(Asks) /\ Len(Opening) = 5
  <2> HIDE DEF Asks
  <2> QED BY <1>1 DEF Opening
<1>3. /\ Opening[1] = Plain("adopt") /\ Opening[2] = Put("qkv_weight")
      /\ Opening[3] = Put("out_weight") /\ Opening[4] = Put("q_norm")
      /\ Opening[5] = Put("k_norm")
  BY DEF Opening
<1>4. \A k \in 1..5 : Opening[k].op = (IF k = 1 THEN "adopt" ELSE "put")
  BY <1>3 DEF Plain, Put, Request
<1>5. Only(Opening, Early) /\ AdoptFirst(Opening)
  BY <1>2, <1>4 DEF Only, AdoptFirst, Early
<1>6. Has(Opening, Put("out_weight"))
  BY <1>2, <1>3 DEF Has
<1> QED BY <1>2, <1>5, <1>6

LEMMA PlainAsks ==
  ASSUME NEW op \in {"adopt", "allocate", "qkv", "release", "audio", "stream"}
  PROVE  /\ <<Plain(op)>> \in Seq(Asks) /\ Len(<<Plain(op)>>) = 1
         /\ <<Plain(op)>>[1] = Plain(op) /\ Plain(op).op = op
<1>1. Plain(op) \in Asks
  BY DEF Asks
<1>2. Plain(op).op = op
  BY DEF Plain, Request
<1> HIDE DEF Asks
<1> QED BY <1>1, <1>2, OneAsk

LEMMA PlainOnly ==
  ASSUME NEW op \in {"adopt", "allocate", "qkv", "release", "audio", "stream"},
         NEW ops, op \in ops
  PROVE  Only(<<Plain(op)>>, ops)
BY PlainAsks DEF Only

LEMMA InputsParts ==
  ASSUME NEW r \in Routes
  PROVE  /\ Inputs(r) \in Seq(Asks) /\ Only(Inputs(r), {"allocate", "slice"})
         /\ ~r.sol => \A i \in 1..Chunks : Has(Inputs(r), CopyInput(i))
<1> DEFINE a == <<Plain("allocate")>>
           c == InputChunks
<1>1. a \in Seq(Asks) /\ Only(a, {"allocate", "slice"})
  BY PlainAsks, PlainOnly
<1>2. /\ c \in Seq(Asks) /\ Only(c, {"allocate", "slice"})
      /\ \A i \in 1..Chunks : Has(c, CopyInput(i))
  <2>1. c \in Seq(Asks) /\ Only(c, {"allocate", "slice"})
    BY EachParts DEF Only, CopyInput, Request
  <2>2. \A i \in 1..Chunks : Has(c, CopyInput(i))
    BY EachParts DEF Has
  <2> QED BY <2>1, <2>2
<1>3. CASE r.sol
  <2>1. Inputs(r) = << >>
    BY <1>3 DEF Inputs
  <2> QED BY <1>3, <2>1, EmptySeq DEF Only
<1>4. CASE ~r.sol
  <2>1. Inputs(r) = a \o c
    BY <1>4 DEF Inputs
  <2> HIDE DEF a, c
  <2> QED BY <1>1, <1>2, <2>1, Joined, JoinedOnly, JoinedHas
<1> QED BY <1>3, <1>4

LEMMA RopesParts ==
  ASSUME NEW r \in Routes
  PROVE  Ropes(r) \in Seq(Asks) /\ Only(Ropes(r), {"allocate", "slice"})
<1> DEFINE a == <<Plain("allocate")>>
           c == RopeSlices
<1>1. a \in Seq(Asks) /\ Only(a, {"allocate", "slice"})
  BY PlainAsks, PlainOnly
<1>2. c \in Seq(Asks) /\ Only(c, {"allocate", "slice"})
  BY EachParts DEF Only, CopyRope, Request
<1>3. CASE ~r.rope
  <2>1. Ropes(r) = << >>
    BY <1>3 DEF Ropes
  <2> QED BY <1>3, <2>1, EmptySeq DEF Only
<1>4. CASE r.rope
  <2>1. Ropes(r) = a \o c
    BY <1>4 DEF Ropes
  <2> HIDE DEF a, c
  <2> QED BY <1>1, <1>2, <2>1, Joined, JoinedOnly
<1> QED BY <1>3, <1>4

LEMMA ProjectionParts ==
  ASSUME NEW r \in Routes
  PROVE  /\ Projection(r) \in Seq(Asks)
         /\ Only(Projection(r), {"allocate", "chunk", "release", "qkv"})
         /\ r.sol => /\ Only(Projection(r), {"allocate", "chunk", "release"})
                     /\ \A i \in 1..Chunks : Has(Projection(r), ProjectChunk(i))
         /\ ~r.sol => Projection(r) = <<Plain("qkv")>>
<1> DEFINE a == <<Plain("allocate")>>
           c == SolChunks
           z == <<Plain("release")>>
           ops == {"allocate", "chunk", "release"}
<1>1. a \in Seq(Asks) /\ Only(a, ops) /\ z \in Seq(Asks) /\ Only(z, ops)
  BY PlainAsks, PlainOnly
<1>2. c \in Seq(Asks) /\ Only(c, ops) /\ \A i \in 1..Chunks : Has(c, ProjectChunk(i))
  <2>1. c \in Seq(Asks) /\ Only(c, ops)
    BY EachParts DEF Only, ProjectChunk, Request
  <2>2. \A i \in 1..Chunks : Has(c, ProjectChunk(i))
    BY EachParts DEF Has
  <2> QED BY <2>1, <2>2
<1>3. CASE r.sol
  <2>1. Projection(r) = (a \o c) \o z
    BY <1>3 DEF Projection
  <2> HIDE DEF a, c, z, ops
  <2>2. /\ a \o c \in Seq(Asks) /\ Only(a \o c, ops)
        /\ \A i \in 1..Chunks : Has(a \o c, ProjectChunk(i))
    BY <1>1, <1>2, Joined, JoinedOnly, JoinedHas
  <2>3. /\ (a \o c) \o z \in Seq(Asks) /\ Only((a \o c) \o z, ops)
        /\ \A i \in 1..Chunks : Has((a \o c) \o z, ProjectChunk(i))
    BY <1>1, <2>2, Joined, JoinedOnly, JoinedHas
  <2> QED BY <1>3, <2>1, <2>3 DEF Only, ops
<1>4. CASE ~r.sol
  <2>1. Projection(r) = <<Plain("qkv")>>
    BY <1>4 DEF Projection
  <2> QED BY <1>4, <2>1, PlainAsks, PlainOnly
<1> QED BY <1>3, <1>4

LEMMA LoadedParts ==
  ASSUME NEW r \in Routes
  PROVE  /\ Loaded(r) \in Seq(Asks) /\ Only(Loaded(r), Early) /\ AdoptFirst(Loaded(r))
         /\ Has(Loaded(r), Put("out_weight"))
         /\ ~r.sol => \A i \in 1..Chunks : Has(Loaded(r), CopyInput(i))
<1> DEFINE s == Opening \o Inputs(r)
<1>1. /\ Inputs(r) \in Seq(Asks) /\ Only(Inputs(r), Early)
      /\ \A k \in 1..Len(Inputs(r)) : Inputs(r)[k].op # "adopt"
      /\ Ropes(r) \in Seq(Asks) /\ Only(Ropes(r), Early)
      /\ \A k \in 1..Len(Ropes(r)) : Ropes(r)[k].op # "adopt"
      /\ ~r.sol => \A i \in 1..Chunks : Has(Inputs(r), CopyInput(i))
  BY InputsParts, RopesParts DEF Only, Early
<1>2. /\ s \in Seq(Asks) /\ Only(s, Early) /\ AdoptFirst(s) /\ Has(s, Put("out_weight"))
      /\ ~r.sol => \A i \in 1..Chunks : Has(s, CopyInput(i))
  BY <1>1, OpeningParts, Joined, JoinedOnly, JoinedAdopt, JoinedHas
<1>3. Loaded(r) = s \o Ropes(r)
  BY DEF Loaded
<1> HIDE DEF s
<1>4. /\ s \o Ropes(r) \in Seq(Asks) /\ Only(s \o Ropes(r), Early)
      /\ AdoptFirst(s \o Ropes(r)) /\ Has(s \o Ropes(r), Put("out_weight"))
      /\ ~r.sol => \A i \in 1..Chunks : Has(s \o Ropes(r), CopyInput(i))
  BY <1>1, <1>2, Joined, JoinedOnly, JoinedAdopt, JoinedHas
<1> QED BY <1>3, <1>4

\* What the worker is asked up to the projection, and where the projection is.
LEMMA ProjectedParts ==
  ASSUME NEW r \in Routes
  PROVE  LET s == Projected(r)
         IN  /\ s \in Seq(Asks) /\ Only(s, Middle) /\ AdoptFirst(s)
             /\ Has(s, Put("out_weight"))
             /\ r.sol => \A i \in 1..Chunks : Has(s, ProjectChunk(i))
             /\ ~r.sol => Has(s, Plain("qkv"))
             /\ \A k \in 1..Len(s) : s[k].op = "qkv" =>
                  /\ \A i \in 1..Chunks : \E j \in 1..(k - 1) : s[j] = CopyInput(i)
                  /\ \A j \in 1..(k - 1) : s[j].op \notin Drops
<1> DEFINE t == Loaded(r)
           z == Projection(r)
           s == t \o z
<1>1. /\ t \in Seq(Asks) /\ Only(t, Early) /\ AdoptFirst(t) /\ Has(t, Put("out_weight"))
      /\ ~r.sol => \A i \in 1..Chunks : Has(t, CopyInput(i))
  BY LoadedParts
<1>2. /\ z \in Seq(Asks) /\ Only(z, {"allocate", "chunk", "release", "qkv"})
      /\ r.sol => /\ Only(z, {"allocate", "chunk", "release"})
                  /\ \A i \in 1..Chunks : Has(z, ProjectChunk(i))
      /\ ~r.sol => z = <<Plain("qkv")>>
  BY ProjectionParts
<1> HIDE DEF t, z
<1>3. Only(t, Middle) /\ Only(z, Middle) /\ \A k \in 1..Len(z) : z[k].op # "adopt"
  BY <1>1, <1>2 DEF Only, Middle, Early
<1>4. /\ s \in Seq(Asks) /\ Only(s, Middle) /\ AdoptFirst(s) /\ Has(s, Put("out_weight"))
  BY <1>1, <1>2, <1>3, Joined, JoinedOnly, JoinedAdopt, JoinedHas
<1>5. r.sol => \A i \in 1..Chunks : Has(s, ProjectChunk(i))
  BY <1>1, <1>2, JoinedHas
<1>6. ~r.sol => Has(s, Plain("qkv"))
  <2>1. Len(<<Plain("qkv")>>) = 1 /\ <<Plain("qkv")>>[1] = Plain("qkv")
    BY PlainAsks
  <2>2. Has(<<Plain("qkv")>>, Plain("qkv"))
    BY <2>1 DEF Has
  <2> QED BY <1>1, <1>2, <2>2, JoinedHas
<1>7. ASSUME NEW k \in 1..Len(s), s[k].op = "qkv"
      PROVE  /\ \A i \in 1..Chunks : \E j \in 1..(k - 1) : s[j] = CopyInput(i)
             /\ \A j \in 1..(k - 1) : s[j].op \notin Drops
  <2>1. /\ Len(s) = Len(t) + Len(z) /\ Len(t) \in Nat
        /\ \A j \in 1..Len(t) : s[j] = t[j]
        /\ k \in 1..Len(t) \/ \E j \in 1..Len(z) : k = Len(t) + j /\ s[k] = z[j]
    BY <1>1, <1>2, Joined
  <2> HIDE DEF s
  <2>2. \A j \in 1..Len(t) : t[j].op \notin Drops
    BY <1>1 DEF Only, Early, Drops
  <2>3. k \notin 1..Len(t)
    BY <1>7, <2>1, <2>2 DEF Drops
  <2>4. PICK j \in 1..Len(z) : k = Len(t) + j /\ z[j].op = "qkv"
    BY <1>7, <2>1, <2>3
  <2>5. ~r.sol
    BY <1>2, <2>4 DEF Only
  <2>6. Len(z) = 1
    BY <1>2, <2>5, PlainAsks
  <2>7. k - 1 = Len(t)
    BY <2>1, <2>4, <2>6
  <2>8. \A i \in 1..Chunks : \E n \in 1..Len(t) : t[n] = CopyInput(i)
    BY <1>1, <2>5 DEF Has
  <2> QED BY <2>1, <2>2, <2>7, <2>8
<1> QED BY <1>4, <1>5, <1>6, <1>7 DEF Projected, s, t, z

\* What is asked after the projection finds it done, with all it needs; what
\* the projection needs has been copied before; and every range is asked.
LEMMA ScriptShape ==
  ASSUME NEW r \in Routes
  PROVE  LET s == Script(r)
         IN  /\ s \in Seq(Asks) /\ Len(s) \in Nat \ {0} /\ AdoptFirst(s)
             /\ \A k \in 1..Len(s) : s[k].op \in Late =>
                  /\ \E j \in 1..(k - 1) : s[j] = Put("out_weight")
                  /\ \/ \E j \in 1..(k - 1) : s[j].op = "qkv"
                     \/ \A i \in 1..Chunks : \E j \in 1..(k - 1) : s[j] = ProjectChunk(i)
             /\ \A k \in 1..Len(s) : s[k].op = "qkv" =>
                  /\ \A i \in 1..Chunks : \E j \in 1..(k - 1) : s[j] = CopyInput(i)
                  /\ \A j \in 1..(k - 1) : s[j].op \notin Drops
             /\ \A i \in 1..Ranges : Has(s, ComputeRange(i))
<1> DEFINE p == Projected(r)
           a == <<Plain("audio")>>
           z == Streams(r)
           g == RangeAsks
           s == ((p \o a) \o z) \o g
<1>1. /\ p \in Seq(Asks) /\ Only(p, Middle) /\ AdoptFirst(p) /\ Has(p, Put("out_weight"))
      /\ r.sol => \A i \in 1..Chunks : Has(p, ProjectChunk(i))
      /\ ~r.sol => Has(p, Plain("qkv"))
      /\ \A k \in 1..Len(p) : p[k].op = "qkv" =>
           /\ \A i \in 1..Chunks : \E j \in 1..(k - 1) : p[j] = CopyInput(i)
           /\ \A j \in 1..(k - 1) : p[j].op \notin Drops
  BY ProjectedParts
<1>2. a \in Seq(Asks) /\ Only(a, Late) /\ Len(a) = 1
  BY PlainAsks, PlainOnly DEF Late
<1>3. z \in Seq(Asks) /\ Only(z, Late)
  <2>1. CASE r.sol
    BY <2>1, PlainAsks, PlainOnly DEF Streams, Late
  <2>2. CASE ~r.sol
    BY <2>2, EmptySeq DEF Streams, Only
  <2> QED BY <2>1, <2>2
<1>4. g \in Seq(Asks) /\ Only(g, Late) /\ \A i \in 1..Ranges : Has(g, ComputeRange(i))
  <2>1. g \in Seq(Asks) /\ Only(g, Late)
    BY EachParts DEF Only, ComputeRange, Request, Late
  <2>2. \A i \in 1..Ranges : Has(g, ComputeRange(i))
    BY EachParts DEF Has
  <2> QED BY <2>1, <2>2
<1>5. Script(r) = s
  BY ScriptParts
<1> HIDE DEF p, a, z, g
<1>6. ASSUME NEW t \in Seq(Asks), Only(t, Late)
      PROVE  \A k \in 1..Len(t) : t[k].op # "adopt"
  BY <1>6 DEF Only, Late
<1>7. /\ s \in Seq(Asks) /\ AdoptFirst(s) /\ Len(p) \in Nat /\ Len(s) \in Nat
      /\ Len(s) > Len(p)
      /\ \A k \in 1..Len(p) : s[k] = p[k]
      /\ \A k \in 1..Len(s) : k > Len(p) => s[k].op \in Late
  <2> DEFINE u == p \o a
             v == u \o z
  <2>1. Len(p) \in Nat
    BY <1>1, Joined
  <2>2. u \in Seq(Asks) /\ AdoptFirst(u) /\ Len(u) = Len(p) + 1
    <3>1. u \in Seq(Asks) /\ Len(u) = Len(p) + Len(a)
      BY <1>1, <1>2, Joined
    <3>2. AdoptFirst(u)
      BY <1>1, <1>2, <1>6, JoinedAdopt
    <3> QED BY <1>2, <3>1, <3>2
  <2>3. LateAfter(u, p)
    <3>1. LateAfter(p, p)
      BY <2>1 DEF LateAfter
    <3> QED BY <1>1, <1>2, <3>1, JoinedLate
  <2> HIDE DEF u
  <2>4. v \in Seq(Asks) /\ AdoptFirst(v) /\ Len(v) \in Nat /\ Len(v) >= Len(u)
    BY <1>3, <1>6, <2>2, Joined, JoinedAdopt
  <2>5. LateAfter(v, p)
    BY <1>1, <1>3, <2>2, <2>3, JoinedLate
  <2>6. s = v \o g
    BY DEF s, u
  <2> HIDE DEF v, s
  <2>7. s \in Seq(Asks) /\ AdoptFirst(s) /\ Len(s) \in Nat /\ Len(s) >= Len(v)
    BY <1>4, <1>6, <2>4, <2>6, Joined, JoinedAdopt
  <2>8. LateAfter(s, p)
    BY <1>1, <1>4, <2>4, <2>5, <2>6, JoinedLate
  <2> QED BY <2>1, <2>2, <2>4, <2>7, <2>8 DEF LateAfter
<1>8. \A i \in 1..Ranges : Has(s, ComputeRange(i))
  <2>1. (p \o a) \o z \in Seq(Asks)
    BY <1>1, <1>2, <1>3, Joined
  <2> QED BY <1>4, <2>1, JoinedHas
<1> HIDE DEF s
<1>9. ASSUME NEW k \in 1..Len(s), s[k].op \in Late
      PROVE  /\ k > Len(p)
             /\ \E j \in 1..(k - 1) : s[j] = Put("out_weight")
             /\ \/ \E j \in 1..(k - 1) : s[j].op = "qkv"
                \/ \A i \in 1..Chunks : \E j \in 1..(k - 1) : s[j] = ProjectChunk(i)
  <2>1. k > Len(p)
    BY <1>1, <1>7, <1>9 DEF Only, Middle, Early, Late
  <2>2. ASSUME NEW q, Has(p, q) PROVE \E j \in 1..(k - 1) : s[j] = q
    BY <1>7, <2>1, <2>2 DEF Has
  <2>3. \E j \in 1..(k - 1) : s[j] = Put("out_weight")
    BY <1>1, <2>2
  <2>4. r.sol => \A i \in 1..Chunks : \E j \in 1..(k - 1) : s[j] = ProjectChunk(i)
    BY <1>1, <2>2
  <2>5. ~r.sol => \E j \in 1..(k - 1) : s[j].op = "qkv"
    BY <1>1, <2>2, PlainAsks
  <2> QED BY <2>1, <2>3, <2>4, <2>5
<1>10. ASSUME NEW k \in 1..Len(s), s[k].op = "qkv"
       PROVE  /\ \A i \in 1..Chunks : \E j \in 1..(k - 1) : s[j] = CopyInput(i)
              /\ \A j \in 1..(k - 1) : s[j].op \notin Drops
  <2>1. k \in 1..Len(p) /\ p[k].op = "qkv"
    BY <1>7, <1>10 DEF Late
  <2>2. \A j \in 1..(k - 1) : j \in 1..Len(p) /\ s[j] = p[j]
    BY <1>7, <2>1
  <2> QED BY <1>1, <2>1, <2>2
<1>11. Len(s) \in Nat \ {0}
  BY <1>7
<1> QED BY <1>5, <1>7, <1>8, <1>9, <1>10, <1>11

-----------------------------------------------------------------------------
(* The invariant.                                                          *)

Mains == {"idle", "primary", "secondary", "pool", "fill", "filled", "compute", "await",
          "returning", "closing", "resetting", "freeing", "freed"}
Acquiring == {"primary", "secondary", "pool"}
Running == {"fill", "filled", "compute", "await", "returning"}

\* The variables the proof speaks of have their types.
Typed ==
  /\ route \in Routes /\ step \in 1..Len(Script(route)) /\ main \in Mains
  /\ workspace \in Nat /\ candidate \in Nat
  /\ DOMAIN host = Buffers /\ DOMAIN items = Slots /\ DOMAIN target = 1..Ranges
  /\ qkv \in [held : BOOLEAN, chunks : SUBSET (1..Chunks)]
  /\ audio \in BOOLEAN /\ stream \in BOOLEAN

\* Nothing is asked of the worker, and no copy is under way.
Quiet == task = NoTask /\ reply = "none" /\ flight = {}

\* The actor holds nothing.
Cleared ==
  qkv = NoQkv /\ ~audio /\ ~stream /\ \A s \in Slots : items[s] = Nothing

\* The request's copy, as the worker issues it.
CopyOf(q) == IF Sends(q) THEN ToDevice(q.slot, q.buf) ELSE ToHost("secondary", q.slot, q.buf)

Staged(q) == Sends(q) => host[q.buf] = q.slot
Arrived(q) ==
  /\ Sends(q) => items[q.slot] = q.slot
  /\ q.op = "range" => host["partial"] = q.slot

\* What an answered request has left behind.
Effect(q) ==
  /\ Arrived(q)
  /\ q.op = "chunk" => q.slot[2] \in qkv.chunks
  /\ q.op = "qkv" => qkv.chunks = 1..Chunks

\* The one copy that may still be under way when this step has failed, on
\* either thread, and that nobody has waited for.
Leftover ==
  \/ flight = {}
  \/ flight = {ToHost("primary", Asked.slot, Asked.buf)}
  \/ flight = {ToReturned}
  \/ flight = {CopyOf(Asked)} /\ Asked.op \in {"put", "slice", "chunk", "range"} /\ Staged(Asked)

\* Where the worker may stand with the request of this step.
WorkerAt ==
  \/ task = Asked /\ reply = "none" /\ flight = {} /\ Staged(Asked)
  \/ /\ task = Asked /\ reply = "issued" /\ Asked.op \in {"put", "slice", "chunk", "range"}
     /\ Staged(Asked) /\ flight \subseteq {CopyOf(Asked)}
     /\ flight = {} => Arrived(Asked)
  \/ task = NoTask /\ reply = "error" /\ Leftover
  \/ task = NoTask /\ reply = "ok" /\ flight = {} /\ Effect(Asked)

\* The two threads, the buffers and the copies, by where the main thread stands.
Handshake ==
  /\ main \in Acquiring \cup {"idle"} => Quiet /\ Cleared
  /\ main \in Acquiring => step = 1
  /\ main \in {"idle", "primary"} => workspace = 0
  /\ main = "fill" => Quiet
  /\ main = "filled" =>
       /\ task = NoTask /\ reply = "none" /\ Sends(Asked)
       /\ flight \subseteq {ToHost("primary", Asked.slot, Asked.buf)}
       /\ flight = {} => Staged(Asked)
  /\ main \in {"compute", "await"} => WorkerAt
  /\ main = "returning" =>
       /\ task = NoTask /\ reply = "none" /\ Asked.op = "range"
       /\ flight \subseteq {ToReturned} /\ host["partial"] = Asked.slot
       /\ flight = {} => returned = Asked.slot
  /\ main = "closing" => (task = NoTask /\ reply = "none" /\ Leftover) \/ WorkerAt
  /\ main = "resetting" =>
       /\ Leftover
       /\ \/ task = Plain("reset") /\ reply = "none"
          \/ task = NoTask /\ reply \in {"ok", "error"} /\ Cleared /\ Drained("secondary")
  /\ main = "freeing" =>
       task = NoTask /\ reply = "none" /\ Cleared /\ Leftover /\ Drained("secondary")
  /\ main = "freed" =>
       /\ Cleared /\ Leftover /\ Drained("secondary")
       /\ \/ task = Plain("free") /\ reply = "none"
          \/ task = NoTask /\ reply \in {"ok", "error"} /\ workspace = 0

\* The inputs on the second GPU have not been dropped.
Undropped ==
  /\ \A j \in 1..(step - 1) : Script(route)[j].op \notin Drops
  /\ Asked.op \in Drops => reply = "none"

\* What the requests before this step have left behind, as long as one of
\* this step may still use it.
Staging ==
  main \in Running \/ task = Asked =>
    \A j \in 1..(step - 1) :
      LET q == Script(route)[j]
      IN  /\ q = Put("out_weight") => items[q.slot] = q.slot
          /\ q.op = "slice" /\ Undropped => items[q.slot] = q.slot
          /\ q.op = "chunk" => q.slot[2] \in qkv.chunks
          /\ q.op = "qkv" => qkv.chunks = 1..Chunks

\* The owner of the storage holds it for as long as the actor may use it.
HeldInside ==
  /\ main \in Running \cup {"pool", "closing"} => workspace # 0
  /\ qkv.held => workspace # 0

ItemsExact == \A s \in Slots : items[s] \in {Nothing, s}

\* The ranges before this step are in the target, and no other.
Written ==
  /\ main \in Acquiring => target = [i \in 1..Ranges |-> Nothing]
  /\ main \in Acquiring \cup Running => outcome = "none"
  /\ main \in Running =>
       \A j \in 1..(step - 1) :
         LET q == Script(route)[j] IN q.op = "range" => target[q.slot[2]] = q.slot
  /\ \A i \in 1..Ranges : target[i] \in {Nothing, PartialOf(i)}

GraphInv ==
  /\ Typed /\ Handshake /\ Staging /\ HeldInside /\ ItemsExact /\ Written
  /\ GraphOutputWhole

-----------------------------------------------------------------------------
(* What the invariant says of the request of this step.                    *)

LEMMA AskTyped ==
  ASSUME NEW q \in Asks
  PROVE  /\ Sends(q) => q.slot \in Slots /\ q.buf \in Buffers /\ CopyOf(q).buf = q.buf
         /\ q.op = "chunk" => \E i \in 1..Chunks : q.slot = <<"x", i>>
         /\ q.op = "range" => \E i \in 1..Ranges : q = ComputeRange(i)
         /\ q.op \in {"adopt", "put", "slice", "chunk", "allocate", "release", "qkv", "audio",
                      "stream", "range"}
<1>1. CASE \E op \in {"adopt", "allocate", "qkv", "release", "audio", "stream"} : q = Plain(op)
  BY <1>1 DEF Plain, Request, Sends
<1>2. CASE \E name \in Weights : q = Put(name)
  BY <1>2 DEF Put, Request, Sends, Slots, Buffers, CopyOf, ToDevice
<1>3. CASE \E i \in 1..Chunks : q = CopyInput(i)
  BY <1>3 DEF CopyInput, Request, Sends, Slots, Buffers, CopyOf, ToDevice
<1>4. CASE \E i \in 1..RopeChunks : q = CopyRope(i)
  BY <1>4 DEF CopyRope, Request, Sends, Slots, Buffers, CopyOf, ToDevice
<1>5. CASE \E i \in 1..Chunks : q = ProjectChunk(i)
  BY <1>5 DEF ProjectChunk, Request, Sends, Slots, Buffers, CopyOf, ToDevice
<1>6. CASE \E i \in 1..Ranges : q = ComputeRange(i)
  BY <1>6 DEF ComputeRange, Request, Sends
<1> QED BY <1>1, <1>2, <1>3, <1>4, <1>5, <1>6 DEF Asks

LEMMA ScriptTyped ==
  ASSUME NEW r \in Routes, NEW k \in 1..Len(Script(r))
  PROVE  /\ Script(r)[k] \in Asks /\ \A j \in 1..(k - 1) : Script(r)[j] \in Asks
         /\ Script(r)[k].op = "adopt" => k = 1
<1>1. /\ Script(r) \in Seq(Asks) /\ Len(Script(r)) \in Nat /\ AdoptFirst(Script(r))
  BY ScriptShape
<1>2. \A j \in 1..Len(Script(r)) : Script(r)[j] \in Asks
  BY <1>1, ElementOfSeq
<1>3. \A j \in 1..(k - 1) : j \in 1..Len(Script(r))
  BY <1>1
<1> QED BY <1>1, <1>2, <1>3 DEF AdoptFirst

LEMMA AskedTyped ==
  ASSUME Typed
  PROVE  /\ Asked \in Asks /\ \A j \in 1..(step - 1) : Script(route)[j] \in Asks
         /\ Asked.op = "adopt" => step = 1
BY ScriptTyped DEF Typed, Asked

\* The tasks that are not of the script.
LEMMA OtherTasks ==
  /\ NoTask \notin Asks /\ Plain("reset") \notin Asks /\ Plain("free") \notin Asks
  /\ NoTask.op = "none" /\ Plain("reset").op = "reset" /\ Plain("free").op = "free"
<1>1. NoTask.op = "none" /\ Plain("reset").op = "reset" /\ Plain("free").op = "free"
  BY DEF NoTask, Plain, Request
<1> QED BY <1>1, AskTyped

\* The weights, chunks and routes a late request reads are in place.
LEMMA LateReady ==
  ASSUME Typed, Staging, task = Asked, Asked.op \in Late
  PROVE  qkv.chunks = 1..Chunks /\ items[<<"out_weight", 1>>] = <<"out_weight", 1>>
<1> DEFINE s == Script(route)
<1>1. /\ step \in 1..Len(s) /\ s[step].op \in Late /\ route \in Routes
      /\ qkv.chunks \in SUBSET (1..Chunks)
  BY DEF Typed, Asked
<1>2. /\ \E j \in 1..(step - 1) : s[j] = Put("out_weight")
      /\ \/ \E j \in 1..(step - 1) : s[j].op = "qkv"
         \/ \A i \in 1..Chunks : \E j \in 1..(step - 1) : s[j] = ProjectChunk(i)
  BY <1>1, ScriptShape
<1>3. \A j \in 1..(step - 1) :
        /\ s[j] = Put("out_weight") => items[s[j].slot] = s[j].slot
        /\ s[j].op = "chunk" => s[j].slot[2] \in qkv.chunks
        /\ s[j].op = "qkv" => qkv.chunks = 1..Chunks
  BY DEF Staging
<1> HIDE DEF s
<1>4. items[<<"out_weight", 1>>] = <<"out_weight", 1>>
  BY <1>2, <1>3 DEF Put, Request
<1>5. ASSUME NEW i \in 1..Chunks, NEW j \in 1..(step - 1), s[j] = ProjectChunk(i)
      PROVE  i \in qkv.chunks
  <2>1. s[j].op = "chunk" /\ s[j].slot = <<"x", i>>
    BY <1>5 DEF ProjectChunk, Request
  <2> QED BY <1>3, <2>1
<1>6. qkv.chunks = 1..Chunks
  BY <1>1, <1>2, <1>3, <1>5
<1> QED BY <1>4, <1>6

\* The projection of a dense call finds every chunk of the input.
LEMMA InputsReady ==
  ASSUME Typed, Staging, task = Asked, Asked.op = "qkv", reply = "none"
  PROVE  {items[<<"x", i>>][2] : i \in 1..Chunks} = 1..Chunks
<1> DEFINE s == Script(route)
<1>1. step \in 1..Len(s) /\ s[step].op = "qkv" /\ route \in Routes
  BY DEF Typed, Asked
<1>2. /\ \A i \in 1..Chunks : \E j \in 1..(step - 1) : s[j] = CopyInput(i)
      /\ \A j \in 1..(step - 1) : s[j].op \notin Drops
  BY <1>1, ScriptShape
<1>3. Undropped
  BY <1>2 DEF Undropped
<1>4. \A j \in 1..(step - 1) : s[j].op = "slice" => items[s[j].slot] = s[j].slot
  BY <1>3 DEF Staging
<1> HIDE DEF s
<1>5. ASSUME NEW i \in 1..Chunks PROVE items[<<"x", i>>][2] = i
  <2>1. PICK j \in 1..(step - 1) : s[j] = CopyInput(i)
    BY <1>2
  <2>2. s[j].op = "slice" /\ s[j].slot = <<"x", i>>
    BY <2>1 DEF CopyInput, Request
  <2>3. items[<<"x", i>>] = <<"x", i>>
    BY <1>4, <2>2
  <2> QED BY <2>3
<1> QED BY <1>5

-----------------------------------------------------------------------------
(* Every step keeps the invariant.                                         *)

USE DEF acquisition, transfer, actor, exchange, progress

LEMMA InitGraph == Init => GraphInv
<1> SUFFICES ASSUME Init PROVE GraphInv
  OBVIOUS
<1>1. Typed
  <2>1. route \in Routes /\ step \in 1..Len(Script(route))
    <3>1. route \in Routes /\ step = 1
      BY DEF Init, Routes
    <3>2. Len(Script(route)) \in Nat \ {0}
      BY <3>1, ScriptShape
    <3> QED BY <3>1, <3>2
  <2> QED BY <2>1 DEF Init, Typed, Mains, NoQkv
<1>2. Quiet /\ Cleared
  BY DEF Init, Quiet, Cleared
<1>3. Handshake
  BY <1>2 DEF Init, Handshake, Acquiring
<1>4. Staging
  <2>1. task # Asked
    BY <1>1, AskedTyped, OtherTasks DEF Init
  <2> QED BY <2>1 DEF Init, Staging, Running
<1>5. HeldInside
  BY DEF Init, HeldInside, NoQkv, Running
<1>6. ItemsExact /\ Written /\ GraphOutputWhole
  BY DEF Init, ItemsExact, Written, GraphOutputWhole, Acquiring, Running
<1> QED BY <1>1, <1>3, <1>4, <1>5, <1>6 DEF GraphInv

LEMMA SameAsked ==
  ASSUME route' = route, step' = step
  PROVE  Asked' = Asked /\ Script(route)' = Script(route)
BY DEF Asked

LEMMA BeginCallStep == GraphInv /\ BeginCall => GraphInv'
<1> SUFFICES ASSUME GraphInv, BeginCall PROVE GraphInv'
  OBVIOUS
<1>1. /\ main = "idle" /\ main' = "primary" /\ step' = 1 /\ route' \in Routes
      /\ candidate' = 1 /\ outcome' = "none"
      /\ target' = [i \in 1..Ranges |-> Nothing]
      /\ UNCHANGED <<workspace, exchange, transfer, actor>>
  BY DEF BeginCall, Routes
<1>2. Quiet /\ Cleared /\ workspace = 0
  BY <1>1 DEF GraphInv, Handshake
<1>3. Typed'
  <2>1. Len(Script(route')) \in Nat \ {0}
    BY <1>1, ScriptShape
  <2>2. step' \in 1..Len(Script(route'))
    BY <1>1, <2>1
  <2> QED BY <1>1, <2>2 DEF GraphInv, Typed, Mains
<1>4. Quiet' /\ Cleared'
  BY <1>1, <1>2 DEF Quiet, Cleared
<1>5. Handshake'
  BY <1>1, <1>2, <1>4 DEF Handshake, Acquiring
<1>6. Staging'
  <2>1. Asked' \in Asks
    BY <1>3, ScriptTyped DEF Asked, Typed
  <2>2. task' # Asked'
    BY <1>4, <2>1, OtherTasks DEF Quiet
  <2> QED BY <1>1, <2>2 DEF Staging, Running
<1>7. HeldInside' /\ ItemsExact'
  BY <1>1 DEF GraphInv, HeldInside, ItemsExact, Running
<1>8. Written' /\ GraphOutputWhole'
  BY <1>1 DEF Written, GraphOutputWhole, Running
<1> QED BY <1>3, <1>5, <1>6, <1>7, <1>8 DEF GraphInv

\* Acquisition touches nothing the worker or a copy uses.
LEMMA AcquireStep == GraphInv /\ Acquire => GraphInv'
<1> SUFFICES ASSUME GraphInv, Acquire PROVE GraphInv'
  OBVIOUS
<1>1. main \in Acquiring
  BY DEF Acquire, GiveUp, AllocatePrimary, SkipSplit, AcquireSecondary, AdmitOwned,
         RefuseOwned, AcquireRaises, Acquiring
<1>2. Quiet /\ Cleared /\ step = 1 /\ (main = "primary" => workspace = 0)
      /\ target = [i \in 1..Ranges |-> Nothing] /\ outcome = "none"
  BY <1>1 DEF GraphInv, Handshake, Written
<1>3. UNCHANGED <<progress, exchange, transfer, actor, target>>
  BY DEF Acquire, GiveUp, AllocatePrimary, SkipSplit, AcquireSecondary, AdmitOwned,
         RefuseOwned, AcquireRaises, Leave
<1>4. candidate \in Nat /\ workspace \in Nat
  BY DEF GraphInv, Typed
<1>5. /\ main' \in Acquiring \cup {"idle"} /\ candidate' \in Nat /\ workspace' \in Nat
      /\ main' \in {"idle", "primary"} => workspace' = 0
      /\ main' \in Acquiring => outcome' = outcome
      /\ main' = "pool" => workspace' # 0
      /\ outcome' \in {"none", "raised", "fallback"}
  <2>1. CASE GiveUp
    BY <1>2, <1>4, <2>1 DEF GiveUp, Leave, Acquiring
  <2>2. CASE AllocatePrimary
    BY <1>2, <1>4, <2>2 DEF AllocatePrimary, Acquiring
  <2>3. CASE SkipSplit
    BY <1>2, <1>4, <2>3 DEF SkipSplit, Acquiring
  <2>4. CASE AcquireSecondary
    BY <1>2, <1>4, <2>4 DEF AcquireSecondary, Acquiring
  <2>5. CASE AdmitOwned
    BY <1>2, <1>4, <2>5 DEF AdmitOwned, Acquiring
  <2>6. CASE RefuseOwned
    BY <1>2, <1>4, <2>6 DEF RefuseOwned, Acquiring
  <2>7. CASE AcquireRaises
    BY <1>2, <1>4, <2>7 DEF AcquireRaises, Leave, Acquiring
  <2> QED BY <2>1, <2>2, <2>3, <2>4, <2>5, <2>6, <2>7 DEF Acquire
<1>6. Typed'
  BY <1>3, <1>5 DEF GraphInv, Typed, Mains, Acquiring
<1>7. Quiet' /\ Cleared'
  BY <1>2, <1>3 DEF Quiet, Cleared
<1>8. Handshake'
  BY <1>2, <1>3, <1>5, <1>7 DEF Handshake, Acquiring
<1>9. Staging'
  <2>1. Asked' \in Asks
    BY <1>6, ScriptTyped DEF Asked, Typed
  <2>2. task' # Asked'
    BY <1>7, <2>1, OtherTasks DEF Quiet
  <2>3. main' \notin Running
    BY <1>5 DEF Acquiring, Running
  <2> QED BY <2>2, <2>3 DEF Staging
<1>10. HeldInside' /\ ItemsExact'
  BY <1>3, <1>5, <1>7 DEF GraphInv, HeldInside, ItemsExact, Cleared, NoQkv, Acquiring, Running
<1>11. Written' /\ GraphOutputWhole'
  <2>1. target' = [i \in 1..Ranges |-> Nothing]
    BY <1>2, <1>3
  <2>2. main' \notin Running
    BY <1>5 DEF Acquiring, Running
  <2>3. \A i \in 1..Ranges : target'[i] = Nothing
    BY <2>1
  <2> QED BY <1>2, <1>5, <2>1, <2>2, <2>3 DEF Written, GraphOutputWhole
<1> QED BY <1>6, <1>8, <1>9, <1>10, <1>11 DEF GraphInv

\* What keeps Staging while the script stays where it is.
LEMMA StagingKept ==
  ASSUME Typed, Staging, route' = route, step' = step,
         main' \in Running \/ task' = Asked => main \in Running \/ task = Asked,
         \A q \in {Put("out_weight")} : items[q.slot] = q.slot => items'[q.slot] = q.slot,
         Undropped' => Undropped /\ \A s \in Slots : items[s] = s => items'[s] = s,
         qkv.chunks \subseteq qkv'.chunks, qkv'.chunks \subseteq 1..Chunks
  PROVE  Staging'
<1>1. Asked' = Asked /\ Script(route)' = Script(route)
  BY SameAsked
<1>2. CASE ~(main' \in Running \/ task' = Asked')
  BY <1>2 DEF Staging
<1>3. CASE main' \in Running \/ task' = Asked'
  <2>1. main \in Running \/ task = Asked
    BY <1>1, <1>3
  <2> SUFFICES ASSUME NEW j \in 1..(step - 1), NEW q, q = Script(route)[j]
               PROVE  /\ q = Put("out_weight") => items'[q.slot] = q.slot
                      /\ q.op = "slice" /\ Undropped' => items'[q.slot] = q.slot
                      /\ q.op = "chunk" => q.slot[2] \in qkv'.chunks
                      /\ q.op = "qkv" => qkv'.chunks = 1..Chunks
    BY <1>1 DEF Staging
  <2>2. /\ q = Put("out_weight") => items[q.slot] = q.slot
        /\ q.op = "slice" /\ Undropped => items[q.slot] = q.slot
        /\ q.op = "chunk" => q.slot[2] \in qkv.chunks
        /\ q.op = "qkv" => qkv.chunks = 1..Chunks
    BY <2>1 DEF Staging
  <2>3. q.op = "slice" => q.slot \in Slots
    BY AskedTyped, AskTyped DEF Sends
  <2> QED BY <2>2, <2>3
<1> QED BY <1>2, <1>3

\* A request of the script on the worker is the one of this step.
LEMMA AtAsked ==
  ASSUME GraphInv, task.op \notin {"none", "reset", "free"}
  PROVE  task = Asked /\ WorkerAt /\ main \in {"compute", "await", "closing"}
<1>1. main \in Mains /\ Handshake
  BY DEF GraphInv, Typed
<1>2. task # NoTask /\ task # Plain("reset") /\ task # Plain("free")
  BY OtherTasks
<1>3. WorkerAt /\ main \in {"compute", "await", "closing"}
  BY <1>1, <1>2 DEF Handshake, Mains, Acquiring, Quiet
<1> QED BY <1>2, <1>3 DEF WorkerAt

LEMMA PreparePoolStep == GraphInv /\ PreparePool => GraphInv'
<1> SUFFICES ASSUME GraphInv, PreparePool PROVE GraphInv'
  OBVIOUS
<1>1. /\ main = "pool"
      /\ \/ main' = "fill" /\ outcome' = outcome
         \/ main' = "freeing" /\ outcome' \in {"fallback", "retry"}
      /\ UNCHANGED <<progress, acquisition, exchange, transfer, actor, target>>
  BY DEF PreparePool
<1>2. Quiet /\ Cleared /\ step = 1
  BY <1>1 DEF GraphInv, Handshake, Acquiring
<1>3. Typed'
  BY <1>1 DEF GraphInv, Typed, Mains
<1>4. Quiet' /\ Cleared'
  BY <1>1, <1>2 DEF Quiet, Cleared
<1>5. Handshake'
  BY <1>1, <1>4 DEF Handshake, Acquiring, Quiet, Leftover, Drained
<1>6. Staging' /\ HeldInside' /\ ItemsExact'
  <2>1. 1..(step' - 1) = {}
    BY <1>1, <1>2
  <2> QED BY <1>1, <1>2, <2>1 DEF Staging, GraphInv, HeldInside, ItemsExact, Running
<1>7. Written' /\ GraphOutputWhole'
  <2>1. target = [i \in 1..Ranges |-> Nothing] /\ outcome = "none"
    BY <1>1 DEF GraphInv, Written, Acquiring
  <2>2. 1..(step' - 1) = {}
    BY <1>1, <1>2
  <2>3. \A i \in 1..Ranges : target'[i] = Nothing
    BY <1>1, <2>1
  <2> QED BY <1>1, <2>1, <2>2, <2>3 DEF Written, GraphOutputWhole, Acquiring, Running
<1> QED BY <1>3, <1>5, <1>6, <1>7 DEF GraphInv

\* A copy that completes is the one under way for the request of this step;
\* it arrives where that request needs it.
LEMMA CopyStep == \A c \in flight : GraphInv /\ CopyCompletes(c) => GraphInv'
<1> SUFFICES ASSUME NEW c \in flight, GraphInv, CopyCompletes(c) PROVE GraphInv'
  OBVIOUS
<1>1. /\ UNCHANGED <<progress, main, acquisition, exchange, qkv, audio, stream, target, outcome>>
      /\ flight' = flight \ {c}
  BY DEF CopyCompletes
<1>2. Asked' = Asked /\ Script(route)' = Script(route)
  BY <1>1, SameAsked
<1>3. /\ Asked \in Asks
      /\ Sends(Asked) => Asked.slot \in Slots /\ Asked.buf \in Buffers
      /\ Sends(Asked) \/ Asked.op = "range" \/ Asked.op \notin {"put", "slice", "chunk", "range"}
  BY AskedTyped, AskTyped DEF GraphInv, Sends
<1>4. DOMAIN host = Buffers /\ DOMAIN items = Slots /\ main \in Mains
  BY DEF GraphInv, Typed
<1> DEFINE Filling == main = "filled" /\ c = ToHost("primary", Asked.slot, Asked.buf)
           Issued == /\ main \in {"compute", "await", "closing"}
                     /\ task = Asked /\ reply = "issued" /\ c = CopyOf(Asked)
                     /\ Asked.op \in {"put", "slice", "chunk", "range"} /\ Staged(Asked)
           Returning == main = "returning" /\ c = ToReturned
           Failed == /\ main \in {"compute", "await", "closing"}
                     /\ task = NoTask /\ reply \in {"error", "none"}
           Ending == main \in {"resetting", "freeing", "freed"}
<1>5. flight' = {} /\ (Filling \/ Issued \/ Returning \/ ((Failed \/ Ending) /\ Leftover))
  <2>1. CASE main = "filled"
    BY <1>1, <2>1 DEF GraphInv, Handshake
  <2>2. CASE main = "returning"
    BY <1>1, <2>2 DEF GraphInv, Handshake
  <2>3. CASE main \in {"compute", "await", "closing"}
    <3>1. WorkerAt \/ (main = "closing" /\ task = NoTask /\ reply = "none" /\ Leftover)
      BY <2>3 DEF GraphInv, Handshake
    <3>2. CASE Leftover
      <4>1. flight' = {}
        BY <1>1, <3>2 DEF Leftover
      <4> QED BY <2>3, <3>1, <3>2, <4>1 DEF WorkerAt
    <3>3. CASE ~Leftover
      BY <1>1, <2>3, <3>1, <3>3 DEF WorkerAt
    <3> QED BY <3>2, <3>3
  <2>4. CASE main \in {"resetting", "freeing", "freed"}
    <3>1. Leftover
      BY <2>4 DEF GraphInv, Handshake
    <3>2. flight' = {}
      BY <1>1, <3>1 DEF Leftover
    <3> QED BY <2>4, <3>1, <3>2
  <2>5. CASE main \in Acquiring \cup {"idle", "fill"}
    BY <2>5 DEF GraphInv, Handshake, Quiet
  <2> QED BY <1>4, <2>1, <2>2, <2>3, <2>4, <2>5 DEF Mains, Acquiring
\* Enough for every conjunct but Handshake.
<1>6. ASSUME DOMAIN host' = Buffers, DOMAIN items' = Slots,
             \A s \in Slots : items'[s] \in {items[s], s}, Handshake'
      PROVE  GraphInv'
  <2>1. Typed'
    BY <1>1, <1>2, <1>6 DEF GraphInv, Typed
  <2>2. Staging'
    <3>1. \A q \in {Put("out_weight")} : q.slot \in Slots
      BY DEF Put, Request, Slots, Weights
    <3>2. Undropped' => Undropped
      BY <1>1, <1>2 DEF Undropped
    <3> QED BY <1>1, <1>2, <1>6, <3>1, <3>2, StagingKept DEF GraphInv, Typed
  <2>3. HeldInside' /\ GraphOutputWhole'
    BY <1>1 DEF GraphInv, HeldInside, GraphOutputWhole
  <2>4. ItemsExact'
    BY <1>6 DEF GraphInv, ItemsExact
  <2>5. Written'
    BY <1>1, <1>2 DEF GraphInv, Written
  <2> QED BY <1>6, <2>1, <2>2, <2>3, <2>4, <2>5 DEF GraphInv
<1>7. CASE Filling
  <2>1. /\ Sends(Asked) /\ task = NoTask /\ reply = "none"
        /\ c.kind = "to host" /\ c.buf = Asked.buf /\ c.content = Asked.slot
    BY <1>7 DEF GraphInv, Handshake, ToHost
  <2>2. host' = [host EXCEPT ![Asked.buf] = Asked.slot] /\ UNCHANGED items
    BY <2>1 DEF CopyCompletes
  <2>3. Staged(Asked)'
    BY <1>2, <1>3, <1>4, <2>2 DEF Staged
  <2>4. Handshake'
    BY <1>1, <1>2, <1>5, <1>7, <2>1, <2>3 DEF Handshake, Acquiring, Sends
  <2> QED BY <1>4, <1>6, <2>2, <2>4
<1>8. CASE Issued /\ Sends(Asked)
  <2>1. c.kind = "to device" /\ c.buf = Asked.buf /\ c.content = Asked.slot
    BY <1>8 DEF CopyOf, ToDevice
  <2>2. /\ items' = [items EXCEPT ![Asked.slot] = Asked.slot]
        /\ UNCHANGED <<host, returned>>
    BY <1>8, <2>1 DEF CopyCompletes, Staged
  <2>3. Arrived(Asked)' /\ Staged(Asked)'
    BY <1>2, <1>3, <1>4, <1>8, <2>2 DEF Arrived, Staged, Sends
  <2>4. WorkerAt'
    BY <1>1, <1>2, <1>5, <1>8, <2>3 DEF WorkerAt
  <2>5. Handshake'
    BY <1>1, <1>8, <2>4 DEF Handshake, Acquiring
  <2> QED BY <1>4, <1>6, <2>2, <2>5
<1>9. CASE Issued /\ ~Sends(Asked)
  <2>1. Asked.op = "range" /\ c.kind = "to host" /\ c.buf = "partial" /\ c.content = Asked.slot
    <3>1. Asked.op = "range"
      BY <1>9 DEF Sends
    <3>2. c = ToHost("secondary", Asked.slot, Asked.buf)
      BY <1>9 DEF CopyOf
    <3>3. Asked.buf = "partial"
      BY <1>3, <3>1, AskTyped DEF ComputeRange, Request
    <3> QED BY <3>1, <3>2, <3>3 DEF ToHost
  <2>2. host' = [host EXCEPT !["partial"] = Asked.slot] /\ UNCHANGED items
    BY <2>1 DEF CopyCompletes
  <2>3. Arrived(Asked)' /\ Staged(Asked)'
    BY <1>2, <1>4, <1>9, <2>1, <2>2 DEF Arrived, Staged, Sends, Buffers
  <2>4. WorkerAt'
    BY <1>1, <1>2, <1>5, <1>9, <2>3 DEF WorkerAt
  <2>5. Handshake'
    BY <1>1, <1>9, <2>4 DEF Handshake, Acquiring
  <2> QED BY <1>4, <1>6, <2>2, <2>5
<1>10. CASE Returning
  <2>1. /\ c.kind = "to returned" /\ c.buf = "partial"
        /\ task = NoTask /\ reply = "none" /\ Asked.op = "range"
        /\ host["partial"] = Asked.slot
    BY <1>10 DEF GraphInv, Handshake, ToReturned
  <2>2. returned' = Asked.slot /\ UNCHANGED <<host, items>>
    BY <2>1 DEF CopyCompletes
  <2>3. Handshake'
    BY <1>1, <1>2, <1>5, <1>10, <2>1, <2>2 DEF Handshake, Acquiring
  <2> QED BY <1>4, <1>6, <2>2, <2>3
\* A copy that a failed step has left under way disturbs nothing that is read.
<1>11. CASE (Failed \/ Ending) /\ Leftover
  <2>1. c \in {ToHost("primary", Asked.slot, Asked.buf), ToReturned, CopyOf(Asked)}
    BY <1>11 DEF Leftover
  <2>2. CASE c.kind = "to device"
    <3>1. c = CopyOf(Asked) /\ Sends(Asked) /\ Staged(Asked)
      <4>1. c # ToHost("primary", Asked.slot, Asked.buf) /\ c # ToReturned
        <5>1. /\ ToHost("primary", Asked.slot, Asked.buf).kind = "to host"
              /\ ToReturned.kind = "to returned"
          BY DEF ToHost, ToReturned
        <5> QED BY <2>2, <5>1
      <4>2. c = CopyOf(Asked) /\ Staged(Asked)
        BY <1>11, <2>1, <4>1 DEF Leftover
      <4> QED BY <2>2, <4>2 DEF CopyOf, ToHost
    <3>2. c.buf = Asked.buf /\ c.content = Asked.slot /\ c.device = "secondary"
      BY <3>1 DEF CopyOf, ToDevice
    <3>3. /\ items' = [items EXCEPT ![Asked.slot] = Asked.slot]
          /\ UNCHANGED <<host, returned>>
      BY <2>2, <3>1, <3>2 DEF CopyCompletes, Staged
    <3>4. ~Drained("secondary")
      BY <3>2 DEF Drained
    <3>5. \/ Failed
          \/ main = "resetting" /\ task = Plain("reset") /\ reply = "none"
      BY <1>11, <3>4 DEF GraphInv, Handshake
    <3>6. Leftover'
      BY <1>5 DEF Leftover
    <3>7. Failed => (reply = "error" \/ main = "closing")
      BY <1>3, OtherTasks DEF GraphInv, Handshake, WorkerAt
    <3>8. Handshake'
      BY <1>1, <1>2, <3>5, <3>6, <3>7 DEF Handshake, Acquiring, WorkerAt
    <3> QED BY <1>3, <1>4, <1>6, <3>1, <3>3, <3>8
  <2>3. CASE c.kind # "to device"
    <3>1. UNCHANGED items /\ DOMAIN host' = Buffers
      BY <1>4, <2>3 DEF CopyCompletes
    <3>2. Leftover' /\ Drained("secondary")'
      BY <1>5 DEF Leftover, Drained
    <3>3. Cleared => Cleared'
      BY <1>1, <3>1 DEF Cleared
    <3>4. Failed => (reply = "error" \/ main = "closing")
      BY <1>3, OtherTasks DEF GraphInv, Handshake, WorkerAt
    <3>5. ASSUME Failed PROVE Handshake'
      <4>1. /\ main' \in {"compute", "await", "closing"} /\ task' = NoTask
            /\ reply' = "error" \/ (main' = "closing" /\ reply' = "none")
        BY <1>1, <3>4, <3>5
      <4> QED BY <3>2, <4>1 DEF Handshake, Acquiring, WorkerAt
    <3>6. ASSUME Ending PROVE Handshake'
      <4>1. UNCHANGED <<main, task, reply, workspace>>
        BY <1>1
      <4> QED BY <3>2, <3>3, <3>6, <4>1 DEF GraphInv, Handshake, Acquiring
    <3> QED BY <1>4, <1>6, <1>11, <3>1, <3>5, <3>6
  <2> QED BY <2>2, <2>3
<1> QED BY <1>5, <1>7, <1>8, <1>9, <1>10, <1>11

LEMMA WorkerIssuesStep == GraphInv /\ WorkerIssues => GraphInv'
<1> SUFFICES ASSUME GraphInv, WorkerIssues PROVE GraphInv'
  OBVIOUS
<1>1. /\ UNCHANGED <<progress, main, acquisition, task, host, returned, actor, target, outcome>>
      /\ task.op \in {"put", "slice", "chunk", "range"} /\ reply = "none" /\ reply' = "issued"
  BY DEF WorkerIssues
<1>2. Asked' = Asked /\ Script(route)' = Script(route)
  BY <1>1, SameAsked
<1>3. task = Asked /\ WorkerAt /\ main \in {"compute", "await", "closing"}
  BY <1>1, AtAsked
<1>4. flight = {} /\ Staged(Asked)
  BY <1>1, <1>3 DEF WorkerAt
<1>5. flight' = {CopyOf(Asked)}
  BY <1>3, <1>4 DEF WorkerIssues, CopyOf
<1>6. Typed' /\ HeldInside' /\ ItemsExact' /\ Written' /\ GraphOutputWhole'
  BY <1>1, <1>2 DEF GraphInv, Typed, HeldInside, ItemsExact, Written, GraphOutputWhole
<1>7. WorkerAt'
  <2>1. CopyOf(Asked)' = CopyOf(Asked) /\ Staged(Asked)'
    BY <1>1, <1>2, <1>4 DEF CopyOf, Staged, Sends, ToDevice, ToHost
  <2> QED BY <1>1, <1>2, <1>3, <1>5, <2>1 DEF WorkerAt
<1>8. Handshake'
  BY <1>1, <1>3, <1>7 DEF Handshake, Acquiring
<1>9. Staging'
  <2>1. Undropped' => Undropped
    BY <1>1, <1>2 DEF Undropped
  <2> QED BY <1>1, <1>2, <1>3, <2>1, StagingKept DEF GraphInv, Typed
<1> QED BY <1>6, <1>8, <1>9 DEF GraphInv

LEMMA WorkerDrainsStep == GraphInv /\ WorkerDrains => GraphInv'
<1> SUFFICES ASSUME GraphInv, WorkerDrains PROVE GraphInv'
  OBVIOUS
<1>1. /\ UNCHANGED <<progress, main, acquisition, transfer, items, audio, stream, target, outcome>>
      /\ reply = "issued" /\ Drained("secondary") /\ reply' = "ok" /\ task' = NoTask
  BY DEF WorkerDrains, Answer
<1>2. Asked' = Asked /\ Script(route)' = Script(route)
  BY <1>1, SameAsked
<1>3. /\ main \in {"compute", "await", "closing"} /\ task = Asked
      /\ flight \subseteq {CopyOf(Asked)} /\ (flight = {} => Arrived(Asked))
  <2>1. main \in Mains
    BY DEF GraphInv, Typed
  <2> QED BY <1>1, <2>1 DEF GraphInv, Handshake, WorkerAt, Mains, Acquiring, Quiet
<1>4. Asked \in Asks /\ qkv.chunks \subseteq 1..Chunks /\ workspace # 0
  BY <1>3, AskedTyped DEF GraphInv, Typed, HeldInside, Running
<1>5. flight = {} /\ Arrived(Asked)
  <2>1. CopyOf(Asked).device = "secondary"
    BY DEF CopyOf, ToDevice, ToHost
  <2> QED BY <1>1, <1>3, <2>1 DEF Drained
<1>6. /\ qkv' \in [held : BOOLEAN, chunks : SUBSET (1..Chunks)]
      /\ qkv.chunks \subseteq qkv'.chunks
      /\ Asked.op = "chunk" => Asked.slot[2] \in qkv'.chunks
      /\ Asked.op = "qkv" => FALSE
  <2>1. CASE Asked.op = "chunk"
    <3>1. PICK i \in 1..Chunks : Asked.slot = <<"x", i>>
      BY <1>4, <2>1, AskTyped
    <3>2. items[Asked.slot][2] = i
      BY <1>5, <2>1, <3>1 DEF Arrived, Sends
    <3>3. qkv' = [held |-> TRUE, chunks |-> qkv.chunks \cup {i}]
      BY <1>3, <2>1, <3>2 DEF WorkerDrains
    <3> QED BY <1>4, <2>1, <3>1, <3>3
  <2>2. CASE Asked.op # "chunk"
    <3>1. qkv' = qkv
      BY <1>3, <2>2 DEF WorkerDrains
    <3>2. Asked.op # "qkv"
      BY <1>1, <1>3, OtherTasks, AskTyped, <1>4, AtAsked DEF WorkerAt
    <3> QED BY <2>2, <3>1, <3>2 DEF GraphInv, Typed
  <2> QED BY <2>1, <2>2
<1>7. Typed' /\ HeldInside' /\ ItemsExact' /\ Written' /\ GraphOutputWhole'
  BY <1>1, <1>2, <1>4, <1>6
     DEF GraphInv, Typed, HeldInside, ItemsExact, Written, GraphOutputWhole
<1>8. Effect(Asked)'
  BY <1>1, <1>2, <1>5, <1>6 DEF Effect, Arrived, Sends
<1>9. Handshake'
  BY <1>1, <1>3, <1>5, <1>8 DEF Handshake, Acquiring, WorkerAt
<1>10. Staging'
  <2>1. Undropped' => Undropped
    BY <1>1, <1>2, <1>6, <1>3, <1>4, OtherTasks, AskTyped DEF Undropped, Drops
  <2> QED BY <1>1, <1>2, <1>3, <1>6, <2>1, StagingKept DEF GraphInv
<1> QED BY <1>7, <1>9, <1>10 DEF GraphInv

\* A method that copies nothing.
LEMMA WorkerComputesStep == GraphInv /\ WorkerComputes => GraphInv'
<1> SUFFICES ASSUME GraphInv, WorkerComputes PROVE GraphInv'
  OBVIOUS
<1>1. /\ UNCHANGED <<progress, main, acquisition, transfer, target, outcome>>
      /\ reply = "none" /\ reply' = "ok" /\ task' = NoTask
  BY DEF WorkerComputes, Answer
<1>2. Asked' = Asked /\ Script(route)' = Script(route)
  BY <1>1, SameAsked
<1>3. /\ qkv \in [held : BOOLEAN, chunks : SUBSET (1..Chunks)]
      /\ audio \in BOOLEAN /\ stream \in BOOLEAN /\ DOMAIN items = Slots /\ Asked \in Asks
      /\ main \in Mains
  BY AskedTyped DEF GraphInv, Typed
\* Enough for every conjunct but Handshake and Staging.
<1>4. ASSUME qkv' \in [held : BOOLEAN, chunks : SUBSET (1..Chunks)],
             audio' \in BOOLEAN, stream' \in BOOLEAN, DOMAIN items' = Slots,
             \A s \in Slots : items'[s] \in {items[s], Nothing},
             qkv'.held => workspace # 0, Handshake', Staging'
      PROVE  GraphInv'
  BY <1>1, <1>2, <1>4
     DEF GraphInv, Typed, HeldInside, ItemsExact, Written, GraphOutputWhole
<1>5. task.op \in {"adopt", "qkv", "release", "allocate", "audio", "stream"}
  BY DEF WorkerComputes
<1>6. task = Asked /\ WorkerAt /\ main \in {"compute", "await", "closing"}
  BY <1>5, AtAsked
<1>7. flight = {} /\ workspace # 0
  BY <1>1, <1>6 DEF WorkerAt, GraphInv, HeldInside, Running
<1>8. ASSUME task.op = "qkv" => qkv'.chunks = 1..Chunks PROVE Handshake'
  <2>1. Effect(Asked)'
    BY <1>2, <1>5, <1>6, <1>8 DEF Effect, Arrived, Sends
  <2>2. WorkerAt'
    BY <1>1, <1>7, <2>1 DEF WorkerAt
  <2> QED BY <1>1, <1>6, <2>2 DEF Handshake, Acquiring
<1>9. Undropped' => Undropped /\ task.op \notin Drops
  BY <1>1, <1>2, <1>6 DEF Undropped
<1>10. CASE task.op = "adopt"
  <2>1. qkv' = [held |-> TRUE, chunks |-> {}] /\ UNCHANGED <<items, audio, stream>>
    BY <1>10 DEF WorkerComputes
  <2>2. Staging'
    <3>1. step' = 1
      BY <1>1, <1>6, <1>10, AskedTyped DEF GraphInv
    <3>2. 1..(step' - 1) = {}
      BY <3>1
    <3> QED BY <3>2 DEF Staging
  <2> QED BY <1>3, <1>4, <1>7, <1>8, <1>10, <2>1, <2>2
<1>11. CASE task.op = "qkv"
  <2>1. /\ qkv' = [held |-> TRUE, chunks |-> {items[<<"x", i>>][2] : i \in 1..Chunks}]
        /\ DropInputs /\ UNCHANGED <<audio, stream>>
    BY <1>11 DEF WorkerComputes
  <2>2. {items[<<"x", i>>][2] : i \in 1..Chunks} = 1..Chunks
    BY <1>1, <1>6, <1>11, InputsReady DEF GraphInv
  <2>3. qkv' = [held |-> TRUE, chunks |-> 1..Chunks]
    BY <2>1, <2>2
  <2>4. Staging'
    <3>1. items'[<<"out_weight", 1>>] = items[<<"out_weight", 1>>]
      BY <2>1 DEF DropInputs, Slots, Weights
    <3>2. \A q \in {Put("out_weight")} : q.slot = <<"out_weight", 1>>
      BY DEF Put, Request
    <3>3. qkv.chunks \subseteq qkv'.chunks /\ qkv'.chunks \subseteq 1..Chunks
      BY <1>3, <2>3
    <3> QED BY <1>1, <1>6, <1>9, <1>11, <3>1, <3>2, <3>3, StagingKept DEF GraphInv, Drops
  <2>5. qkv' \in [held : BOOLEAN, chunks : SUBSET (1..Chunks)] /\ Handshake'
    BY <1>8, <2>3
  <2>6. DOMAIN items' = Slots /\ \A s \in Slots : items'[s] \in {items[s], Nothing}
    BY <2>1 DEF DropInputs
  <2> QED BY <1>3, <1>4, <1>7, <2>1, <2>4, <2>5, <2>6
<1>12. CASE task.op = "release"
  <2>1. DropInputs /\ UNCHANGED <<qkv, audio, stream>>
    BY <1>12 DEF WorkerComputes
  <2>2. Staging'
    <3>1. items'[<<"out_weight", 1>>] = items[<<"out_weight", 1>>]
      BY <2>1 DEF DropInputs, Slots, Weights
    <3>2. \A q \in {Put("out_weight")} : q.slot = <<"out_weight", 1>>
      BY DEF Put, Request
    <3> QED BY <1>1, <1>3, <1>6, <1>9, <1>12, <2>1, <3>1, <3>2, StagingKept DEF GraphInv, Drops
  <2> QED BY <1>3, <1>4, <1>7, <1>8, <1>12, <2>1, <2>2 DEF DropInputs
<1>13. CASE task.op \in {"allocate", "audio", "stream"}
  <2>1. UNCHANGED <<items, qkv>> /\ audio' \in BOOLEAN /\ stream' \in BOOLEAN
    BY <1>3, <1>13 DEF WorkerComputes
  <2>2. Staging'
    BY <1>1, <1>3, <1>6, <1>9, <2>1, StagingKept DEF GraphInv
  <2> QED BY <1>3, <1>4, <1>7, <1>8, <1>13, <2>1, <2>2
<1> QED BY <1>5, <1>10, <1>11, <1>12, <1>13

LEMMA WorkerRaisesStep == GraphInv /\ WorkerRaises => GraphInv'
<1> SUFFICES ASSUME GraphInv, WorkerRaises PROVE GraphInv'
  OBVIOUS
<1>1. /\ UNCHANGED <<progress, main, acquisition, transfer, actor, target, outcome>>
      /\ task.op \notin {"none", "reset", "free"}
      /\ reply \in {"none", "issued"} /\ reply' = "error" /\ task' = NoTask
  BY DEF WorkerRaises, Answer
<1>2. Asked' = Asked /\ Script(route)' = Script(route)
  BY <1>1, SameAsked
<1>3. task = Asked /\ WorkerAt /\ main \in {"compute", "await", "closing"}
  BY <1>1, AtAsked
<1>4. Typed' /\ HeldInside' /\ ItemsExact' /\ Written' /\ GraphOutputWhole'
  BY <1>1, <1>2 DEF GraphInv, Typed, HeldInside, ItemsExact, Written, GraphOutputWhole
<1>5. Handshake'
  <2>1. Leftover
    BY <1>1, <1>3, OtherTasks DEF WorkerAt, Leftover
  <2>2. Leftover'
    BY <1>1, <1>2, <2>1 DEF Leftover, Staged, Sends, CopyOf, ToHost, ToDevice
  <2> QED BY <1>1, <1>3, <2>2 DEF WorkerAt, Handshake, Acquiring
<1>6. Staging'
  <2>1. Asked.op \notin Drops \/ reply = "none"
    BY <1>1, <1>3, OtherTasks DEF WorkerAt, Drops
  <2>2. Undropped' => Undropped
    BY <1>1, <1>2, <2>1 DEF Undropped
  <2> QED BY <1>1, <1>3, <2>2, StagingKept DEF GraphInv, Typed
<1> QED BY <1>4, <1>5, <1>6 DEF GraphInv

\* The worker resets the actor when nothing it has issued is under way.
LEMMA WorkerResetsStep == GraphInv /\ WorkerResets => GraphInv'
<1> SUFFICES ASSUME GraphInv, WorkerResets PROVE GraphInv'
  OBVIOUS
<1>1. /\ UNCHANGED <<progress, main, acquisition, transfer, target, outcome>>
      /\ task.op = "reset" /\ reply = "none" /\ Drained("secondary")
      /\ reply' \in {"ok", "error"} /\ task' = NoTask
      /\ items' = [s \in Slots |-> Nothing]
      /\ qkv' = NoQkv /\ audio' = FALSE /\ stream' = FALSE
  BY DEF WorkerResets, DropActor
<1>2. Asked' = Asked /\ Script(route)' = Script(route)
  BY <1>1, SameAsked
<1>3. Asked \in Asks /\ main \in Mains
  BY AskedTyped DEF GraphInv, Typed
<1>4. main = "resetting" /\ Leftover
  <2>1. task # NoTask /\ task # Asked /\ task # Plain("free")
    BY <1>1, <1>3, AskTyped, OtherTasks
  <2> QED BY <1>1, <1>3, <2>1 DEF GraphInv, Handshake, WorkerAt, Mains, Acquiring, Quiet
<1>5. Typed' /\ HeldInside' /\ ItemsExact' /\ Written' /\ GraphOutputWhole'
  BY <1>1, <1>2, <1>4
     DEF GraphInv, Typed, HeldInside, ItemsExact, Written, GraphOutputWhole, NoQkv
<1>6. Cleared' /\ Leftover' /\ Drained("secondary")'
  BY <1>1, <1>2, <1>4
     DEF Cleared, Leftover, Drained, Staged, Sends, CopyOf, ToHost, ToDevice
<1>7. Handshake'
  BY <1>1, <1>4, <1>6 DEF Handshake, Acquiring
<1>8. Staging'
  <2>1. task' # Asked'
    BY <1>1, <1>2, <1>3, OtherTasks
  <2> QED BY <1>1, <1>4, <2>1 DEF Staging, Running
<1> QED BY <1>5, <1>7, <1>8 DEF GraphInv

LEMMA WorkerFreesStep == GraphInv /\ WorkerFrees => GraphInv'
<1> SUFFICES ASSUME GraphInv, WorkerFrees PROVE GraphInv'
  OBVIOUS
<1>1. /\ UNCHANGED <<progress, main, candidate, trimmed, transfer, actor, target, outcome>>
      /\ task.op = "free" /\ workspace' = 0
      /\ reply = "none" /\ reply' \in {"ok", "error"} /\ task' = NoTask
  BY DEF WorkerFrees
<1>2. Asked' = Asked /\ Script(route)' = Script(route)
  BY <1>1, SameAsked
<1>3. Asked \in Asks /\ main \in Mains
  BY AskedTyped DEF GraphInv, Typed
<1>4. main = "freed" /\ Leftover /\ Drained("secondary") /\ Cleared
  <2>1. task # NoTask /\ task # Asked /\ task # Plain("reset")
    BY <1>1, <1>3, AskTyped, OtherTasks
  <2> QED BY <1>1, <1>3, <2>1 DEF GraphInv, Handshake, WorkerAt, Mains, Acquiring, Quiet
<1>5. Typed' /\ ItemsExact' /\ Written' /\ GraphOutputWhole'
  BY <1>1, <1>2 DEF GraphInv, Typed, ItemsExact, Written, GraphOutputWhole
<1>6. Cleared' /\ HeldInside' /\ Leftover' /\ Drained("secondary")'
  BY <1>1, <1>2, <1>4 DEF Cleared, HeldInside, NoQkv, Running, Leftover, Drained, Staged,
     Sends, CopyOf, ToHost, ToDevice
<1>7. Handshake'
  BY <1>1, <1>4, <1>6 DEF Handshake, Acquiring
<1>8. Staging'
  <2>1. task' # Asked'
    BY <1>1, <1>2, <1>3, OtherTasks
  <2> QED BY <1>1, <1>4, <2>1 DEF Staging, Running
<1> QED BY <1>5, <1>6, <1>7, <1>8 DEF GraphInv

\* The main thread fills a buffer while nothing uses it.
LEMMA FillBufferStep == GraphInv /\ FillBuffer => GraphInv'
<1> SUFFICES ASSUME GraphInv, FillBuffer PROVE GraphInv'
  OBVIOUS
<1>1. /\ UNCHANGED <<progress, acquisition, exchange, host, returned, actor, target, outcome>>
      /\ main = "fill" /\ main' = "filled" /\ Sends(Asked)
      /\ flight' = flight \cup {ToHost("primary", Asked.slot, Asked.buf)}
  BY DEF FillBuffer
<1>2. Asked' = Asked /\ Script(route)' = Script(route)
  BY <1>1, SameAsked
<1>3. Quiet
  BY <1>1 DEF GraphInv, Handshake
<1>4. Typed' /\ HeldInside' /\ ItemsExact' /\ Written' /\ GraphOutputWhole'
  BY <1>1, <1>2
     DEF GraphInv, Typed, HeldInside, ItemsExact, Written, GraphOutputWhole, Mains, Running,
         Acquiring
<1>5. Handshake'
  BY <1>1, <1>2, <1>3 DEF Quiet, Handshake, Acquiring, Sends
<1>6. Staging'
  <2>1. Undropped' => Undropped
    BY <1>1, <1>2 DEF Undropped
  <2>2. main \in Running
    BY <1>1 DEF Running
  <2> QED BY <1>1, <2>1, <2>2, StagingKept DEF GraphInv, Typed
<1> QED BY <1>4, <1>5, <1>6 DEF GraphInv

LEMMA SubmitStep == GraphInv /\ Submit => GraphInv'
<1> SUFFICES ASSUME GraphInv, Submit PROVE GraphInv'
  OBVIOUS
<1>1. /\ UNCHANGED <<progress, acquisition, transfer, actor, target, outcome>>
      /\ main \in {"fill", "filled"} /\ main' \in {"compute", "await"}
      /\ task' = Asked /\ reply' = "none"
  BY DEF Submit
<1>2. Asked' = Asked /\ Script(route)' = Script(route)
  BY <1>1, SameAsked
<1>3. flight = {} /\ Staged(Asked) /\ reply = "none"
  <2>1. CASE main = "fill"
    BY <2>1 DEF Submit, GraphInv, Handshake, Quiet, Staged
  <2>2. CASE main = "filled"
    <3>1. ToHost("primary", Asked.slot, Asked.buf).device = "primary"
      BY DEF ToHost
    <3>2. /\ flight \subseteq {ToHost("primary", Asked.slot, Asked.buf)}
          /\ flight = {} => Staged(Asked)
          /\ reply = "none"
      BY <2>2 DEF GraphInv, Handshake
    <3>3. Drained("primary")
      BY <2>2 DEF Submit
    <3> QED BY <3>1, <3>2, <3>3 DEF Drained
  <2> QED BY <1>1, <2>1, <2>2
<1>4. Typed' /\ HeldInside' /\ ItemsExact' /\ Written' /\ GraphOutputWhole'
  BY <1>1, <1>2
     DEF GraphInv, Typed, HeldInside, ItemsExact, Written, GraphOutputWhole, Mains, Running,
         Acquiring
<1>5. WorkerAt'
  BY <1>1, <1>2, <1>3 DEF WorkerAt, Staged, Sends
<1>6. Handshake'
  BY <1>1, <1>5 DEF Handshake, Acquiring
<1>7. Staging'
  <2>1. Undropped' => Undropped
    BY <1>1, <1>2, <1>3 DEF Undropped
  <2>2. main \in Running
    BY <1>1 DEF Running
  <2> QED BY <1>1, <2>1, <2>2, StagingKept DEF GraphInv, Typed
<1> QED BY <1>4, <1>6, <1>7 DEF GraphInv

LEMMA ComputeOwnStep == GraphInv /\ ComputeOwn => GraphInv'
<1> SUFFICES ASSUME GraphInv, ComputeOwn PROVE GraphInv'
  OBVIOUS
<1>1. /\ UNCHANGED <<progress, acquisition, exchange, transfer, actor, target, outcome>>
      /\ main = "compute" /\ main' = "await"
  BY DEF ComputeOwn
<1>2. Asked' = Asked /\ Script(route)' = Script(route)
  BY <1>1, SameAsked
<1>3. Typed' /\ HeldInside' /\ ItemsExact' /\ Written' /\ GraphOutputWhole'
  BY <1>1, <1>2
     DEF GraphInv, Typed, HeldInside, ItemsExact, Written, GraphOutputWhole, Mains, Running,
         Acquiring
<1>4. WorkerAt
  BY <1>1 DEF GraphInv, Handshake
<1>5. WorkerAt'
  BY <1>1, <1>2, <1>4
     DEF WorkerAt, Leftover, Staged, Arrived, Effect, Sends, CopyOf, ToHost, ToDevice
<1>6. Handshake'
  BY <1>1, <1>5 DEF Handshake, Acquiring
<1>7. Staging'
  <2>1. Undropped' => Undropped
    BY <1>1, <1>2 DEF Undropped
  <2>2. main \in Running
    BY <1>1 DEF Running
  <2> QED BY <1>1, <2>1, <2>2, StagingKept DEF GraphInv, Typed
<1> QED BY <1>3, <1>6, <1>7 DEF GraphInv

\* The next request, or the end of the script: what this step left behind and
\* wrote joins what is asserted of the steps before.
LEMMA AdvanceStep ==
  ASSUME GraphInv, Advance, main \in {"await", "returning"},
         UNCHANGED <<calls, route, acquisition, task, transfer, actor>>,
         task = NoTask, reply' = "none", flight = {}, Effect(Asked),
         DOMAIN target' = 1..Ranges,
         \A i \in 1..Ranges : target'[i] \in {target[i], PartialOf(i)},
         Asked.op = "range" => target'[Asked.slot[2]] = Asked.slot
  PROVE  GraphInv'
<1> DEFINE s == Script(route)
<1>1. /\ route' = route /\ step \in 1..Len(s) /\ Len(s) \in Nat /\ route \in Routes
      /\ Asked = s[step] /\ Asked \in Asks /\ \A j \in 1..(step - 1) : s[j] \in Asks
      /\ \A i \in 1..Ranges : Has(s, ComputeRange(i))
  BY ScriptShape, AskedTyped DEF GraphInv, Typed, Asked
<1>2. Quiet'
  BY DEF Quiet
<1>3. main \in Running /\ outcome = "none"
  BY DEF GraphInv, Written, Running, Acquiring
<1>4. /\ \A i \in 1..Ranges : target'[i] \in {Nothing, PartialOf(i)}
      /\ \A j \in 1..step : s[j].op = "range" => target'[s[j].slot[2]] = s[j].slot
  <2>1. \A i \in 1..Ranges : target'[i] \in {Nothing, PartialOf(i)}
    BY DEF GraphInv, Written
  <2>2. ASSUME NEW j \in 1..(step - 1), s[j].op = "range"
        PROVE  target'[s[j].slot[2]] = s[j].slot
    <3>1. PICK i \in 1..Ranges : s[j] = ComputeRange(i)
      BY <1>1, <2>2, AskTyped
    <3>2. s[j].slot = PartialOf(i) /\ s[j].slot[2] = i
      BY <3>1 DEF ComputeRange, Request, PartialOf
    <3>3. target[s[j].slot[2]] = s[j].slot
      BY <1>3, <2>2 DEF GraphInv, Written
    <3> QED BY <3>2, <3>3
  <2>3. \A j \in 1..step : j = step \/ j \in 1..(step - 1)
    BY <1>1
  <2> QED BY <1>1, <2>1, <2>2, <2>3
<1>5. HeldInside' /\ ItemsExact'
  BY <1>3 DEF GraphInv, HeldInside, ItemsExact, Advance, Running
<1>6. CASE step < Len(s)
  <2>1. step' = step + 1 /\ main' = "fill" /\ outcome' = outcome
    BY <1>6 DEF Advance
  <2>2. step' - 1 = step /\ step' \in 1..Len(s)
    BY <1>1, <1>6, <2>1
  <2>3. Typed'
    BY <1>1, <2>1, <2>2 DEF GraphInv, Typed, Mains
  <2>4. Handshake'
    BY <1>2, <2>1 DEF Handshake, Acquiring
  <2>5. Staging'
    <3>1. Script(route)' = s /\ Asked' = s[step']
      BY <1>1 DEF Asked
    <3>2. Undropped' => Undropped /\ Asked.op \notin Drops
      <4>1. Undropped' => \A j \in 1..step : s[j].op \notin Drops
        BY <2>2, <3>1 DEF Undropped
      <4>2. step \in 1..step /\ \A j \in 1..(step - 1) : j \in 1..step
        BY <1>1
      <4>3. (\A j \in 1..step : s[j].op \notin Drops) => Undropped /\ Asked.op \notin Drops
        BY <1>1, <4>2 DEF Undropped
      <4> QED BY <4>1, <4>3
    <3> SUFFICES ASSUME NEW j \in 1..step, NEW q, q = s[j]
                 PROVE  /\ q = Put("out_weight") => items[q.slot] = q.slot
                        /\ q.op = "slice" /\ Undropped' => items[q.slot] = q.slot
                        /\ q.op = "chunk" => q.slot[2] \in qkv.chunks
                        /\ q.op = "qkv" => qkv.chunks = 1..Chunks
      BY <2>2, <3>1 DEF Staging
    <3>3. CASE j = step
      BY <1>1, <3>3 DEF Effect, Arrived, Sends, Put, Request
    <3>4. CASE j \in 1..(step - 1)
      BY <1>3, <3>2, <3>4 DEF GraphInv, Staging
    <3> QED BY <1>1, <3>3, <3>4
  <2>6. Written' /\ GraphOutputWhole'
    <3>1. Script(route)' = s
      BY <1>1
    <3> QED BY <1>3, <1>4, <2>1, <2>2, <3>1 DEF Written, GraphOutputWhole, Acquiring
  <2> QED BY <1>5, <2>3, <2>4, <2>5, <2>6 DEF GraphInv
<1>7. CASE ~(step < Len(s))
  <2>1. step' = step /\ main' = "closing" /\ outcome' = "done"
    BY <1>7 DEF Advance
  <2>2. Typed'
    BY <1>1, <2>1 DEF GraphInv, Typed, Mains
  <2>3. Handshake'
    BY <1>2, <2>1 DEF Handshake, Acquiring, Quiet, Leftover
  <2>4. Staging'
    <3>1. Asked' = Asked
      BY <1>1, <2>1, SameAsked
    <3>2. task' # Asked'
      BY <1>1, <3>1, OtherTasks
    <3> QED BY <2>1, <3>2 DEF Staging, Running
  <2>5. \A i \in 1..Ranges : target'[i] = PartialOf(i)
    <3> TAKE i \in 1..Ranges
    <3>1. PICK j \in 1..Len(s) : s[j] = ComputeRange(i)
      BY <1>1 DEF Has
    <3>2. s[j].op = "range" /\ s[j].slot = PartialOf(i) /\ s[j].slot[2] = i
      BY <3>1 DEF ComputeRange, Request, PartialOf
    <3>3. j \in 1..step
      BY <1>1, <1>7
    <3> QED BY <1>4, <3>2, <3>3
  <2>6. Written' /\ GraphOutputWhole'
    BY <1>4, <2>1, <2>5 DEF Written, GraphOutputWhole, Acquiring, Running
  <2> QED BY <1>5, <2>2, <2>3, <2>4, <2>6 DEF GraphInv
<1> QED BY <1>6, <1>7

LEMMA TakeReplyStep == GraphInv /\ TakeReply => GraphInv'
<1> SUFFICES ASSUME GraphInv, TakeReply PROVE GraphInv'
  OBVIOUS
<1>1. /\ UNCHANGED <<calls, route, acquisition, task, host, returned, actor, target>>
      /\ main = "await" /\ reply = "ok" /\ reply' = "none"
  BY DEF TakeReply
<1>2. task = NoTask /\ flight = {} /\ Effect(Asked)
  <2>1. WorkerAt
    BY <1>1 DEF GraphInv, Handshake
  <2> QED BY <1>1, <2>1 DEF WorkerAt
<1>3. CASE Asked.op = "range"
  <2>1. /\ flight' = {ToReturned} /\ main' = "returning"
        /\ UNCHANGED <<step, outcome>>
    BY <1>2, <1>3 DEF TakeReply
  <2>2. Asked' = Asked /\ Script(route)' = Script(route)
    BY <1>1, <2>1, SameAsked
  <2>3. Typed' /\ HeldInside' /\ ItemsExact' /\ Written' /\ GraphOutputWhole'
    BY <1>1, <2>1, <2>2
       DEF GraphInv, Typed, HeldInside, ItemsExact, Written, GraphOutputWhole, Mains, Running,
           Acquiring
  <2>4. host["partial"] = Asked.slot
    BY <1>2, <1>3 DEF Effect, Arrived
  <2>5. Handshake'
    BY <1>1, <1>2, <1>3, <2>1, <2>2, <2>4 DEF Handshake, Acquiring
  <2>6. Staging'
    <3>1. Undropped' => Undropped
      BY <1>1, <1>3, <2>1, <2>2 DEF Undropped, Drops
    <3>2. main \in Running
      BY <1>1 DEF Running
    <3> QED BY <1>1, <2>1, <3>1, <3>2, StagingKept DEF GraphInv, Typed
  <2> QED BY <2>3, <2>5, <2>6 DEF GraphInv
<1>4. CASE Asked.op # "range"
  <2>1. Advance /\ flight' = flight
    BY <1>4 DEF TakeReply
  <2>2. DOMAIN target' = 1..Ranges /\ \A i \in 1..Ranges : target'[i] \in {target[i], PartialOf(i)}
    BY <1>1 DEF GraphInv, Typed
  <2> QED BY <1>1, <1>2, <1>4, <2>1, <2>2, AdvanceStep
<1> QED BY <1>3, <1>4

LEMMA AddRangeStep == GraphInv /\ AddRange => GraphInv'
<1> SUFFICES ASSUME GraphInv, AddRange PROVE GraphInv'
  OBVIOUS
<1>1. /\ UNCHANGED <<calls, route, acquisition, exchange, transfer, actor>>
      /\ main = "returning" /\ Drained("primary") /\ Advance
      /\ target' = [target EXCEPT ![Asked.slot[2]] = returned]
  BY DEF AddRange
<1>2. /\ task = NoTask /\ reply = "none" /\ Asked.op = "range"
      /\ flight \subseteq {ToReturned} /\ (flight = {} => returned = Asked.slot)
      /\ host["partial"] = Asked.slot
  BY <1>1 DEF GraphInv, Handshake
<1>3. flight = {} /\ returned = Asked.slot
  <2>1. ToReturned.device = "primary"
    BY DEF ToReturned
  <2> QED BY <1>1, <1>2, <2>1 DEF Drained
<1>4. PICK i \in 1..Ranges : Asked = ComputeRange(i)
  BY <1>2, AskedTyped, AskTyped DEF GraphInv
<1>5. Asked.slot = PartialOf(i) /\ Asked.slot[2] = i
  BY <1>4 DEF ComputeRange, Request, PartialOf
<1>6. DOMAIN target = 1..Ranges
  BY DEF GraphInv, Typed
<1>7. /\ DOMAIN target' = 1..Ranges
      /\ \A k \in 1..Ranges : target'[k] \in {target[k], PartialOf(k)}
      /\ target'[Asked.slot[2]] = Asked.slot
  BY <1>1, <1>3, <1>5, <1>6
<1>8. Effect(Asked)
  BY <1>2 DEF Effect, Arrived, Sends
<1> QED BY <1>1, <1>2, <1>3, <1>7, <1>8, AdvanceStep

LEMMA RunRaisesStep == GraphInv /\ RunRaises => GraphInv'
<1> SUFFICES ASSUME GraphInv, RunRaises PROVE GraphInv'
  OBVIOUS
<1>1. /\ UNCHANGED <<progress, acquisition, task, transfer, actor, target>>
      /\ main \in Running /\ main' = "closing" /\ outcome' = "retry"
      /\ \/ main \in {"fill", "filled", "compute", "returning"} /\ reply' = reply
         \/ main = "await" /\ reply \in {"error", "ok"} /\ reply' = "none"
  BY DEF RunRaises, Running
<1>2. Asked' = Asked /\ Script(route)' = Script(route)
  BY <1>1, SameAsked
<1>3. Typed' /\ HeldInside' /\ ItemsExact' /\ Written' /\ GraphOutputWhole'
  BY <1>1, <1>2
     DEF GraphInv, Typed, HeldInside, ItemsExact, Written, GraphOutputWhole, Mains, Running,
         Acquiring
<1>4. main # "compute" => task' = NoTask /\ reply' = "none" /\ Leftover'
  <2>1. main # "compute" => task = NoTask /\ reply' = "none" /\ Leftover
    <3>1. CASE main \in {"fill", "filled", "returning"}
      <4>1. /\ task = NoTask /\ reply = "none"
            /\ \/ flight = {}
               \/ flight \subseteq {ToHost("primary", Asked.slot, Asked.buf)}
               \/ flight \subseteq {ToReturned}
        BY <3>1 DEF GraphInv, Handshake, Quiet
      <4>2. \A x : flight \subseteq {x} => flight = {} \/ flight = {x}
        OBVIOUS
      <4>3. Leftover
        BY <4>1, <4>2 DEF Leftover
      <4> QED BY <1>1, <3>1, <4>1, <4>3
    <3>2. CASE main = "await"
      BY <1>1, <3>2 DEF GraphInv, Handshake, WorkerAt, Leftover
    <3> QED BY <1>1, <3>1, <3>2 DEF Running
  <2> QED BY <1>1, <1>2, <2>1 DEF Leftover, Staged, Sends, CopyOf, ToHost, ToDevice
<1>5. main = "compute" => WorkerAt /\ WorkerAt'
  <2> SUFFICES ASSUME main = "compute" PROVE WorkerAt /\ WorkerAt'
    OBVIOUS
  <2>1. WorkerAt
    BY DEF GraphInv, Handshake
  <2>2. UNCHANGED <<task, reply, flight, host, items, qkv>>
    BY <1>1
  <2> QED BY <1>2, <2>1, <2>2
          DEF WorkerAt, Leftover, Staged, Arrived, Effect, Sends, CopyOf, ToHost, ToDevice
<1>6. Handshake'
  BY <1>1, <1>4, <1>5 DEF Handshake, Acquiring
<1>7. Staging'
  <2>1. Asked \in Asks /\ Asked # NoTask
    BY AskedTyped, OtherTasks DEF GraphInv
  <2>2. CASE main = "compute"
    <3>1. Undropped' => Undropped
      BY <1>1, <1>2, <2>2 DEF Undropped
    <3>2. main \in Running
      BY <2>2 DEF Running
    <3> QED BY <1>1, <3>1, <3>2, StagingKept DEF GraphInv, Typed
  <2>3. CASE main # "compute"
    BY <1>1, <1>2, <1>4, <2>1, <2>3 DEF Staging, Running
  <2> QED BY <2>2, <2>3
<1> QED BY <1>3, <1>6, <1>7 DEF GraphInv

\* The end of a call: the actor is reset, the storage given back.
LEMMA CloseStep ==
  GraphInv /\ (ResetActor \/ LeaveRun \/ ReleaseStorage \/ EndCall) => GraphInv'
<1> SUFFICES ASSUME GraphInv, ResetActor \/ LeaveRun \/ ReleaseStorage \/ EndCall
             PROVE  GraphInv'
  OBVIOUS
<1>1. /\ UNCHANGED <<progress, workspace, flight, host, actor, target>>
      /\ outcome' \in {outcome, "retry", "fatal"}
      /\ main \in {"closing", "resetting", "freeing", "freed"}
      /\ main' \in {"resetting", "freeing", "freed", "idle"}
      /\ task' \in {task, Plain("reset"), Plain("free")}
      /\ candidate' \in {candidate, 0}
  BY DEF ResetActor, LeaveRun, ReleaseStorage, EndCall
<1>2. Asked' = Asked /\ Script(route)' = Script(route) /\ Asked \in Asks
  BY <1>1, SameAsked, AskedTyped DEF GraphInv
<1>3. Typed' /\ HeldInside' /\ ItemsExact' /\ Written' /\ GraphOutputWhole'
  BY <1>1, <1>2
     DEF GraphInv, Typed, HeldInside, ItemsExact, Written, GraphOutputWhole, Mains, Running,
         Acquiring
<1>4. /\ Cleared => Cleared'
      /\ Leftover => Leftover'
      /\ Drained("secondary") => Drained("secondary")'
  BY <1>1, <1>2 DEF Cleared, Leftover, Drained, Staged, Sends, CopyOf, ToHost, ToDevice
<1>5. Handshake' /\ task' # Asked
  <2>1. CASE ResetActor
    <3>1. task = NoTask /\ Leftover
      BY <1>2, <2>1, OtherTasks DEF ResetActor, GraphInv, Handshake, WorkerAt, Leftover
    <3> QED BY <1>1, <1>2, <1>4, <2>1, <3>1, OtherTasks DEF ResetActor, Handshake, Acquiring
  <2>2. CASE LeaveRun
    <3>1. task = NoTask /\ Leftover /\ Drained("secondary") /\ Cleared
      BY <2>2, OtherTasks DEF LeaveRun, GraphInv, Handshake
    <3> QED BY <1>2, <1>4, <2>2, <3>1, OtherTasks DEF LeaveRun, Handshake, Acquiring
  <2>3. CASE ReleaseStorage
    <3>1. Leftover /\ Drained("secondary") /\ Cleared
      BY <2>3 DEF ReleaseStorage, GraphInv, Handshake
    <3> QED BY <1>1, <1>2, <1>4, <2>3, <3>1, OtherTasks
            DEF ReleaseStorage, Handshake, Acquiring
  <2>4. CASE EndCall
    <3>1. /\ task = NoTask /\ Leftover /\ Drained("secondary") /\ Drained("primary")
          /\ Cleared /\ workspace = 0
      BY <2>4, OtherTasks DEF EndCall, GraphInv, Handshake
    <3>2. flight = {}
      <4>1. /\ ToHost("primary", Asked.slot, Asked.buf).device = "primary"
            /\ ToReturned.device = "primary" /\ CopyOf(Asked).device = "secondary"
        BY DEF CopyOf, ToHost, ToDevice, ToReturned
      <4> QED BY <3>1, <4>1 DEF Leftover, Drained
    <3>3. Quiet' /\ Cleared' /\ workspace' = 0
      BY <1>1, <1>4, <2>4, <3>1, <3>2 DEF EndCall, Quiet
    <3> QED BY <1>2, <2>4, <3>3, OtherTasks DEF EndCall, Handshake, Acquiring, Quiet
  <2> QED BY <2>1, <2>2, <2>3, <2>4
<1>6. Staging'
  BY <1>1, <1>2, <1>5 DEF Staging, Running
<1> QED BY <1>3, <1>5, <1>6 DEF GraphInv

LEMMA StepGraph == GraphInv /\ [Next]_vars => GraphInv'
<1> SUFFICES ASSUME GraphInv, [Next]_vars PROVE GraphInv'
  OBVIOUS
<1>1. CASE BeginCall
  BY <1>1, BeginCallStep
<1>2. CASE Acquire
  BY <1>2, AcquireStep
<1>3. CASE Run
  BY <1>3, PreparePoolStep, FillBufferStep, SubmitStep, ComputeOwnStep, TakeReplyStep,
     AddRangeStep, RunRaisesStep, CloseStep DEF Run
<1>4. CASE Worker
  BY <1>4, WorkerIssuesStep, WorkerDrainsStep, WorkerComputesStep, WorkerRaisesStep,
     WorkerResetsStep, WorkerFreesStep DEF Worker
<1>5. CASE Copies
  BY <1>5, CopyStep DEF Copies
<1>6. CASE UNCHANGED vars
  <2>1. /\ UNCHANGED <<route, main, candidate, workspace, step, task, reply, flight, host>>
        /\ UNCHANGED <<returned, items, qkv, audio, stream, target, outcome>>
    BY <1>6 DEF vars
  <2>2. Asked' = Asked /\ Script(route)' = Script(route)
    BY <2>1, SameAsked
  <2>3. Typed' /\ HeldInside' /\ ItemsExact' /\ Written' /\ GraphOutputWhole'
    BY <2>1, <2>2 DEF GraphInv, Typed, HeldInside, ItemsExact, Written, GraphOutputWhole
  <2>4. Quiet' = Quiet /\ Cleared' = Cleared /\ WorkerAt' = WorkerAt /\ Undropped' = Undropped
        /\ Staged(Asked)' = Staged(Asked) /\ Leftover' = Leftover
        /\ Drained("secondary")' = Drained("secondary")
    BY <2>1, <2>2 DEF Quiet, Cleared, WorkerAt, Leftover, Drained, Undropped, Staged, Arrived,
       Effect, CopyOf, Sends, ToHost, ToDevice
  <2>5. Handshake'
    BY <2>1, <2>2, <2>4 DEF GraphInv, Handshake
  <2>6. Staging'
    BY <2>1, <2>2, <2>4 DEF GraphInv, Staging
  <2> QED BY <2>3, <2>5, <2>6 DEF GraphInv
<1> QED BY <1>1, <1>2, <1>3, <1>4, <1>5, <1>6 DEF Next

-----------------------------------------------------------------------------
(* The theorems.                                                           *)

LEMMA InvGraph == Spec => []GraphInv
<1>1. Init => GraphInv
  BY InitGraph
<1>2. GraphInv /\ [Next]_vars => GraphInv'
  BY StepGraph
<1> QED BY <1>1, <1>2, PTL DEF Spec

\* Type correctness of the two threads, the buffers and the actor, with the
\* position in the script of requests always one of its positions.
THEOREM TypeCorrect == Spec => []Typed
<1>1. GraphInv => Typed
  BY DEF GraphInv
<1> QED BY <1>1, InvGraph, PTL

\* Whatever the numbers of chunks, RoPE chunks and ranges, and however copies,
\* worker and main thread interleave: every tensor of the second GPU is the one
\* staged for it, a range only adds its own secondary half, and audio rows,
\* routes and ranges are computed from a complete Q/K/V and its output weight.
THEOREM TransfersCorrect == Spec => []TransfersExact
<1>1. GraphInv => TransfersExact
  <2> SUFFICES ASSUME GraphInv PROVE TransfersExact
    OBVIOUS
  <2>1. (\A s \in Slots : items[s] \in {Nothing, s})
        /\ \A i \in 1..Ranges : target[i] \in {Nothing, PartialOf(i)}
    BY DEF GraphInv, ItemsExact, Written
  <2>2. ASSUME task.op \in Late
        PROVE  qkv.chunks = 1..Chunks /\ items[<<"out_weight", 1>>] = <<"out_weight", 1>>
    <3>1. task.op \notin {"none", "reset", "free"}
      BY <2>2 DEF Late
    <3>2. task = Asked
      BY <3>1, AtAsked
    <3> QED BY <2>2, <3>2, LateReady DEF GraphInv
  <2> QED BY <2>1, <2>2 DEF TransfersExact, Late
<1> QED BY <1>1, InvGraph, PTL

\* However a call ends, the second GPU keeps nothing of it: no actor tensor, no
\* storage, no request, no copy, also none that a failed request had issued;
\* and the actor never outlives its storage.
THEOREM ReleaseCorrect == Spec => []SecondaryReleased
<1>1. GraphInv => SecondaryReleased
  BY DEF GraphInv, HeldInside, Handshake, Quiet, Cleared, Drained, SecondaryReleased
<1> QED BY <1>1, InvGraph, PTL

\* A committed call has added every range of the target; one that fell back or
\* failed in acquisition has touched none.
THEOREM OutputCorrect == Spec => []GraphOutputWhole
<1>1. GraphInv => GraphOutputWhole
  BY DEF GraphInv
<1> QED BY <1>1, InvGraph, PTL
=============================================================================
