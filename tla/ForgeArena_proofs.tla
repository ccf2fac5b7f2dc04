--------------------------- MODULE ForgeArena_proofs ---------------------------
(***************************************************************************)
(* Theorems about ForgeArena, for every set of budgets, every extent, page *)
(* and chunk size, any sizes and parameters and any length of behaviour:   *)
(* when a mark is restored only under the budget it was taken in, nothing  *)
(* is placed over a value still in use, no assertion of a rewind fails and *)
(* the meter covers what is live; when moreover the helpers of a @grad     *)
(* body make no @grad calls, the gradients a pass captured reach their     *)
(* caller.                                                                 *)
(*                                                                         *)
(* Stored says how an arena holds its live blocks: each inside a chunk of  *)
(* its own mapping, below the cursor, its cells its own, and all of them   *)
(* charged.  Marked says what a position is good for: the blocks made by   *)
(* then end before it and its chunk is still there.  Ordered says that     *)
(* marks and calls follow one another in the arena as they do in time, so  *)
(* a rewind to the last leaves the others behind it.  Inv is the three of  *)
(* them for every budget, mark and call, and SlotInv adds that no mark a   *)
(* helper can restore is older than a captured buffer.                     *)
(***************************************************************************)
EXTENDS ForgeArena, StacksAndSums

-------------------------------------------------------------------------------
(* Shapes.                                                                  *)

\* What the variables and the steps of an allocation hold.
ChunkType == [len : Nat, map : Budgets \X Nat]

ArenaType ==
    [chunks : Seq(ChunkType), cur : Nat \ {0}, cursor : Nat, used : Nat, committed : Int,
     chunkSize : Int, maps : Nat]

\* What a mark packs.
Position == [cur : Nat \ {0}, cursor : Nat]

PlaceType ==
    [budget : Budgets, chunk : Nat \ {0}, map : Budgets \X Nat, at : Nat, bytes : Nat]

BlockType ==
    [budget : Budgets, chunk : Nat \ {0}, map : Budgets \X Nat, at : Nat, bytes : Nat,
     id : Nat \ {0}, value : Int]

\* One position is no further than another.
Before(p, q) == p.cur < q.cur \/ (p.cur = q.cur /\ p.cursor <= q.cursor)

\* Every chunk of an arena is a mapping of its own.
OwnMaps(b, a) ==
    /\ \A i \in DOMAIN a.chunks : a.chunks[i].map[1] = b /\ a.chunks[i].map[2] \in 1..a.maps
    /\ \A i, j \in DOMAIN a.chunks : a.chunks[i].map = a.chunks[j].map => i = j

\* What holds of an arena but for its cursor.
ChunksOK(b, a) ==
    /\ a \in ArenaType
    /\ a.committed = SumOf(Lengths(a), DOMAIN a.chunks)
    /\ a.chunkSize = Unset \/ a.chunkSize \in Nat
    /\ b = 0 => a.chunkSize = RootChunk
    /\ OwnMaps(b, a)

\* The cursor stands in its chunk, or at the start of an arena without one.
CursorOK(a) ==
    \/ a.chunks = <<>> /\ a.cur = 1 /\ a.cursor = 0
    \/ a.cur \in DOMAIN a.chunks /\ a.cursor <= a.chunks[a.cur].len

\* A well-formed arena of budget b.
ArenaOK(b, a) == ChunksOK(b, a) /\ CursorOK(a)

\* a is followed by c: no chunk up to the cursor of a is lost.
Keeps(a, c) ==
    /\ Len(a.chunks) <= Len(c.chunks)
    /\ \A i \in DOMAIN a.chunks : i <= a.cur => c.chunks[i] = a.chunks[i]

-------------------------------------------------------------------------------
(* Rounding.                                                                *)

\* A multiple leaves no remainder.
LEMMA Multiple ==
    ASSUME NEW q \in Nat, NEW u \in Nat \ {0}
    PROVE  (q * u) % u = 0
OBVIOUS

\* A count rounded up to a unit is a multiple of it and no smaller.
LEMMA RoundedUp ==
    ASSUME NEW n \in Nat, NEW u \in Nat \ {0}
    PROVE  RoundUp(n, u) \in Nat /\ RoundUp(n, u) >= n /\ RoundUp(n, u) % u = 0
<1> DEFINE m == n + u - 1
           q == m \div u
<1>1. m \in Nat
  OBVIOUS
<1>2. q \in Nat /\ m % u \in 0..(u - 1) /\ m = u * q + (m % u)
  BY <1>1, Division
<1>3. RoundUp(n, u) = q * u
  BY DEF RoundUp
<1> HIDE DEF q
<1>4. PICK r : r = u * q
  OBVIOUS
<1>5. q * u \in Nat /\ q * u = r /\ r \in Nat
  BY <1>2, <1>4
<1>6. r >= n
  BY <1>2, <1>4, <1>5
<1>7. RoundUp(n, u) % u = 0
  BY <1>2, <1>3, Multiple
<1> QED BY <1>3, <1>5, <1>6, <1>7

\* The same of the allocator's lines.
LEMMA AlignedUp ==
    ASSUME NEW n \in Nat
    PROVE  AlignUp(n) \in Nat /\ AlignUp(n) >= n /\ AlignUp(n) % Align = 0
<1>1. Align \in Nat \ {0}
  BY ArenaAssumption
<1> QED BY <1>1, RoundedUp DEF AlignUp

\* Offset 0 is aligned.
LEMMA ZeroAligned ==
    AlignUp(0) = 0 /\ 0 % Align = 0
<1>1. Align \in Nat \ {0}
  BY ArenaAssumption
<1>2. ASSUME NEW u \in Nat \ {0}
      PROVE  (0 + u - 1) \div u = 0 /\ 0 % u = 0
  OBVIOUS
<1>3. RoundUp(0, Align) = 0 * Align
  BY <1>1, <1>2 DEF RoundUp
<1> QED BY <1>1, <1>2, <1>3 DEF AlignUp

-------------------------------------------------------------------------------
(* Growing a chunk list.                                                    *)

\* The size the first request fixes.
LEMMA SizeFixed ==
    ASSUME NEW b \in Budgets, NEW a, ArenaOK(b, a), NEW need \in Nat
    PROVE  SizeFor(b, a, need) \in Nat /\ (b = 0 => SizeFor(b, a, need) = RootChunk)
<1>1. a.chunkSize = Unset \/ a.chunkSize \in Nat
  BY DEF ArenaOK, ChunksOK
<1>2. b = 0 => a.chunkSize = RootChunk /\ a.chunkSize # Unset
  BY ArenaAssumption DEF ArenaOK, ChunksOK, Unset
<1>3. Extent[b] \in Nat /\ Page \in Nat \ {0} /\ MinChunk \in Nat
  BY ArenaAssumption
<1>4. RoundUp(need, Page) \in Nat
  BY <1>3, RoundedUp
<1> QED BY <1>1, <1>2, <1>3, <1>4 DEF SizeFor, Min2, Max2

\* A chunk mapped for a request holds it, in a mapping nothing has used.
LEMMA ChunkFits ==
    ASSUME NEW b \in Budgets, NEW a, NEW need \in Nat, a.maps \in Nat,
           SizeFor(b, a, need) \in Nat
    PROVE  /\ ChunkFor(b, a, need) \in ChunkType
           /\ ChunkFor(b, a, need).len >= need
           /\ ChunkFor(b, a, need).map = <<b, a.maps + 1>>
<1> DEFINE n == Max2(Max2(SizeFor(b, a, need), need), 1)
<1>1. n \in Nat /\ n >= need
  BY DEF Max2
<1> HIDE DEF n
<1>2. RoundUp(n, Page) \in Nat /\ RoundUp(n, Page) >= n
  BY <1>1, ArenaAssumption, RoundedUp
<1> QED BY <1>1, <1>2 DEF ChunkFor, ChunkType, n

\* A chunk added at the end of the list or in place of one beyond the cursor.
LEMMA ChunkAdded ==
    ASSUME NEW b \in Budgets, NEW a, ChunksOK(b, a), NEW i \in 1..(Len(a.chunks) + 1),
           NEW chunk \in ChunkType, chunk.map = <<b, a.maps + 1>>,
           NEW c, c = WithChunk(a, i, chunk)
    PROVE  /\ ChunksOK(b, c)
           /\ DOMAIN a.chunks = 1..Len(a.chunks) /\ Len(a.chunks) \in Nat
           /\ DOMAIN c.chunks = 1..Len(c.chunks)
           /\ Len(c.chunks) = IF i <= Len(a.chunks) THEN Len(a.chunks) ELSE Len(a.chunks) + 1
           /\ c.chunks[i] = chunk
           /\ \A j \in DOMAIN a.chunks : j # i => c.chunks[j] = a.chunks[j]
           /\ c.cur = a.cur /\ c.cursor = a.cursor /\ c.used = a.used
           /\ c.chunkSize = a.chunkSize
<1> DEFINE was == a.chunks
           now == c.chunks
           k == IF i \in 1..Len(was) THEN was[i].len ELSE 0
<1>1. /\ a \in ArenaType /\ was \in Seq(ChunkType) /\ Len(was) \in Nat /\ DOMAIN was = 1..Len(was)
      /\ \A j \in 1..Len(was) : was[j] \in ChunkType
  BY LenProperties, ElementOfSeq DEF ChunksOK, ArenaType
<1>2. /\ c = [a EXCEPT !.chunks = IF i \in 1..Len(was) THEN [was EXCEPT ![i] = chunk] ELSE Append(was, chunk),
                       !.committed = a.committed - k + chunk.len,
                       !.maps = a.maps + 1]
  BY DEF WithChunk
<1>3. /\ now = (IF i \in 1..Len(was) THEN [was EXCEPT ![i] = chunk] ELSE Append(was, chunk))
      /\ c.committed = a.committed - k + chunk.len /\ c.maps = a.maps + 1
      /\ c.cur = a.cur /\ c.cursor = a.cursor /\ c.used = a.used /\ c.chunkSize = a.chunkSize
  BY <1>1, <1>2 DEF ArenaType
<1>4. /\ now \in Seq(ChunkType)
      /\ Len(now) = IF i <= Len(was) THEN Len(was) ELSE Len(was) + 1
      /\ now[i] = chunk
      /\ \A j \in 1..Len(was) : j # i => now[j] = was[j]
  <2>1. CASE i \in 1..Len(was)
    <3>1. now = [was EXCEPT ![i] = chunk]
      BY <2>1, <1>3
    <3>2. [was EXCEPT ![i] = chunk] \in Seq(ChunkType) /\ Len([was EXCEPT ![i] = chunk]) = Len(was)
      BY <1>1, <2>1, ExceptSeq
    <3>3. now[i] = chunk /\ \A j \in 1..Len(was) : j # i => now[j] = was[j]
      BY <3>1, <1>1, <2>1
    <3> HIDE DEF was, now
    <3> QED BY <3>1, <3>2, <3>3, <2>1
  <2>2. CASE i \notin 1..Len(was)
    <3>1. i = Len(was) + 1 /\ now = Append(was, chunk)
      BY <2>2, <1>1, <1>3
    <3> HIDE DEF now, was
    <3> QED BY <3>1, <1>1, StackPush
  <2> QED BY <2>1, <2>2
<1>5. DOMAIN now = 1..Len(now) /\ Len(now) \in Nat
  BY <1>4, LenProperties
<1>6. c \in ArenaType
  <2>1. k \in Nat /\ chunk.len \in Nat /\ a.committed \in Int /\ a.maps \in Nat
    BY <1>1 DEF ArenaType, ChunkType
  <2>2. a.committed - k + chunk.len \in Int /\ a.maps + 1 \in Nat
    BY <2>1
  <2> HIDE DEF k, was, now
  <2> QED BY <1>1, <1>2, <1>3, <1>4, <2>2 DEF ArenaType
<1>7. c.committed = SumOf(Lengths(c), DOMAIN now)
  <2>1. /\ \A j \in 1..Len(was) : Lengths(a)[j] = was[j].len /\ Lengths(a)[j] \in Int
        /\ \A j \in 1..Len(now) : Lengths(c)[j] = now[j].len /\ Lengths(c)[j] \in Int
    <3>1. \A j \in 1..Len(was) : Lengths(a)[j] = was[j].len /\ was[j].len \in Nat
      BY <1>1 DEF Lengths, ChunkType
    <3>2. \A j \in 1..Len(now) : now[j] \in ChunkType
      BY <1>4, ElementOfSeq
    <3>3. \A j \in 1..Len(now) : Lengths(c)[j] = now[j].len /\ now[j].len \in Nat
      BY <3>2, <1>5 DEF Lengths, ChunkType
    <3> QED BY <3>1, <3>3
  <2>2. a.committed = SumOf(Lengths(a), 1..Len(was))
    BY <1>1 DEF ChunksOK
  <2>3. IsFiniteSet(1..Len(was)) /\ IsFiniteSet(1..Len(now))
    <3> HIDE DEF was, now
    <3>1. 1 \in Int /\ Len(was) \in Int /\ Len(now) \in Int
      BY <1>1, <1>5
    <3> QED BY <3>1, FS_Interval
  <2>4. Lengths(c)[i] = chunk.len /\ i \in 1..Len(now)
    BY <2>1, <1>4, <1>1
  <2>5. \A j \in 1..Len(was) : j # i => Lengths(c)[j] = Lengths(a)[j]
    BY <2>1, <1>4, <1>1
  <2>6. CASE i \in 1..Len(was)
    <3>1. Len(now) = Len(was) /\ k = Lengths(a)[i]
      BY <2>6, <1>4, <2>1
    <3>2. \A j \in 1..Len(was) : Lengths(a)[j] \in Int /\ Lengths(c)[j] \in Int
      BY <3>1, <2>1
    <3>3. \A j \in (1..Len(was)) \ {i} : Lengths(c)[j] = Lengths(a)[j]
      BY <2>5
    <3>4. SumOf(Lengths(c), 1..Len(was)) = SumOf(Lengths(a), 1..Len(was)) - Lengths(a)[i] + Lengths(c)[i]
      <4>1. ASSUME NEW N, IsFiniteSet(N), \A j \in N : Lengths(a)[j] \in Int /\ Lengths(c)[j] \in Int,
                   NEW z \in N, \A j \in N \ {z} : Lengths(c)[j] = Lengths(a)[j]
            PROVE  SumOf(Lengths(c), N) = SumOf(Lengths(a), N) - Lengths(a)[z] + Lengths(c)[z]
        BY <4>1, SumUpdate
      <4> QED BY <2>6, <2>3, <3>2, <3>3, <4>1
    <3> QED BY <3>1, <3>4, <2>2, <2>4, <1>3, <1>5
  <2>7. CASE i \notin 1..Len(was)
    <3>1. i = Len(was) + 1 /\ Len(now) = Len(was) + 1 /\ k = 0
      BY <2>7, <1>1, <1>4
    <3>2. 1..Len(now) = (1..Len(was)) \cup {i} /\ 1..Len(was) \subseteq 1..Len(now)
      BY <3>1, <1>1
    <3>3. \A j \in (1..Len(was)) \cup {i} : Lengths(c)[j] \in Int
      BY <3>2, <2>1
    <3>4. SumOf(Lengths(c), (1..Len(was)) \cup {i}) = SumOf(Lengths(c), 1..Len(was)) + Lengths(c)[i]
      BY <2>7, <2>3, <3>3, SumAdd
    <3>5. \A j \in 1..Len(was) : Lengths(a)[j] \in Int /\ Lengths(c)[j] = Lengths(a)[j]
      BY <2>1, <2>5, <2>7
    <3>6. SumOf(Lengths(c), 1..Len(was)) = SumOf(Lengths(a), 1..Len(was))
      BY <2>3, <3>5, SumSame
    <3>7. a.committed \in Int /\ chunk.len \in Int
      BY <1>1 DEF ArenaType, ChunkType
    <3>8. SumOf(Lengths(c), DOMAIN now) = SumOf(Lengths(c), (1..Len(was)) \cup {i})
      BY <3>2, <1>5
    <3>9. c.committed = a.committed + chunk.len
      BY <3>1, <3>7, <1>3
    <3> QED BY <3>4, <3>6, <3>8, <3>9, <2>2, <2>4
  <2> QED BY <2>6, <2>7
<1>8. OwnMaps(b, c)
  <2>1. \A j \in DOMAIN now : j # i => j \in DOMAIN was /\ now[j] = was[j]
    BY <1>1, <1>4, <1>5
  <2>2. now[i].map[1] = b /\ now[i].map[2] = a.maps + 1 /\ a.maps \in Nat
    BY <1>4, <1>1 DEF ArenaType
  <2>3. \A j \in DOMAIN was : was[j].map[1] = b /\ was[j].map[2] \in 1..a.maps
    BY DEF ChunksOK, OwnMaps
  <2>4. \A j, l \in DOMAIN was : was[j].map = was[l].map => j = l
    BY DEF ChunksOK, OwnMaps
  <2> HIDE DEF was, now
  <2>5. \A j \in DOMAIN now : now[j].map[1] = b /\ now[j].map[2] \in 1..(a.maps + 1)
    <3> SUFFICES ASSUME NEW j \in DOMAIN now
                 PROVE  now[j].map[1] = b /\ now[j].map[2] \in 1..(a.maps + 1)
      OBVIOUS
    <3>1. CASE j = i
      BY <3>1, <2>2
    <3>2. CASE j # i
      <4>1. now[j] = was[j] /\ was[j].map[1] = b /\ was[j].map[2] \in 1..a.maps
        BY <3>2, <2>1, <2>3
      <4> QED BY <4>1, <2>2
    <3> QED BY <3>1, <3>2
  <2>6. \A j \in DOMAIN now : j # i => now[j].map # now[i].map
    <3> SUFFICES ASSUME NEW j \in DOMAIN now, j # i
                 PROVE  now[j].map # now[i].map
      OBVIOUS
    <3>1. now[j].map[2] \in 1..a.maps
      BY <2>1, <2>3
    <3>2. now[j].map[2] # now[i].map[2]
      BY <3>1, <2>2
    <3> QED BY <3>2
  <2>7. \A j, l \in DOMAIN now : now[j].map = now[l].map => j = l
    <3> SUFFICES ASSUME NEW j \in DOMAIN now, NEW l \in DOMAIN now, now[j].map = now[l].map
                 PROVE  j = l
      OBVIOUS
    <3>1. CASE j = i \/ l = i
      BY <3>1, <2>6
    <3>2. CASE j # i /\ l # i
      <4>1. j \in DOMAIN was /\ l \in DOMAIN was /\ now[j] = was[j] /\ now[l] = was[l]
        BY <3>2, <2>1
      <4>2. was[j].map = was[l].map
        BY <4>1
      <4> QED BY <4>1, <4>2, <2>4
    <3> QED BY <3>1, <3>2
  <2> QED BY <2>5, <2>7, <1>3 DEF OwnMaps, now
<1>9. ChunksOK(b, c)
  BY <1>3, <1>6, <1>7, <1>8 DEF ChunksOK
<1> QED BY <1>1, <1>3, <1>4, <1>5, <1>9

\* The chunk list is well formed whatever the cursor and the meter say.
LEMMA SameChunks ==
    ASSUME NEW b, NEW a, ChunksOK(b, a), NEW c \in ArenaType,
           c.chunks = a.chunks, c.committed = a.committed, c.maps = a.maps,
           c.chunkSize \in Nat \/ c.chunkSize = a.chunkSize,
           b = 0 => c.chunkSize = RootChunk
    PROVE  ChunksOK(b, c)
<1>1. Lengths(c) = Lengths(a) /\ DOMAIN c.chunks = DOMAIN a.chunks
  BY DEF Lengths
<1>2. SumOf(Lengths(c), DOMAIN c.chunks) = SumOf(Lengths(a), DOMAIN a.chunks)
  BY <1>1
<1>3. c.committed = SumOf(Lengths(c), DOMAIN c.chunks)
  BY <1>2 DEF ChunksOK
<1>4. OwnMaps(b, c)
  BY DEF ChunksOK, OwnMaps
<1> QED BY <1>3, <1>4 DEF ChunksOK

\* What an arena is made of.
LEMMA ArenaParts ==
    ASSUME NEW b, NEW a, ChunksOK(b, a)
    PROVE  /\ a \in ArenaType /\ a.chunks \in Seq(ChunkType)
           /\ Len(a.chunks) \in Nat /\ DOMAIN a.chunks = 1..Len(a.chunks)
           /\ \A i \in 1..Len(a.chunks) :
                  /\ a.chunks[i] \in ChunkType /\ a.chunks[i].len \in Nat
                  /\ a.chunks[i].map[1] = b /\ a.chunks[i].map[2] \in Nat
                  /\ a.chunks[i].map \in Budgets \X Nat
           /\ a.cur \in Nat \ {0} /\ a.cursor \in Nat /\ a.used \in Nat /\ a.maps \in Nat
           /\ a.chunkSize = Unset \/ a.chunkSize \in Nat
           /\ b = 0 => a.chunkSize = RootChunk
<1>1. /\ a \in ArenaType /\ a.chunks \in Seq(ChunkType)
      /\ Len(a.chunks) \in Nat /\ DOMAIN a.chunks = 1..Len(a.chunks)
  BY LenProperties DEF ChunksOK, ArenaType
<1>2. \A i \in 1..Len(a.chunks) : a.chunks[i] \in ChunkType
  BY <1>1, ElementOfSeq
<1>3. \A i \in 1..Len(a.chunks) : a.chunks[i].map[1] = b
  BY <1>1 DEF ChunksOK, OwnMaps
<1>4. \A x \in ChunkType : x.len \in Nat /\ x.map \in Budgets \X Nat /\ x.map[2] \in Nat
  BY DEF ChunkType
<1>5. /\ a.cur \in Nat \ {0} /\ a.cursor \in Nat /\ a.used \in Nat /\ a.maps \in Nat
      /\ a.chunkSize = Unset \/ a.chunkSize \in Nat
      /\ b = 0 => a.chunkSize = RootChunk
  BY <1>1 DEF ArenaType, ChunksOK
<1> QED BY <1>1, <1>2, <1>3, <1>4, <1>5

\* An allocation leaves its arena well formed, keeps every chunk up to the
\* cursor and takes an aligned range beyond it.
LEMMA PlacedWell ==
    ASSUME NEW b \in Budgets, NEW a, ArenaOK(b, a), NEW n \in Nat,
           NEW c, c = Placed(b, a, n).arena, NEW p, p = Placed(b, a, n).place
    PROVE  /\ ArenaOK(b, c) /\ Keeps(a, c)
           /\ p \in PlaceType /\ p.budget = b /\ p.bytes = n /\ p.at % Align = 0
           /\ p.chunk \in DOMAIN c.chunks /\ c.chunks[p.chunk].map = p.map
           /\ p.at + n <= c.chunks[p.chunk].len
           /\ c.cur = p.chunk /\ c.cursor = p.at + n
           /\ (p.chunk = a.cur /\ a.cursor <= p.at) \/ p.chunk = a.cur + 1
           /\ c.used = a.used + AlignUp(n)
<1> DEFINE need == AlignUp(n)
           sized == [a EXCEPT !.used = @ + need, !.chunkSize = SizeFor(b, a, need)]
           open == IF a.chunks = <<>> THEN WithChunk(sized, 1, ChunkFor(b, a, need)) ELSE sized
           fits == AlignUp(open.cursor) + n <= open.chunks[open.cur].len
           i == IF fits THEN open.cur ELSE open.cur + 1
           at == IF fits THEN AlignUp(open.cursor) ELSE 0
           room == IF fits \/ Usable(open, i, need) THEN open
                   ELSE WithChunk(open, i, ChunkFor(b, open, need))
           after == [room EXCEPT !.cur = i, !.cursor = at + n]
<1>1. Placed(b, a, n) =
          [arena |-> after,
           place |-> [budget |-> b, chunk |-> i, map |-> after.chunks[i].map,
                      at |-> at, bytes |-> n]]
  BY DEF Placed
<1> HIDE DEF after
<1>2. /\ c = [room EXCEPT !.cur = i, !.cursor = at + n]
      /\ p = [budget |-> b, chunk |-> i, map |-> c.chunks[i].map, at |-> at, bytes |-> n]
  <2> HIDE DEF room, i, at
  <2>1. c = after
    BY <1>1
  <2>2. p = [budget |-> b, chunk |-> i, map |-> c.chunks[i].map, at |-> at, bytes |-> n]
    BY <1>1, <2>1
  <2> QED BY <2>1, <2>2 DEF after
<1>3. room = IF fits \/ Usable(open, i, need) THEN open
             ELSE WithChunk(open, i, ChunkFor(b, open, need))
  OBVIOUS
<1> HIDE DEF room
<1>4. i = IF fits THEN open.cur ELSE open.cur + 1
  OBVIOUS
<1>5. at = IF fits THEN AlignUp(open.cursor) ELSE 0
  OBVIOUS
<1> HIDE DEF i, at
<1>6. open = IF a.chunks = <<>> THEN WithChunk(sized, 1, ChunkFor(b, a, need)) ELSE sized
  OBVIOUS
<1> HIDE DEF open
<1>7. sized = [a EXCEPT !.used = @ + need, !.chunkSize = SizeFor(b, a, need)]
  OBVIOUS
<1> HIDE DEF sized
<1>8. need = AlignUp(n)
  OBVIOUS
<1> HIDE DEF need
<1>9. need \in Nat /\ need >= n
  BY <1>8, AlignedUp
<1>10. /\ ChunksOK(b, a) /\ a \in ArenaType /\ a.chunks \in Seq(ChunkType)
       /\ Len(a.chunks) \in Nat /\ DOMAIN a.chunks = 1..Len(a.chunks)
       /\ a.cur \in Nat \ {0} /\ a.cursor \in Nat /\ a.used \in Nat /\ a.maps \in Nat
  <2>1. ChunksOK(b, a)
    BY DEF ArenaOK
  <2> QED BY <2>1, ArenaParts
<1>11. SizeFor(b, a, need) \in Nat /\ (b = 0 => SizeFor(b, a, need) = RootChunk)
  BY <1>9, SizeFixed
<1>12. /\ ChunksOK(b, sized) /\ sized.chunks = a.chunks /\ sized.maps = a.maps
       /\ sized.cur = a.cur /\ sized.cursor = a.cursor /\ sized.used = a.used + need
       /\ sized.chunkSize = SizeFor(b, a, need)
  <2>1. /\ sized.chunks = a.chunks /\ sized.maps = a.maps /\ sized.committed = a.committed
        /\ sized.cur = a.cur /\ sized.cursor = a.cursor /\ sized.used = a.used + need
        /\ sized.chunkSize = SizeFor(b, a, need)
    BY <1>7, <1>10 DEF ArenaType
  <2>2. sized \in ArenaType
    <3>1. a.used + need \in Nat /\ SizeFor(b, a, need) \in Int
      BY <1>9, <1>10, <1>11
    <3>2. a \in ArenaType
      BY <1>10
    <3> QED BY <3>1, <3>2, <1>7 DEF ArenaType
  <2>3. ChunksOK(b, sized)
    BY <2>1, <2>2, <1>10, <1>11, SameChunks
  <2> QED BY <2>1, <2>3
<1>13. /\ ChunksOK(b, open) /\ open.cur = a.cur /\ open.cursor = a.cursor
       /\ open.used = a.used + need /\ Keeps(a, open)
       /\ open.chunkSize = SizeFor(b, a, need)
       /\ open.cur \in DOMAIN open.chunks
       /\ a.chunks = <<>> => fits
  <2>1. CASE a.chunks = <<>>
    <3>1. open = WithChunk(sized, 1, ChunkFor(b, a, need)) /\ a.cur = 1 /\ a.cursor = 0
      BY <2>1, <1>6, <1>10 DEF ArenaOK, CursorOK
    <3>2. /\ ChunkFor(b, a, need) \in ChunkType /\ ChunkFor(b, a, need).len >= need
          /\ ChunkFor(b, a, need).map = <<b, sized.maps + 1>>
      BY <1>9, <1>10, <1>11, <1>12, ChunkFits
    <3>3. Len(a.chunks) = 0 /\ Len(sized.chunks) = 0 /\ 1 \in 1..(Len(sized.chunks) + 1)
      BY <2>1, <1>12
    <3>4. /\ ChunksOK(b, open) /\ DOMAIN open.chunks = 1..Len(open.chunks)
          /\ Len(open.chunks) = IF 1 <= Len(sized.chunks) THEN Len(sized.chunks)
                                ELSE Len(sized.chunks) + 1
          /\ open.chunks[1] = ChunkFor(b, a, need)
          /\ open.cur = sized.cur /\ open.cursor = sized.cursor /\ open.used = sized.used
          /\ open.chunkSize = sized.chunkSize
      <4>1. PICK one : one = 1
        OBVIOUS
      <4>2. PICK chunk : chunk = ChunkFor(b, a, need)
        OBVIOUS
      <4>3. /\ open = WithChunk(sized, one, chunk) /\ one \in 1..(Len(sized.chunks) + 1)
            /\ chunk \in ChunkType /\ chunk.map = <<b, sized.maps + 1>>
        BY <4>1, <4>2, <3>1, <3>2, <3>3
      <4>4. /\ ChunksOK(b, open) /\ DOMAIN open.chunks = 1..Len(open.chunks)
            /\ Len(open.chunks) = IF one <= Len(sized.chunks) THEN Len(sized.chunks)
                                  ELSE Len(sized.chunks) + 1
            /\ open.chunks[one] = chunk
            /\ open.cur = sized.cur /\ open.cursor = sized.cursor /\ open.used = sized.used
            /\ open.chunkSize = sized.chunkSize
        BY <4>3, <1>12, ChunkAdded
      <4> QED BY <4>1, <4>2, <4>4
    <3>5. Len(open.chunks) = 1 /\ open.cur \in DOMAIN open.chunks
      BY <3>1, <3>3, <3>4, <1>12
    <3>6. fits
      <4>1. AlignUp(open.cursor) = 0 /\ open.chunks[open.cur].len >= n
        <5>1. open.cursor = 0 /\ open.cur = 1
          BY <3>1, <3>4, <1>12
        <5>2. open.chunks[1].len >= need /\ open.chunks[1].len \in Nat
          BY <3>2, <3>4 DEF ChunkType
        <5> QED BY <5>1, <5>2, <1>9, ZeroAligned
      <4>2. AlignUp(open.cursor) + n <= open.chunks[open.cur].len
        BY <4>1, <1>9
      <4> QED BY <4>2
    <3>7. Keeps(a, open)
      BY <3>3, <3>5, <1>10 DEF Keeps
    <3> QED BY <3>4, <3>5, <3>6, <3>7, <1>12
  <2>2. CASE a.chunks # <<>>
    <3>1. open = sized
      BY <2>2, <1>6
    <3>2. a.cur \in DOMAIN a.chunks
      BY <2>2 DEF ArenaOK, CursorOK
    <3>3. Keeps(a, open)
      BY <3>1, <1>12, <1>10 DEF Keeps
    <3> QED BY <3>1, <3>2, <3>3, <2>2, <1>12
  <2> QED BY <2>1, <2>2
<1>14. /\ open \in ArenaType /\ open.chunks \in Seq(ChunkType) /\ Len(open.chunks) \in Nat
       /\ DOMAIN open.chunks = 1..Len(open.chunks) /\ open.maps \in Nat
       /\ \A j \in 1..Len(open.chunks) : open.chunks[j].len \in Nat
  BY <1>13, ArenaParts
<1>15. open.cur \in Nat \ {0} /\ open.cursor \in Nat /\ open.cur <= Len(open.chunks)
  BY <1>10, <1>13, <1>14
<1>16. /\ i \in Nat \ {0} /\ at \in Nat /\ at % Align = 0
       /\ (i = a.cur /\ a.cursor <= at) \/ i = a.cur + 1
  <2>1. CASE fits
    BY <2>1, <1>4, <1>5, <1>13, <1>15, AlignedUp
  <2>2. CASE ~fits
    BY <2>2, <1>4, <1>5, <1>13, <1>15, ZeroAligned
  <2> QED BY <2>1, <2>2
<1>17. /\ ChunksOK(b, room) /\ Keeps(a, room) /\ room.used = open.used
       /\ i \in DOMAIN room.chunks /\ at + n <= room.chunks[i].len
  <2>1. CASE fits
    <3>1. room = open /\ i = open.cur /\ at = AlignUp(open.cursor)
      BY <2>1, <1>4, <1>5, <1>3
    <3> QED BY <2>1, <3>1, <1>13
  <2>2. CASE ~fits /\ Usable(open, i, need)
    <3>1. room = open /\ i = open.cur + 1 /\ at = 0
      BY <2>2, <1>4, <1>5, <1>3
    <3>2. i \in 1..Len(open.chunks) /\ open.chunks[i].len >= need
      BY <2>2, <1>16 DEF Usable
    <3>3. at + n <= open.chunks[i].len
      BY <3>1, <3>2, <1>9, <1>14
    <3> QED BY <3>1, <3>2, <3>3, <1>13, <1>14
  <2>3. CASE ~fits /\ ~Usable(open, i, need)
    <3>1. room = WithChunk(open, i, ChunkFor(b, open, need)) /\ i = open.cur + 1 /\ at = 0
      BY <2>3, <1>4, <1>5, <1>3
    <3>2. SizeFor(b, open, need) \in Nat
      <4>1. open.chunkSize \in Nat
        BY <1>11, <1>13
      <4>2. open.chunkSize # Unset
        BY <4>1 DEF Unset
      <4> QED BY <4>1, <4>2 DEF SizeFor
    <3>3. /\ ChunkFor(b, open, need) \in ChunkType /\ ChunkFor(b, open, need).len >= need
          /\ ChunkFor(b, open, need).map = <<b, open.maps + 1>>
      BY <3>2, <1>9, <1>14, ChunkFits
    <3>4. i \in 1..(Len(open.chunks) + 1)
      BY <3>1, <1>14, <1>15
    <3>5. /\ ChunksOK(b, room)
          /\ DOMAIN room.chunks = 1..Len(room.chunks)
          /\ Len(room.chunks) = IF i <= Len(open.chunks) THEN Len(open.chunks) ELSE Len(open.chunks) + 1
          /\ room.chunks[i] = ChunkFor(b, open, need)
          /\ \A j \in DOMAIN open.chunks : j # i => room.chunks[j] = open.chunks[j]
          /\ room.used = open.used
      <4>1. PICK chunk : chunk = ChunkFor(b, open, need)
        OBVIOUS
      <4>2. /\ room = WithChunk(open, i, chunk) /\ chunk \in ChunkType
            /\ chunk.map = <<b, open.maps + 1>>
        BY <4>1, <3>1, <3>3
      <4>3. /\ ChunksOK(b, room)
            /\ DOMAIN room.chunks = 1..Len(room.chunks)
            /\ Len(room.chunks) = IF i <= Len(open.chunks) THEN Len(open.chunks) ELSE Len(open.chunks) + 1
            /\ room.chunks[i] = chunk
            /\ \A j \in DOMAIN open.chunks : j # i => room.chunks[j] = open.chunks[j]
            /\ room.used = open.used
        BY <4>2, <3>4, <1>13, ChunkAdded
      <4> QED BY <4>1, <4>3
    <3>6. i \in DOMAIN room.chunks /\ Len(open.chunks) <= Len(room.chunks)
      BY <3>4, <3>5, <1>14
    <3>7. at + n <= room.chunks[i].len
      <4>1. room.chunks[i].len >= need /\ room.chunks[i].len \in Nat
        BY <3>3, <3>5 DEF ChunkType
      <4> QED BY <4>1, <3>1, <1>9
    <3>8. Keeps(a, room)
      <4>1. /\ Len(a.chunks) <= Len(open.chunks)
            /\ \A j \in DOMAIN a.chunks : j <= a.cur => open.chunks[j] = a.chunks[j]
        BY <1>13 DEF Keeps
      <4>2. Len(a.chunks) <= Len(room.chunks)
        BY <4>1, <3>6, <3>5, <1>10, <1>14
      <4>3. \A j \in DOMAIN a.chunks : j <= a.cur => j \in DOMAIN open.chunks /\ j # i
        BY <4>1, <3>1, <1>10, <1>13, <1>14
      <4> QED BY <4>1, <4>2, <4>3, <3>5 DEF Keeps
    <3> QED BY <3>5, <3>6, <3>7, <3>8
  <2> QED BY <2>1, <2>2, <2>3
<1>18. /\ room \in ArenaType /\ DOMAIN room.chunks = 1..Len(room.chunks)
       /\ room.chunks[i].map \in Budgets \X Nat /\ room.chunks[i].len \in Nat
       /\ room.chunkSize = Unset \/ room.chunkSize \in Nat
       /\ b = 0 => room.chunkSize = RootChunk
  BY <1>17, ArenaParts
<1>19. /\ c \in ArenaType /\ c.chunks = room.chunks /\ c.committed = room.committed
       /\ c.maps = room.maps /\ c.chunkSize = room.chunkSize /\ c.used = room.used
       /\ c.cur = i /\ c.cursor = at + n
  <2>1. at + n \in Nat
    BY <1>16
  <2> QED BY <2>1, <1>2, <1>16, <1>18 DEF ArenaType
<1>20. ChunksOK(b, c)
  BY <1>17, <1>18, <1>19, SameChunks
<1>21. CursorOK(c)
  BY <1>17, <1>19 DEF CursorOK
<1>22. Keeps(a, c)
  BY <1>17, <1>19 DEF Keeps
<1>23. /\ p \in PlaceType /\ p.budget = b /\ p.bytes = n /\ p.at = at /\ p.chunk = i
       /\ p.map = c.chunks[i].map
  BY <1>2, <1>16, <1>18, <1>19 DEF PlaceType
<1>24. c.used = a.used + AlignUp(n)
  BY <1>8, <1>13, <1>17, <1>19
<1> QED BY <1>16, <1>17, <1>19, <1>20, <1>21, <1>22, <1>23, <1>24 DEF ArenaOK

-------------------------------------------------------------------------------
(* What an arena holds.                                                     *)

\* The block ends at or before a position.
Under(x, p) == x.chunk < p.cur \/ (x.chunk = p.cur /\ x.at + x.bytes <= p.cursor)

\* Intact, of any arena and memory.
Held(a, mem, x) ==
    /\ x.chunk \in DOMAIN a.chunks /\ a.chunks[x.chunk].map = x.map
    /\ x.at + x.bytes <= a.chunks[x.chunk].len
    /\ \A c \in Cells(x) : c \in DOMAIN mem /\ mem[c] = x.id

\* What each block of B was charged, and all of them together.
ChargesOf(B) == [x \in B |-> AlignUp(x.bytes)]

Total(B) == SumOf(ChargesOf(B), B)

\* Arena a of budget b and the memory hold the blocks B, the first e numbered.
Stored(b, a, mem, B, e) ==
    /\ ArenaOK(b, a)
    /\ IsFiniteSet(B)
    /\ \A x \in B :
           /\ x \in BlockType /\ x.budget = b /\ x.id \in 1..e /\ x.at % Align = 0
           /\ Held(a, mem, x) /\ Under(x, a)
    /\ Total(B) <= a.used

\* Memory m differs from mem, whose cells it has, in the arena of b alone.
Elsewhere(b, mem, m) ==
    \A d \in DOMAIN mem : d \in DOMAIN m /\ (d[1][1] # b => m[d] = mem[d])

\* The charge of a block.
LEMMA ChargeOfBlock ==
    ASSUME NEW B, \A x \in B : x \in BlockType
    PROVE  \A x \in B : ChargesOf(B)[x] = AlignUp(x.bytes) /\ ChargesOf(B)[x] \in Nat
<1>1. \A x \in B : x.bytes \in Nat
  BY DEF BlockType
<1>2. \A x \in B : AlignUp(x.bytes) \in Nat
  BY <1>1, AlignedUp
<1> QED BY <1>2 DEF ChargesOf

\* A part of the blocks is charged no more than all of them.
LEMMA TotalOfPart ==
    ASSUME NEW B, IsFiniteSet(B), \A x \in B : x \in BlockType, NEW D \in SUBSET B
    PROVE  /\ IsFiniteSet(D) /\ Total(D) \in Nat /\ Total(B) \in Nat
           /\ Total(D) <= Total(B)
<1>1. IsFiniteSet(D)
  BY FS_Subset
<1>2. \A x \in B : ChargesOf(B)[x] = AlignUp(x.bytes) /\ ChargesOf(B)[x] \in Nat
  BY ChargeOfBlock
<1>3. \A x \in D : ChargesOf(D)[x] = AlignUp(x.bytes) /\ ChargesOf(D)[x] \in Nat
  BY ChargeOfBlock
<1>4. \A x \in D : ChargesOf(B)[x] \in Int /\ ChargesOf(D)[x] = ChargesOf(B)[x]
  BY <1>2, <1>3
<1>5. SumOf(ChargesOf(D), D) = SumOf(ChargesOf(B), D)
  BY <1>1, <1>4, SumSame
<1>6. SumOf(ChargesOf(B), D) <= SumOf(ChargesOf(B), B)
  BY <1>2, SumPart
<1>7. Total(D) \in Nat /\ Total(B) \in Nat
  BY <1>1, <1>2, <1>3, SumOfNats DEF Total
<1> QED BY <1>1, <1>5, <1>6, <1>7 DEF Total

\* One more block, one more charge.
LEMMA TotalGrows ==
    ASSUME NEW B, IsFiniteSet(B), NEW x, x \notin B, \A y \in B \cup {x} : y \in BlockType
    PROVE  IsFiniteSet(B \cup {x}) /\ Total(B \cup {x}) = Total(B) + AlignUp(x.bytes)
<1> DEFINE W == B \cup {x}
<1>1. IsFiniteSet(W) /\ x \in W /\ B \subseteq W /\ \A y \in W : y \in BlockType
  BY FS_AddElement
<1> HIDE DEF W
<1>2. \A y \in W : ChargesOf(W)[y] = AlignUp(y.bytes) /\ ChargesOf(W)[y] \in Nat
  BY <1>1, ChargeOfBlock
<1>3. \A y \in B : ChargesOf(B)[y] = AlignUp(y.bytes) /\ ChargesOf(B)[y] \in Nat
  BY ChargeOfBlock
<1>4. \A y \in B \cup {x} : ChargesOf(W)[y] \in Int
  BY <1>2 DEF W
<1>5. SumOf(ChargesOf(W), B \cup {x}) = SumOf(ChargesOf(W), B) + ChargesOf(W)[x]
  BY <1>4, SumAdd
<1>6. \A y \in B : ChargesOf(B)[y] \in Int /\ ChargesOf(W)[y] = ChargesOf(B)[y]
  BY <1>1, <1>2, <1>3
<1>7. SumOf(ChargesOf(W), B) = SumOf(ChargesOf(B), B)
  BY <1>6, SumSame
<1>8. ChargesOf(W)[x] = AlignUp(x.bytes)
  BY <1>1, <1>2
<1>9. Total(W) = Total(B) + AlignUp(x.bytes)
  BY <1>5, <1>7, <1>8 DEF Total, W
<1> QED BY <1>1, <1>9 DEF W

\* A block that ends before a position ends before any further one.
LEMMA UnderFurther ==
    ASSUME NEW x \in BlockType, NEW p, p.cur \in Nat, p.cursor \in Nat,
           NEW q, q.cur \in Nat, q.cursor \in Nat, Under(x, p), Before(p, q)
    PROVE  Under(x, q)
<1>1. x.chunk \in Nat /\ x.at + x.bytes \in Nat
  BY DEF BlockType
<1> QED BY <1>1 DEF Under, Before

\* Ranges of different mappings have no cell in common, nor have ranges of one
\* that follow one another.
LEMMA CellsApart ==
    ASSUME NEW x \in BlockType, NEW y \in BlockType,
           x.map # y.map \/ x.at + x.bytes <= y.at
    PROVE  Cells(x) \cap Cells(y) = {}
<1>1. /\ x.at \in Nat /\ x.bytes \in Nat /\ y.at \in Nat /\ y.bytes \in Nat
  BY DEF BlockType
<1>2. SUFFICES ASSUME NEW k \in 0..(x.bytes - 1), NEW l \in 0..(y.bytes - 1),
                      <<x.map, x.at + k>> = <<y.map, y.at + l>>
               PROVE  FALSE
  BY DEF Cells
<1>3. x.map = y.map /\ x.at + k = y.at + l
  BY <1>2
<1> QED BY <1>1, <1>3

\* The first component of a cell's mapping is its budget.
LEMMA CellBudget ==
    ASSUME NEW x \in BlockType, NEW c \in Cells(x)
    PROVE  c[1] = x.map
BY DEF Cells

\* n bytes placed in the arena a of budget b when e numbers have been given out:
\* the arena c, the memory m and the block x of it, with number f, that holds v.
Places(b, a, mem, e, n, v, c, m, x, f) ==
    /\ b \in Budgets /\ e \in Nat /\ n \in Nat /\ v \in Int /\ f = e + 1
    /\ c = Placed(b, a, n).arena
    /\ x = Block(Placed(b, a, n).place, f, v)
    /\ m = Written(mem, x)

\* And what that does to an arena that held B.
Grows(b, a, mem, B, n, v, c, m, x, f) ==
    /\ f \in Nat /\ Stored(b, c, m, B \cup {x}, f)
    /\ x \notin B /\ x \in BlockType /\ x.budget = b /\ x.bytes = n
    /\ x.id = f /\ x.value = v
    /\ Before(a, c) /\ Keeps(a, c) /\ c.used = a.used + AlignUp(n)
    /\ Elsewhere(b, mem, m)

\* A placement holds the new block and every block held before.
LEMMA PlacedStored ==
    ASSUME NEW b, NEW a, NEW mem, NEW B, NEW e, Stored(b, a, mem, B, e),
           NEW n, NEW v, NEW c, NEW m, NEW x, NEW f, Places(b, a, mem, e, n, v, c, m, x, f)
    PROVE  Grows(b, a, mem, B, n, v, c, m, x, f)
<1> DEFINE p == Placed(b, a, n).place
<1>1. b \in Budgets /\ e \in Nat /\ n \in Nat /\ v \in Int /\ f = e + 1 /\ f \in Nat
  BY DEF Places
<1>2. c = Placed(b, a, n).arena /\ x = Block(p, f, v) /\ m = Written(mem, x)
  BY DEF Places
<1>3. ArenaOK(b, a)
  BY DEF Stored
<1>4. /\ ArenaOK(b, c) /\ Keeps(a, c)
      /\ p \in PlaceType /\ p.budget = b /\ p.bytes = n /\ p.at % Align = 0
      /\ p.chunk \in DOMAIN c.chunks /\ c.chunks[p.chunk].map = p.map
      /\ p.at + n <= c.chunks[p.chunk].len
      /\ c.cur = p.chunk /\ c.cursor = p.at + n
      /\ (p.chunk = a.cur /\ a.cursor <= p.at) \/ p.chunk = a.cur + 1
      /\ c.used = a.used + AlignUp(n)
  <2> HIDE DEF p
  <2>1. p = Placed(b, a, n).place
    BY DEF p
  <2> QED BY <1>3, <1>1, <1>2, <2>1, PlacedWell
<1>5. x = Block(p, f, v)
  BY <1>2
<1> HIDE DEF p
<1>6. /\ x \in BlockType /\ x.budget = b /\ x.chunk = p.chunk /\ x.map = p.map /\ x.at = p.at
      /\ x.bytes = n /\ x.id = f /\ x.value = v
  <2>1. /\ x.budget = b /\ x.chunk = p.chunk /\ x.map = p.map /\ x.at = p.at
        /\ x.bytes = n /\ x.id = f /\ x.value = v
    BY <1>4, <1>5 DEF Block
  <2>2. x \in BlockType
    BY <1>4, <1>5, <1>1 DEF Block, BlockType, PlaceType
  <2> QED BY <2>1, <2>2
<1>7. /\ ChunksOK(b, a) /\ a.cur \in Nat \ {0} /\ a.cursor \in Nat /\ a.used \in Nat
      /\ DOMAIN a.chunks = 1..Len(a.chunks) /\ Len(a.chunks) \in Nat
      /\ \A i \in 1..Len(a.chunks) : a.chunks[i].map[1] = b
  <2>1. ChunksOK(b, a)
    BY <1>3 DEF ArenaOK
  <2> QED BY <2>1, ArenaParts
<1>8. /\ ChunksOK(b, c) /\ c.cur \in Nat \ {0} /\ c.cursor \in Nat
      /\ DOMAIN c.chunks = 1..Len(c.chunks) /\ Len(c.chunks) \in Nat
      /\ \A i \in 1..Len(c.chunks) : c.chunks[i].map[1] = b
  <2>1. ChunksOK(b, c)
    BY <1>4 DEF ArenaOK
  <2> QED BY <2>1, ArenaParts
<1>9. p.at \in Nat /\ p.chunk \in Nat
  BY <1>4 DEF PlaceType
<1>10. Before(a, c)
  BY <1>4, <1>7, <1>9, <1>1 DEF Before
<1>11. x \notin B
  BY <1>6, <1>1 DEF Stored
<1>12. /\ \A d \in DOMAIN mem : d \in DOMAIN m
       /\ \A d \in DOMAIN mem : d \notin Cells(x) => m[d] = mem[d]
       /\ \A d \in Cells(x) : d \in DOMAIN m /\ m[d] = f
  BY <1>6, <1>2 DEF Written
<1>13. \A d \in DOMAIN mem : d[1][1] # b => m[d] = mem[d]
  <2>1. x.map[1] = b
    BY <1>4, <1>6, <1>8
  <2>2. \A d \in Cells(x) : d[1][1] = b
    BY <2>1, <1>6, CellBudget
  <2> QED BY <2>2, <1>12
<1>14. ASSUME NEW y \in B
       PROVE  /\ y \in BlockType /\ y.budget = b /\ y.id \in 1..f /\ y.at % Align = 0
              /\ Held(c, m, y) /\ Under(y, c)
  <2>1. /\ y \in BlockType /\ y.budget = b /\ y.id \in 1..e /\ y.at % Align = 0
        /\ Held(a, mem, y) /\ Under(y, a)
    BY DEF Stored
  <2>2. /\ y.chunk \in DOMAIN a.chunks /\ a.chunks[y.chunk].map = y.map
        /\ y.at + y.bytes <= a.chunks[y.chunk].len
        /\ \A d \in Cells(y) : d \in DOMAIN mem /\ mem[d] = y.id
    BY <2>1 DEF Held
  <2>3. y.chunk <= a.cur /\ y.chunk \in Nat
    BY <2>1, <1>7 DEF Under, BlockType
  <2>4. y.chunk \in DOMAIN c.chunks /\ c.chunks[y.chunk] = a.chunks[y.chunk]
    <3>1. /\ Len(a.chunks) <= Len(c.chunks)
          /\ \A i \in DOMAIN a.chunks : i <= a.cur => c.chunks[i] = a.chunks[i]
      BY <1>4 DEF Keeps
    <3>2. c.chunks[y.chunk] = a.chunks[y.chunk]
      BY <3>1, <2>2, <2>3
    <3>3. y.chunk \in 1..Len(a.chunks)
      BY <2>2, <1>7
    <3>4. y.chunk \in 1..Len(c.chunks)
      BY <3>1, <3>3, <1>7, <1>8
    <3> QED BY <3>2, <3>4, <1>8
  <2>5. y.map # x.map \/ y.at + y.bytes <= x.at
    <3>1. CASE y.chunk = p.chunk
      <4>1. p.chunk = a.cur /\ a.cursor <= p.at
        BY <3>1, <2>3, <1>4, <1>7, <1>9
      <4>2. y.at + y.bytes <= a.cursor
        BY <3>1, <4>1, <2>1, <2>3, <1>7 DEF Under
      <4>3. y.at + y.bytes \in Nat
        BY <2>1 DEF BlockType
      <4> QED BY <4>1, <4>2, <4>3, <1>6, <1>7, <1>9
    <3>2. CASE y.chunk # p.chunk
      <4>1. c.chunks[y.chunk].map = y.map /\ c.chunks[p.chunk].map = x.map
        BY <2>2, <2>4, <1>4, <1>6
      <4>2. \A i, j \in DOMAIN c.chunks : c.chunks[i].map = c.chunks[j].map => i = j
        BY <1>8 DEF ChunksOK, OwnMaps
      <4>3. c.chunks[y.chunk].map # c.chunks[p.chunk].map
        BY <4>2, <3>2, <2>4, <1>4
      <4> QED BY <4>1, <4>3
    <3> QED BY <3>1, <3>2
  <2>6. Cells(y) \cap Cells(x) = {}
    BY <2>1, <2>5, <1>6, CellsApart
  <2>7. \A d \in Cells(y) : d \in DOMAIN m /\ m[d] = y.id
    BY <2>2, <2>6, <1>12
  <2>8. Held(c, m, y)
    BY <2>2, <2>4, <2>7 DEF Held
  <2>9. Under(y, c)
    BY <2>1, <1>7, <1>8, <1>10, UnderFurther
  <2>10. y.id \in 1..f
    BY <2>1, <1>1
  <2> QED BY <2>1, <2>8, <2>9, <2>10
<1>15. /\ x.id \in 1..f /\ x.at % Align = 0 /\ Held(c, m, x) /\ Under(x, c)
  <2>1. x.id \in 1..f
    BY <1>6, <1>1
  <2>2. Held(c, m, x)
    BY <1>4, <1>6, <1>12 DEF Held
  <2>3. Under(x, c)
    <3>1. c.cursor = x.at + x.bytes /\ c.cur = x.chunk
      BY <1>4, <1>6
    <3> QED BY <3>1, <1>8 DEF Under
  <2> QED BY <2>1, <2>2, <2>3, <1>4, <1>6
<1>16. IsFiniteSet(B \cup {x}) /\ Total(B \cup {x}) <= c.used
  <2>1. IsFiniteSet(B) /\ Total(B) <= a.used /\ \A y \in B : y \in BlockType
    BY DEF Stored
  <2>2. \A y \in B \cup {x} : y \in BlockType
    BY <2>1, <1>6
  <2>3. IsFiniteSet(B \cup {x}) /\ Total(B \cup {x}) = Total(B) + AlignUp(x.bytes)
    BY <2>1, <2>2, <1>11, TotalGrows
  <2>4. B \in SUBSET B
    OBVIOUS
  <2>5. Total(B) \in Nat /\ AlignUp(n) \in Nat
    BY <2>1, <2>4, <1>1, TotalOfPart, AlignedUp
  <2>6. AlignUp(x.bytes) = AlignUp(n)
    BY <1>6
  <2> QED BY <2>1, <2>3, <2>5, <2>6, <1>4, <1>7
<1>17. Stored(b, c, m, B \cup {x}, f)
  <2>1. \A y \in B \cup {x} :
            /\ y \in BlockType /\ y.budget = b /\ y.id \in 1..f /\ y.at % Align = 0
            /\ Held(c, m, y) /\ Under(y, c)
    BY <1>6, <1>14, <1>15
  <2> QED BY <2>1, <1>4, <1>16 DEF Stored
<1>18. Elsewhere(b, mem, m)
  BY <1>12, <1>13 DEF Elsewhere
<1> QED BY <1>4, <1>6, <1>10, <1>11, <1>17, <1>18, <1>1 DEF Grows

-------------------------------------------------------------------------------
(* Positions.                                                               *)

\* A position an arena can be rewound to.
PointIn(a, p) ==
    \/ p.cur = 1 /\ p.cursor = 0
    \/ p.cur \in DOMAIN a.chunks /\ p.cursor <= a.chunks[p.cur].len

\* p is a position of budget b, whose arena is a, as it was after event e: the
\* blocks of B made by then end before it.
Marked(a, B, n, b, p, e) ==
    /\ p \in Position /\ e \in 0..n
    /\ PointIn(a, p) /\ Before(p, a)
    /\ \A x \in B : x.budget = b /\ x.id <= e => Under(x, p)

\* Positions come one after the other.
LEMMA BeforeTransitive ==
    ASSUME NEW p, NEW q, NEW r,
           p.cur \in Nat, p.cursor \in Nat, q.cur \in Nat, q.cursor \in Nat,
           r.cur \in Nat, r.cursor \in Nat, Before(p, q), Before(q, r)
    PROVE  Before(p, r)
BY DEF Before

\* An arena that goes on from one that went on from a third goes on from it.
LEMMA KeepsTransitive ==
    ASSUME NEW a, NEW b, NEW c, NEW d, NEW e, NEW f,
           ChunksOK(d, a), ChunksOK(e, b), ChunksOK(f, c),
           Keeps(a, b), Keeps(b, c), Before(a, b)
    PROVE  Keeps(a, c)
<1>1. /\ Len(a.chunks) \in Nat /\ DOMAIN a.chunks = 1..Len(a.chunks) /\ a.cur \in Nat
      /\ Len(b.chunks) \in Nat /\ DOMAIN b.chunks = 1..Len(b.chunks) /\ b.cur \in Nat
      /\ Len(c.chunks) \in Nat
  BY ArenaParts
<1>2. a.cur <= b.cur
  BY <1>1 DEF Before
<1>3. \A i \in DOMAIN a.chunks : i <= a.cur => i \in DOMAIN b.chunks /\ i <= b.cur
  BY <1>1, <1>2 DEF Keeps
<1>4. \A i \in DOMAIN a.chunks : i <= a.cur => c.chunks[i] = a.chunks[i]
  BY <1>3 DEF Keeps
<1>5. Len(a.chunks) <= Len(c.chunks)
  BY <1>1 DEF Keeps
<1> QED BY <1>4, <1>5 DEF Keeps

\* A mark passes the assertions of restore.
LEMMA MarkedInArena ==
    ASSUME NEW a, NEW B, NEW n, NEW b, NEW p, NEW e, NEW d,
           Marked(a, B, n, b, p, e), ChunksOK(d, a)
    PROVE  InArena(a, p)
<1>1. Len(a.chunks) \in Nat /\ DOMAIN a.chunks = 1..Len(a.chunks)
  BY ArenaParts
<1>2. p.cur <= Len(a.chunks) \/ (p.cur = 1 /\ p.cursor = 0)
  BY <1>1 DEF Marked, PointIn
<1> QED BY <1>2 DEF InArena, Marked, Before

\* An arena a has become c without coming back before p, and what it has up to
\* there is as it was.
Past(p, a, c) ==
    /\ Before(p, c) /\ Len(a.chunks) <= Len(c.chunks)
    /\ \A i \in DOMAIN a.chunks : i <= p.cur => c.chunks[i] = a.chunks[i]

\* The blocks of D are those of B, or newer than all numbered up to n.
NoneOlder(B, D, n) == \A x \in D : x \in BlockType /\ (x.id <= n => x \in B)

\* Where an arena stands is a position of it, now and for all its blocks.
LEMMA PackedMark ==
    ASSUME NEW b, NEW a, NEW B, NEW n \in Nat, ArenaOK(b, a),
           \A x \in B : x.budget = b => Under(x, a)
    PROVE  Marked(a, B, n, b, Pack(a), n) /\ Before(Pack(a), a)
           /\ Pack(a).cur = a.cur /\ Pack(a).cursor = a.cursor
<1>1. ChunksOK(b, a)
  BY DEF ArenaOK
<1>2. a.cur \in Nat \ {0} /\ a.cursor \in Nat
  BY <1>1, ArenaParts
<1>3. Pack(a) \in Position /\ Pack(a).cur = a.cur /\ Pack(a).cursor = a.cursor
  BY <1>2 DEF Pack, Position
<1>4. PointIn(a, Pack(a))
  BY <1>3 DEF PointIn, ArenaOK, CursorOK
<1>5. Before(Pack(a), a)
  BY <1>2, <1>3 DEF Before
<1>6. \A x \in B : x.budget = b /\ x.id <= n => Under(x, Pack(a))
  BY <1>3 DEF Under
<1>7. n \in 0..n
  OBVIOUS
<1> QED BY <1>3, <1>4, <1>5, <1>6, <1>7 DEF Marked

\* A position stays good as long as the arena stays beyond it, its chunks up to
\* there are kept, and no older block turns up.
LEMMA MarkKept ==
    ASSUME NEW a, NEW B, NEW n \in Nat, NEW b, NEW p, NEW e, Marked(a, B, n, b, p, e),
           NEW c, NEW d, ChunksOK(d, a), NEW f, ChunksOK(f, c), Past(p, a, c),
           NEW D, NoneOlder(B, D, n), NEW m \in Nat, n <= m
    PROVE  Marked(c, D, m, b, p, e)
<1>1. /\ Len(a.chunks) \in Nat /\ DOMAIN a.chunks = 1..Len(a.chunks)
      /\ Len(c.chunks) \in Nat /\ DOMAIN c.chunks = 1..Len(c.chunks)
  BY ArenaParts
<1>2. /\ p \in Position /\ e \in 0..n /\ PointIn(a, p)
      /\ \A x \in B : x.budget = b /\ x.id <= e => Under(x, p)
  BY DEF Marked
<1>3. p.cur \in Nat /\ p.cursor \in Nat
  BY <1>2 DEF Position
<1>4. PointIn(c, p)
  <2>1. CASE p.cur = 1 /\ p.cursor = 0
    BY <2>1 DEF PointIn
  <2>2. CASE p.cur \in DOMAIN a.chunks /\ p.cursor <= a.chunks[p.cur].len
    <3>1. p.cur \in DOMAIN c.chunks
      BY <2>2, <1>1 DEF Past
    <3>2. c.chunks[p.cur] = a.chunks[p.cur]
      BY <2>2, <1>3 DEF Past
    <3> QED BY <2>2, <3>1, <3>2 DEF PointIn
  <2> QED BY <2>1, <2>2, <1>2 DEF PointIn
<1>5. e \in 0..m
  BY <1>2
<1>6. ASSUME NEW x \in D, x.budget = b, x.id <= e
      PROVE  Under(x, p)
  <2>1. x.id \in Nat /\ (x.id <= n => x \in B)
    BY DEF NoneOlder, BlockType
  <2>2. x.id <= n
    BY <1>2, <1>6, <2>1
  <2> QED BY <1>2, <1>6, <2>1, <2>2
<1> QED BY <1>2, <1>4, <1>5, <1>6 DEF Marked, Past

\* All of D end at or before p.
EndBefore(D, p) == \A x \in D : Under(x, p)

\* The arena a as a rewind to p leaves it, charged u.
Back(a, p, u) == [a EXCEPT !.cur = p.cur, !.cursor = p.cursor, !.used = u]

\* An arena rewound to a position holds the blocks that end before it.
LEMMA RewoundStored ==
    ASSUME NEW b \in Budgets, NEW a, NEW mem, NEW B, NEW e \in Nat, Stored(b, a, mem, B, e),
           NEW p \in Position, PointIn(a, p),
           NEW D \in SUBSET B, EndBefore(D, p),
           NEW u \in Nat, Total(D) <= u,
           NEW c, c = Back(a, p, u)
    PROVE  /\ Stored(b, c, mem, D, e)
           /\ c.chunks = a.chunks /\ c.cur = p.cur /\ c.cursor = p.cursor /\ c.used = u
<1>1. ArenaOK(b, a) /\ ChunksOK(b, a) /\ IsFiniteSet(B)
  BY DEF Stored, ArenaOK
<1>2. /\ a \in ArenaType /\ Len(a.chunks) \in Nat /\ DOMAIN a.chunks = 1..Len(a.chunks)
      /\ a.chunks \in Seq(ChunkType)
      /\ \A i \in 1..Len(a.chunks) : a.chunks[i].len \in Nat
      /\ a.chunkSize = Unset \/ a.chunkSize \in Nat
      /\ b = 0 => a.chunkSize = RootChunk
  BY <1>1, ArenaParts
<1>3. p.cur \in Nat \ {0} /\ p.cursor \in Nat
  BY DEF Position
<1>4. /\ c.chunks = a.chunks /\ c.cur = p.cur /\ c.cursor = p.cursor /\ c.used = u
      /\ c.committed = a.committed /\ c.maps = a.maps /\ c.chunkSize = a.chunkSize
  BY <1>2 DEF ArenaType, Back
<1>5. c \in ArenaType
  BY <1>2, <1>3 DEF ArenaType, Back
<1>6. ChunksOK(b, c)
  BY <1>1, <1>2, <1>4, <1>5, SameChunks
<1>7. CursorOK(c)
  <2>1. CASE p.cur \in DOMAIN a.chunks /\ p.cursor <= a.chunks[p.cur].len
    BY <2>1, <1>4 DEF CursorOK
  <2>2. CASE p.cur = 1 /\ p.cursor = 0 /\ a.chunks = <<>>
    BY <2>2, <1>4 DEF CursorOK
  <2>3. CASE p.cur = 1 /\ p.cursor = 0 /\ a.chunks # <<>>
    <3>1. 1 \in 1..Len(a.chunks)
      BY <2>3, <1>2, EmptySeq
    <3>2. p.cur \in DOMAIN a.chunks /\ p.cursor <= a.chunks[p.cur].len
      BY <2>3, <3>1, <1>2
    <3> QED BY <3>2, <1>4 DEF CursorOK
  <2> QED BY <2>1, <2>2, <2>3 DEF PointIn
<1>8. IsFiniteSet(D)
  BY <1>1, FS_Subset
<1>9. ASSUME NEW x \in D
      PROVE  /\ x \in BlockType /\ x.budget = b /\ x.id \in 1..e /\ x.at % Align = 0
             /\ Held(c, mem, x) /\ Under(x, c)
  <2>1. /\ x \in BlockType /\ x.budget = b /\ x.id \in 1..e /\ x.at % Align = 0
        /\ Held(a, mem, x)
    BY DEF Stored
  <2>2. Held(c, mem, x)
    BY <2>1, <1>4 DEF Held
  <2>3. Under(x, c)
    BY <1>4 DEF Under, EndBefore
  <2> QED BY <2>1, <2>2, <2>3
<1>10. Stored(b, c, mem, D, e)
  BY <1>4, <1>6, <1>7, <1>8, <1>9 DEF Stored, ArenaOK
<1> QED BY <1>4, <1>10

\* The arena of another budget does not notice a placement.
LEMMA StoredElsewhere ==
    ASSUME NEW b, NEW a, NEW mem, NEW B, NEW e \in Nat, Stored(b, a, mem, B, e),
           NEW f \in Nat, e <= f, NEW other, other # b,
           NEW m, Elsewhere(other, mem, m)
    PROVE  Stored(b, a, m, B, f)
<1>1. ASSUME NEW x \in B
      PROVE  /\ x \in BlockType /\ x.budget = b /\ x.id \in 1..f /\ x.at % Align = 0
             /\ Held(a, m, x) /\ Under(x, a)
  <2>1. /\ x \in BlockType /\ x.budget = b /\ x.id \in 1..e /\ x.at % Align = 0
        /\ Held(a, mem, x) /\ Under(x, a)
    BY DEF Stored
  <2>2. /\ x.chunk \in DOMAIN a.chunks /\ a.chunks[x.chunk].map = x.map
        /\ x.at + x.bytes <= a.chunks[x.chunk].len
        /\ \A c \in Cells(x) : c \in DOMAIN mem /\ mem[c] = x.id
    BY <2>1 DEF Held
  <2>3. x.map[1] = b
    <3>1. ChunksOK(b, a)
      BY DEF Stored, ArenaOK
    <3> QED BY <3>1, <2>2 DEF ChunksOK, OwnMaps
  <2>4. \A c \in Cells(x) : c \in DOMAIN m /\ m[c] = x.id
    <3>1. \A c \in Cells(x) : c[1] = x.map
      BY <2>1, CellBudget
    <3> QED BY <3>1, <2>2, <2>3 DEF Elsewhere
  <2>5. Held(a, m, x)
    BY <2>2, <2>4 DEF Held
  <2>6. x.id \in 1..f
    BY <2>1
  <2> QED BY <2>1, <2>5, <2>6
<1> QED BY <1>1 DEF Stored

\* The blocks held are intact, in the words of the module.
LEMMA HeldIntact ==
    ASSUME NEW x, Held(arena[x.budget], memory, x)
    PROVE  Intact(x)
BY DEF Held, Intact

-------------------------------------------------------------------------------
(* The inductive invariant.                                                 *)

\* The entries of `marks` and of `windows`.
MarkType == [mark : Position, budget : Budgets, born : Nat]

WindowType ==
    [kind : {"pass", "forward"}, phase : {"body", "helper", "backward"}, mark : Position,
     used : Nat, born : Nat, depth : Nat]

\* The blocks of B in budget b, and those of them numbered up to e.
Of(B, b) == {x \in B : x.budget = b}

Older(B, b, e) == {x \in B : x.budget = b /\ x.id <= e}

\* The kinds of things the variables hold.
Shape ==
    /\ entered \in Budgets /\ events \in Nat
    /\ marks \in Seq(MarkType) /\ windows \in Seq(WindowType)
    /\ arena = [b \in Budgets |-> arena[b]]
    /\ blocks \subseteq BlockType
    /\ IsFiniteSet(DOMAIN slots) /\ DOMAIN slots \subseteq Params
    /\ \A q \in DOMAIN slots : slots[q] \in BlockType

\* Every arena holds its live blocks, below its cursor and within its limit.
StoreInv ==
    \A b \in Budgets :
        Stored(b, arena[b], memory, Of(blocks, b), events) /\ arena[b].used <= Extent[b]

\* Every mark in use is a position of the budget it was taken under.
MarkInv ==
    \A i \in 1..Len(marks) :
        Marked(arena[marks[i].budget], blocks, events, marks[i].budget, marks[i].mark, marks[i].born)

\* A @grad call was entered at such a position, with the meter at or above the
\* charge of what was live then.
WindowOK(a, B, n, b, w, d) ==
    /\ Marked(a, B, n, b, w.mark, w.born)
    /\ w.depth <= d /\ w.used <= Extent[b]
    /\ Total(Older(B, b, w.born)) <= w.used

\* Every @grad call in progress was entered in the budget entered now.
WindowInv ==
    \A k \in 1..Len(windows) :
        WindowOK(arena[entered], blocks, events, entered, windows[k], Len(marks))

\* Later marks and calls are further on.
Ordered(ms, ws, b) ==
    /\ \A i, j \in 1..Len(ms) :
           i < j /\ ms[i].budget = ms[j].budget => Before(ms[i].mark, ms[j].mark)
    /\ \A k, l \in 1..Len(ws) :
           k < l => Before(ws[k].mark, ws[l].mark) /\ ws[k].depth <= ws[l].depth
    /\ \A i \in 1..Len(ms), k \in 1..Len(ws) :
           ms[i].budget = b => IF i <= ws[k].depth THEN Before(ms[i].mark, ws[k].mark)
                               ELSE Before(ws[k].mark, ms[i].mark)

\* The inductive invariant.
Inv ==
    /\ Shape /\ StoreInv /\ MarkInv /\ WindowInv
    /\ Ordered(marks, windows, entered)
    /\ panicked = FALSE

-------------------------------------------------------------------------------

\* The types of what marks and calls hold.
LEMMA MarkParts ==
    ASSUME Shape
    PROVE  /\ Len(marks) \in Nat /\ Len(windows) \in Nat
           /\ \A i \in 1..Len(marks) :
                  /\ marks[i] \in MarkType /\ marks[i].budget \in Budgets /\ marks[i].born \in Nat
                  /\ marks[i].mark \in Position
                  /\ marks[i].mark.cur \in Nat \ {0} /\ marks[i].mark.cursor \in Nat
           /\ \A k \in 1..Len(windows) :
                  /\ windows[k] \in WindowType
                  /\ windows[k].mark \in Position /\ windows[k].used \in Nat
                  /\ windows[k].born \in Nat /\ windows[k].depth \in Nat
                  /\ windows[k].mark.cur \in Nat \ {0} /\ windows[k].mark.cursor \in Nat
<1>1. Len(marks) \in Nat /\ Len(windows) \in Nat
  BY LenProperties DEF Shape
<1>2. \A p \in Position : p.cur \in Nat \ {0} /\ p.cursor \in Nat
  BY DEF Position
<1>3. \A i \in 1..Len(marks) : marks[i] \in MarkType
  BY ElementOfSeq DEF Shape
<1>4. \A k \in 1..Len(windows) : windows[k] \in WindowType
  BY ElementOfSeq DEF Shape
<1>5. \A m \in MarkType : m.budget \in Budgets /\ m.mark \in Position /\ m.born \in Nat
  BY DEF MarkType
<1>6. \A w \in WindowType :
          w.mark \in Position /\ w.used \in Nat /\ w.born \in Nat /\ w.depth \in Nat
  BY DEF WindowType
<1> QED BY <1>1, <1>2, <1>3, <1>4, <1>5, <1>6

\* The first marks and the first calls are ordered as all of them are.
LEMMA OrderedPart ==
    ASSUME NEW ms, NEW ws, NEW b, Ordered(ms, ws, b), Len(ms) \in Nat, Len(ws) \in Nat,
           NEW ns, Len(ns) \in Nat, Len(ns) <= Len(ms),
           \A i \in 1..Len(ns) : ns[i] = ms[i],
           NEW vs, Len(vs) \in Nat, Len(vs) <= Len(ws),
           \A k \in 1..Len(vs) : vs[k].mark = ws[k].mark /\ vs[k].depth = ws[k].depth
    PROVE  Ordered(ns, vs, b)
<1>1. /\ \A i \in 1..Len(ns) : i \in 1..Len(ms)
      /\ \A k \in 1..Len(vs) : k \in 1..Len(ws)
  OBVIOUS
<1>2. \A i, j \in 1..Len(ns) :
          i < j /\ ns[i].budget = ns[j].budget => Before(ns[i].mark, ns[j].mark)
  BY <1>1 DEF Ordered
<1>3. \A k, l \in 1..Len(vs) :
          k < l => Before(vs[k].mark, vs[l].mark) /\ vs[k].depth <= vs[l].depth
  <2> SUFFICES ASSUME NEW k \in 1..Len(vs), NEW l \in 1..Len(vs), k < l
               PROVE  Before(vs[k].mark, vs[l].mark) /\ vs[k].depth <= vs[l].depth
    OBVIOUS
  <2>1. Before(ws[k].mark, ws[l].mark) /\ ws[k].depth <= ws[l].depth
    BY <1>1 DEF Ordered
  <2> QED BY <2>1
<1>4. \A i \in 1..Len(ns), k \in 1..Len(vs) :
          ns[i].budget = b => IF i <= vs[k].depth THEN Before(ns[i].mark, vs[k].mark)
                              ELSE Before(vs[k].mark, ns[i].mark)
  <2> SUFFICES ASSUME NEW i \in 1..Len(ns), NEW k \in 1..Len(vs), ns[i].budget = b
               PROVE  IF i <= vs[k].depth THEN Before(ns[i].mark, vs[k].mark)
                      ELSE Before(vs[k].mark, ns[i].mark)
    OBVIOUS
  <2>1. IF i <= ws[k].depth THEN Before(ms[i].mark, ws[k].mark) ELSE Before(ws[k].mark, ms[i].mark)
    BY <1>1 DEF Ordered
  <2> QED BY <2>1
<1> QED BY <1>2, <1>3, <1>4 DEF Ordered

\* The arenas of A are those of `arena` but for c, that of the budget entered.
Replaced(A, c) == A[entered] = c /\ \A b \in Budgets \ {entered} : A[b] = arena[b]

\* Only blocks of the budget entered come and go.
SameElsewhere(B) == \A b \in Budgets \ {entered} : Of(B, b) = Of(blocks, b)

\* StoreInv of any arenas, memory, blocks and count.
StoreOK(A, m, B, n) ==
    \A b \in Budgets : Stored(b, A[b], m, Of(B, b), n) /\ A[b].used <= Extent[b]

\* A change of the arena entered, seen from all of them.
LEMMA StoreStep ==
    ASSUME Shape, StoreInv,
           NEW c, NEW m, NEW B, NEW f \in Nat, events <= f,
           Stored(entered, c, m, Of(B, entered), f), c.used <= Extent[entered],
           SameElsewhere(B), Elsewhere(entered, memory, m),
           NEW A, Replaced(A, c)
    PROVE  StoreOK(A, m, B, f)
<1>1. A[entered] = c /\ \A b \in Budgets \ {entered} : A[b] = arena[b]
  BY DEF Replaced
<1>2. ASSUME NEW b \in Budgets, b # entered
      PROVE  Stored(b, A[b], m, Of(B, b), f) /\ A[b].used <= Extent[b]
  <2>1. Stored(b, arena[b], memory, Of(blocks, b), events) /\ arena[b].used <= Extent[b]
    BY DEF StoreInv
  <2>2. events \in Nat
    BY DEF Shape
  <2>3. Stored(b, arena[b], m, Of(blocks, b), f)
    <3>1. entered # b
      BY <1>2
    <3> QED BY <3>1, <2>1, <2>2, StoredElsewhere
  <2>4. A[b] = arena[b] /\ Of(B, b) = Of(blocks, b)
    BY <1>1, <1>2 DEF SameElsewhere
  <2> QED BY <2>1, <2>3, <2>4
<1>3. \A b \in Budgets :
          Stored(b, A[b], m, Of(B, b), f) /\ A[b].used <= Extent[b]
  BY <1>1, <1>2
<1> QED BY <1>3 DEF StoreOK

\* The same of one position: good if it is in another budget, or before the
\* place the arena is left at and nothing below it was remapped.
LEMMA MarkStep ==
    ASSUME Shape, StoreInv,
           NEW b \in Budgets, NEW p, NEW e, Marked(arena[b], blocks, events, b, p, e),
           NEW c, ChunksOK(entered, c), NEW A, Replaced(A, c),
           NEW B, NoneOlder(blocks, B, events), NEW f \in Nat, events <= f,
           b = entered => Past(p, arena[b], c)
    PROVE  Marked(A[b], B, f, b, p, e)
<1>1. ChunksOK(b, arena[b]) /\ events \in Nat
  BY DEF Shape, StoreInv, Stored, ArenaOK
<1>2. CASE b = entered
  <2>1. A[b] = c /\ ChunksOK(b, c) /\ Past(p, arena[b], c)
    BY <1>2 DEF Replaced
  <2>2. Marked(c, B, f, b, p, e)
    BY <1>1, <2>1, MarkKept
  <2> QED BY <2>1, <2>2
<1>3. CASE b # entered
  <2>1. A[b] = arena[b]
    BY <1>3 DEF Replaced
  <2>2. Past(p, arena[b], arena[b])
    <3>1. Len(arena[b].chunks) \in Nat
      BY <1>1, ArenaParts
    <3> QED BY <3>1 DEF Marked, Past
  <2>3. Marked(arena[b], B, f, b, p, e)
    BY <1>1, <2>2, MarkKept
  <2> QED BY <2>1, <2>3
<1> QED BY <1>2, <1>3

\* The same of a @grad call.
LEMMA WindowStep ==
    ASSUME Shape, StoreInv,
           NEW w, w.used \in Nat, NEW d, WindowOK(arena[entered], blocks, events, entered, w, d),
           NEW c, ChunksOK(entered, c), NEW A, Replaced(A, c),
           NEW B, NoneOlder(blocks, B, events), NEW f \in Nat, events <= f,
           Past(w.mark, arena[entered], c), NEW g, w.depth <= g
    PROVE  WindowOK(A[entered], B, f, entered, w, g)
<1>1. /\ Marked(arena[entered], blocks, events, entered, w.mark, w.born)
      /\ w.used <= Extent[entered] /\ Total(Older(blocks, entered, w.born)) <= w.used
  BY DEF WindowOK
<1>2. entered \in Budgets /\ events \in Nat /\ blocks \subseteq BlockType
  BY DEF Shape
<1>3. Marked(A[entered], B, f, entered, w.mark, w.born)
  BY <1>1, <1>2, MarkStep
<1>4. Older(B, entered, w.born) \subseteq Older(blocks, entered, w.born)
  <2>1. w.born \in 0..events
    BY <1>1 DEF Marked
  <2>2. \A x \in B : x.id \in Nat /\ (x.id <= events => x \in blocks)
    BY DEF BlockType, NoneOlder
  <2> QED BY <1>2, <2>1, <2>2 DEF Older
<1>5. IsFiniteSet(Older(blocks, entered, w.born))
  <2>1. IsFiniteSet(Of(blocks, entered))
    BY <1>2 DEF StoreInv, Stored
  <2>2. Older(blocks, entered, w.born) \subseteq Of(blocks, entered)
    BY DEF Older, Of
  <2> QED BY <2>1, <2>2, FS_Subset
<1>6. \A x \in Older(blocks, entered, w.born) : x \in BlockType
  BY <1>2 DEF Older
<1>7. /\ Total(Older(B, entered, w.born)) \in Nat
      /\ Total(Older(blocks, entered, w.born)) \in Nat
      /\ Total(Older(B, entered, w.born)) <= Total(Older(blocks, entered, w.born))
  BY <1>4, <1>5, <1>6, TotalOfPart
<1>8. w.used <= Extent[entered] /\ Total(Older(B, entered, w.born)) <= w.used
  <2>1. \A t, u, v \in Nat : t <= u /\ u <= v => t <= v
    OBVIOUS
  <2> QED BY <1>1, <1>7, <2>1
<1> QED BY <1>3, <1>8 DEF WindowOK

\* An arena further on than another is further on than the marks of that one.
LEMMA MarkBelow ==
    ASSUME NEW b, NEW a, ChunksOK(b, a), NEW d, NEW c, ChunksOK(d, c),
           NEW B, NEW n, NEW l, NEW p, NEW e, Marked(a, B, n, l, p, e),
           Before(a, c), Keeps(a, c)
    PROVE  Past(p, a, c)
<1>1. /\ a.cur \in Nat /\ a.cursor \in Nat /\ DOMAIN a.chunks = 1..Len(a.chunks)
      /\ Len(a.chunks) \in Nat /\ c.cur \in Nat /\ c.cursor \in Nat
  BY ArenaParts
<1>2. Before(p, a) /\ p.cur \in Nat /\ p.cursor \in Nat
  BY DEF Marked, Position
<1>3. Before(p, c)
  BY <1>1, <1>2, BeforeTransitive
<1>4. p.cur <= a.cur
  BY <1>1, <1>2 DEF Before
<1>5. \A i \in DOMAIN a.chunks : i <= p.cur => i <= a.cur
  BY <1>1, <1>2, <1>4
<1> QED BY <1>3, <1>5 DEF Keeps, Past

\* What the invariant says of the arena entered.
LEMMA EnteredArena ==
    ASSUME Shape, StoreInv
    PROVE  /\ entered \in Budgets /\ events \in Nat
           /\ Stored(entered, arena[entered], memory, Of(blocks, entered), events)
           /\ ArenaOK(entered, arena[entered]) /\ ChunksOK(entered, arena[entered])
           /\ arena[entered] \in ArenaType /\ arena[entered].used \in Nat
           /\ arena[entered].used <= Extent[entered]
           /\ Extent[entered] \in Nat
           /\ \A x \in blocks : x.budget = entered => Under(x, arena[entered])
<1>1. /\ entered \in Budgets /\ events \in Nat
      /\ Stored(entered, arena[entered], memory, Of(blocks, entered), events)
      /\ arena[entered].used <= Extent[entered]
  BY DEF Shape, StoreInv
<1>2. ArenaOK(entered, arena[entered]) /\ ChunksOK(entered, arena[entered])
  BY <1>1 DEF Stored, ArenaOK
<1>3. \A x \in blocks : x.budget = entered => Under(x, arena[entered])
  BY <1>1 DEF Stored, Of
<1>4. arena[entered] \in ArenaType /\ arena[entered].used \in Nat
  BY <1>2, ArenaParts
<1>5. Extent[entered] \in Nat
  BY <1>1, ArenaAssumption
<1> QED BY <1>1, <1>2, <1>3, <1>4, <1>5

\* Ids of the live blocks are numbers given out.
LEMMA BlockIds ==
    ASSUME Shape, StoreInv
    PROVE  \A x \in blocks : x \in BlockType /\ x.budget \in Budgets /\ x.id \in 1..events
<1>1. \A x \in blocks : x \in BlockType /\ x.budget \in Budgets /\ x \in Of(blocks, x.budget)
  BY DEF Shape, BlockType, Of
<1> QED BY <1>1 DEF StoreInv, Stored

\* It holds before anything is mapped.
LEMMA InvInit == Init => Inv
<1> SUFFICES ASSUME Init
             PROVE  Inv
  OBVIOUS
<1>1. /\ arena = [b \in Budgets |-> Fresh(b)] /\ memory = <<>> /\ entered = 0 /\ marks = <<>>
      /\ windows = <<>> /\ slots = <<>> /\ blocks = {} /\ events = 0 /\ panicked = FALSE
  BY DEF Init
<1>2. Len(marks) = 0 /\ Len(windows) = 0 /\ DOMAIN slots = {}
  BY <1>1
<1>3. Shape
  <2>1. marks \in Seq(MarkType) /\ windows \in Seq(WindowType)
    BY <1>1
  <2>2. IsFiniteSet(DOMAIN slots)
    BY <1>2, FS_EmptySet
  <2>3. entered \in Budgets /\ events \in Nat
    BY <1>1, ArenaAssumption
  <2> QED BY <1>1, <1>2, <2>1, <2>2, <2>3 DEF Shape
<1>4. ASSUME NEW b \in Budgets
      PROVE  Stored(b, arena[b], memory, Of(blocks, b), events) /\ arena[b].used <= Extent[b]
  <2>1. arena[b] = Fresh(b)
    BY <1>1
  <2>2. /\ arena[b].chunks = <<>> /\ arena[b].cur = 1 /\ arena[b].cursor = 0 /\ arena[b].used = 0
        /\ arena[b].committed = 0 /\ arena[b].maps = 0
        /\ arena[b].chunkSize = IF b = 0 THEN RootChunk ELSE Unset
    BY <2>1 DEF Fresh
  <2>3. arena[b].chunkSize \in Int /\ (arena[b].chunkSize = Unset \/ arena[b].chunkSize \in Nat)
    BY <2>2, ArenaAssumption DEF Unset
  <2>4. arena[b] \in ArenaType
    <3>1. <<>> \in Seq(ChunkType)
      OBVIOUS
    <3> QED BY <2>1, <2>2, <2>3, <3>1 DEF Fresh, ArenaType
  <2>5. DOMAIN arena[b].chunks = {}
    BY <2>2
  <2>6. SumOf(Lengths(arena[b]), DOMAIN arena[b].chunks) = 0
    BY <2>5, SumEmpty
  <2>7. OwnMaps(b, arena[b])
    BY <2>5 DEF OwnMaps
  <2>8. ArenaOK(b, arena[b])
    BY <2>2, <2>3, <2>4, <2>6, <2>7 DEF ArenaOK, ChunksOK, CursorOK
  <2>9. Of(blocks, b) = {} /\ IsFiniteSet({})
    BY <1>1, FS_EmptySet DEF Of
  <2>10. Total({}) = 0
    BY SumEmpty DEF Total
  <2>11. Stored(b, arena[b], memory, {}, events)
    BY <2>2, <2>8, <2>9, <2>10 DEF Stored
  <2>12. Extent[b] \in Nat
    BY ArenaAssumption
  <2> QED BY <2>2, <2>9, <2>11, <2>12
<1>5. StoreInv
  BY <1>4 DEF StoreInv
<1>6. MarkInv /\ WindowInv /\ Ordered(marks, windows, entered)
  BY <1>2 DEF MarkInv, WindowInv, Ordered
<1> QED BY <1>1, <1>3, <1>5, <1>6 DEF Inv

\* t is the beginning of s.
Begins(t, s) == Len(t) \in Nat /\ Len(t) <= Len(s) /\ \A i \in 1..Len(t) : t[i] = s[i]

\* vs are the first of the calls ws, whatever they are doing.
FirstCalls(vs, ws) ==
    /\ Len(vs) \in Nat /\ Len(vs) <= Len(ws)
    /\ \A k \in 1..Len(vs) :
           /\ vs[k].mark = ws[k].mark /\ vs[k].used = ws[k].used
           /\ vs[k].born = ws[k].born /\ vs[k].depth = ws[k].depth

\* The first l marks, and calls, keep their place when c replaces the arena.
MarksPast(l, c) ==
    \A i \in 1..l : marks[i].budget = entered => Past(marks[i].mark, arena[entered], c)

\* The same of the first l calls, none of which remembers more than d marks.
CallsPast(l, d, c) ==
    \A k \in 1..l : Past(windows[k].mark, arena[entered], c) /\ windows[k].depth <= d

\* A step that leaves the budget entered, and marks and calls where the arena
\* does not go back beyond them.
LEMMA PointsStep ==
    ASSUME Inv, entered' = entered, Begins(marks', marks), FirstCalls(windows', windows),
           events' \in Nat, events <= events', NoneOlder(blocks, blocks', events),
           NEW c, ChunksOK(entered, c), Replaced(arena', c),
           MarksPast(Len(marks'), c), CallsPast(Len(windows'), Len(marks'), c)
    PROVE  MarkInv' /\ WindowInv' /\ Ordered(marks, windows, entered)'
<1>1. Shape /\ StoreInv /\ MarkInv /\ WindowInv /\ Ordered(marks, windows, entered)
  BY DEF Inv
<1>2. /\ Len(marks') \in Nat /\ Len(marks') <= Len(marks) /\ Len(marks) \in Nat
      /\ \A i \in 1..Len(marks') : marks'[i] = marks[i]
      /\ \A i \in 1..Len(marks') : i \in 1..Len(marks)
  BY <1>1, MarkParts DEF Begins
<1>3. /\ Len(windows') \in Nat /\ Len(windows') <= Len(windows) /\ Len(windows) \in Nat
      /\ \A k \in 1..Len(windows') :
             /\ windows'[k].mark = windows[k].mark /\ windows'[k].used = windows[k].used
             /\ windows'[k].born = windows[k].born /\ windows'[k].depth = windows[k].depth
      /\ \A k \in 1..Len(windows') : k \in 1..Len(windows)
  BY <1>1, MarkParts DEF FirstCalls
<1>4. ASSUME NEW i \in 1..Len(marks')
      PROVE  Marked(arena'[marks'[i].budget], blocks', events', marks'[i].budget, marks'[i].mark, marks'[i].born)
  <2>1. /\ Marked(arena[marks[i].budget], blocks, events, marks[i].budget, marks[i].mark, marks[i].born)
        /\ marks[i].budget \in Budgets
    BY <1>1, <1>2, MarkParts DEF MarkInv
  <2>2. marks[i].budget = entered => Past(marks[i].mark, arena[marks[i].budget], c)
    BY DEF MarksPast
  <2>3. Marked(arena'[marks[i].budget], blocks', events', marks[i].budget, marks[i].mark, marks[i].born)
    BY <2>1, <2>2, <1>1, MarkStep
  <2> QED BY <2>3, <1>2
<1>5. MarkInv'
  BY <1>4 DEF MarkInv
<1>6. ASSUME NEW k \in 1..Len(windows')
      PROVE  WindowOK(arena'[entered'], blocks', events', entered', windows'[k], Len(marks'))
  <2>1. /\ WindowOK(arena[entered], blocks, events, entered, windows[k], Len(marks))
        /\ windows[k].used \in Nat
    BY <1>1, <1>3, MarkParts DEF WindowInv
  <2>2. Past(windows[k].mark, arena[entered], c) /\ windows[k].depth <= Len(marks')
    BY DEF CallsPast
  <2>3. WindowOK(arena'[entered], blocks', events', entered, windows[k], Len(marks'))
    BY <2>1, <2>2, <1>1, WindowStep
  <2> QED BY <2>3, <1>3 DEF WindowOK
<1>7. WindowInv'
  BY <1>6 DEF WindowInv
<1>8. Ordered(marks', windows', entered)
  BY <1>1, <1>2, <1>3, OrderedPart
<1>9. Ordered(marks, windows, entered)'
  BY <1>8 DEF Ordered
<1> QED BY <1>5, <1>7, <1>9

\* An allocation goes on from where the arena stands.
LEMMA InvAlloc ==
    ASSUME Inv, NEW n \in Sizes, Alloc(n)
    PROVE  Inv'
<1>1. /\ Shape /\ StoreInv /\ MarkInv /\ WindowInv
      /\ Ordered(marks, windows, entered) /\ panicked = FALSE
  BY DEF Inv
<1>2. PICK a : a = arena[entered]
  OBVIOUS
<1>3. PICK c : c = Placed(entered, a, n).arena
  OBVIOUS
<1>4. PICK x : x = Block(Placed(entered, a, n).place, events + 1, events + 1)
  OBVIOUS
<1>5. /\ a.used + AlignUp(n) <= Extent[entered]
      /\ arena' = [arena EXCEPT ![entered] = c] /\ memory' = Written(memory, x)
      /\ blocks' = blocks \cup {x} /\ events' = events + 1
      /\ entered' = entered /\ marks' = marks /\ windows' = windows /\ slots' = slots
      /\ panicked' = panicked
  BY <1>2, <1>3, <1>4 DEF Alloc
<1>6. /\ entered \in Budgets /\ events \in Nat /\ events + 1 \in Int
      /\ Stored(entered, a, memory, Of(blocks, entered), events) /\ ChunksOK(entered, a)
      /\ n \in Nat
  BY <1>1, <1>2, EnteredArena, ArenaAssumption
<1>7. /\ Stored(entered, c, memory', Of(blocks, entered) \cup {x}, events')
      /\ x \in BlockType /\ x.id = events' /\ x.budget = entered
      /\ Before(a, c) /\ Keeps(a, c) /\ c.used = a.used + AlignUp(n)
      /\ Elsewhere(entered, memory, memory')
  <2>1. Places(entered, a, memory, events, n, events', c, memory', x, events')
    BY <1>3, <1>4, <1>5, <1>6 DEF Places
  <2>2. Grows(entered, a, memory, Of(blocks, entered), n, events', c, memory', x, events')
    BY <1>6, <2>1, PlacedStored
  <2> QED BY <2>2 DEF Grows
<1>8. Of(blocks', entered) = Of(blocks, entered) \cup {x} /\ SameElsewhere(blocks')
  BY <1>5, <1>7 DEF Of, SameElsewhere
<1>9. events' \in Nat /\ events <= events' /\ Replaced(arena', c)
  BY <1>1, <1>5, <1>6 DEF Replaced, Shape
<1>10. StoreOK(arena', memory', blocks', events')
  <2>1. Stored(entered, c, memory', Of(blocks', entered), events')
    BY <1>5, <1>7, <1>8
  <2> QED BY <1>1, <1>5, <1>7, <1>8, <1>9, <2>1, StoreStep
<1>11. Shape' /\ StoreInv'
  <2>1. Shape'
    <3>1. arena' = [b \in Budgets |-> arena'[b]]
      BY <1>1, <1>5 DEF Shape
    <3>2. blocks' \subseteq BlockType /\ events' \in Nat
      BY <1>1, <1>5, <1>6, <1>7 DEF Shape
    <3> QED BY <3>1, <3>2, <1>1, <1>5 DEF Shape
  <2>2. StoreInv'
    BY <1>10 DEF StoreInv, StoreOK
  <2> QED BY <2>1, <2>2
<1>12. ChunksOK(entered, c) /\ NoneOlder(blocks, blocks', events)
  BY <1>1, <1>5, <1>6, <1>7 DEF Shape, Stored, ArenaOK, NoneOlder
<1>13. MarksPast(Len(marks'), c)
  <2> SUFFICES ASSUME NEW i \in 1..Len(marks), marks[i].budget = entered
               PROVE  Past(marks[i].mark, arena[entered], c)
    BY <1>5 DEF MarksPast
  <2>1. Marked(a, blocks, events, entered, marks[i].mark, marks[i].born)
    BY <1>1, <1>2 DEF MarkInv
  <2> QED BY <2>1, <1>2, <1>6, <1>7, <1>12, MarkBelow
<1>14. CallsPast(Len(windows'), Len(marks'), c)
  <2> SUFFICES ASSUME NEW k \in 1..Len(windows)
               PROVE  Past(windows[k].mark, arena[entered], c) /\ windows[k].depth <= Len(marks)
    BY <1>5 DEF CallsPast
  <2>1. /\ Marked(a, blocks, events, entered, windows[k].mark, windows[k].born)
        /\ windows[k].depth <= Len(marks)
    BY <1>1, <1>2 DEF WindowInv, WindowOK
  <2> QED BY <2>1, <1>2, <1>6, <1>7, <1>12, MarkBelow
<1>15. Begins(marks', marks) /\ FirstCalls(windows', windows)
  BY <1>1, <1>5, MarkParts DEF Begins, FirstCalls
<1>16. MarkInv' /\ WindowInv' /\ Ordered(marks, windows, entered)'
  BY <1>5, <1>9, <1>12, <1>13, <1>14, <1>15, PointsStep
<1> QED BY <1>1, <1>5, <1>11, <1>16 DEF Inv

\* Nothing has moved.
LEMMA PastSame ==
    ASSUME NEW b, NEW a, ChunksOK(b, a), NEW B, NEW n, NEW l, NEW p, NEW e, Marked(a, B, n, l, p, e)
    PROVE  Past(p, a, a)
<1>1. Len(a.chunks) \in Nat
  BY ArenaParts
<1> QED BY <1>1 DEF Marked, Past

\* The calls in progress are nested, and none remembers more marks than the last.
LEMMA TopWindow ==
    ASSUME Inv, Inside
    PROVE  /\ Len(windows) \in Nat \ {0} /\ Top = windows[Len(windows)] /\ Top \in WindowType
           /\ Top.depth \in Nat /\ Top.depth <= Len(marks)
           /\ \A k \in 1..Len(windows) : windows[k].depth \in Nat /\ windows[k].depth <= Top.depth
           /\ Front(windows) \in Seq(WindowType) /\ Len(Front(windows)) = Len(windows) - 1
           /\ \A k \in 1..(Len(windows) - 1) : Front(windows)[k] = windows[k]
<1>1. Shape /\ WindowInv /\ Ordered(marks, windows, entered)
  BY DEF Inv
<1>2. /\ Len(windows) \in Nat \ {0} /\ Top = windows[Len(windows)] /\ Top \in WindowType
      /\ Front(windows) \in Seq(WindowType) /\ Len(Front(windows)) = Len(windows) - 1
      /\ \A k \in 1..(Len(windows) - 1) : Front(windows)[k] = windows[k]
  BY <1>1, StackPop DEF Shape, Top, Inside
<1>3. Top.depth \in Nat /\ Top.depth <= Len(marks)
  BY <1>1, <1>2, MarkParts DEF WindowInv, WindowOK
<1>4. \A k \in 1..Len(windows) : windows[k].depth \in Nat /\ windows[k].depth <= Top.depth
  <2> SUFFICES ASSUME NEW k \in 1..Len(windows)
               PROVE  windows[k].depth \in Nat /\ windows[k].depth <= Top.depth
    OBVIOUS
  <2>1. windows[k].depth \in Nat
    BY <1>1, MarkParts
  <2>2. CASE k = Len(windows)
    BY <2>1, <2>2, <1>2
  <2>3. CASE k < Len(windows)
    BY <2>1, <2>3, <1>1, <1>2 DEF Ordered
  <2> QED BY <2>1, <2>2, <2>3, <1>2
<1> QED BY <1>2, <1>3, <1>4

\* The innermost call in another phase.
LEMMA PhaseChanged ==
    ASSUME Inv, Inside, NEW p \in {"body", "helper", "backward"}, NEW ws, ws = Phase(p)
    PROVE  /\ ws \in Seq(WindowType) /\ FirstCalls(ws, windows) /\ Len(ws) = Len(windows)
           /\ \A k \in 1..Len(windows) :
                  /\ ws[k].kind = windows[k].kind
                  /\ ws[k].phase = IF k = Len(windows) THEN p ELSE windows[k].phase
<1>1. Len(windows) \in Nat \ {0} /\ windows \in Seq(WindowType)
  BY TopWindow DEF Inv, Shape
<1>2. \A k \in 1..Len(windows) : windows[k] \in WindowType
  BY <1>1, ElementOfSeq
<1> DEFINE v == [windows[Len(windows)] EXCEPT !.phase = p]
<1>3. Len(windows) \in 1..Len(windows) /\ DOMAIN windows = 1..Len(windows)
  BY <1>1, LenProperties
<1>4. ws = [windows EXCEPT ![Len(windows)] = v]
  BY <1>3 DEF Phase
<1>5. /\ v \in WindowType /\ v.phase = p
      /\ v.mark = windows[Len(windows)].mark /\ v.used = windows[Len(windows)].used
      /\ v.born = windows[Len(windows)].born /\ v.depth = windows[Len(windows)].depth
      /\ v.kind = windows[Len(windows)].kind
  BY <1>2, <1>3 DEF WindowType
<1> HIDE DEF v
<1>6. ws \in Seq(WindowType) /\ Len(ws) = Len(windows)
  BY <1>1, <1>3, <1>4, <1>5, ExceptSeq
<1>7. \A k \in 1..Len(windows) : ws[k] = IF k = Len(windows) THEN v ELSE windows[k]
  BY <1>3, <1>4
<1>8. \A k \in 1..Len(windows) :
          /\ ws[k].kind = windows[k].kind
          /\ ws[k].phase = IF k = Len(windows) THEN p ELSE windows[k].phase
          /\ ws[k].mark = windows[k].mark /\ ws[k].used = windows[k].used
          /\ ws[k].born = windows[k].born /\ ws[k].depth = windows[k].depth
  BY <1>5, <1>7
<1> QED BY <1>1, <1>6, <1>8 DEF FirstCalls

\* A step that touches neither the arenas nor the blocks, and only forgets marks.
LEMMA InvQuiet ==
    ASSUME Inv, UNCHANGED <<arena, memory, entered, blocks, events, panicked>>,
           marks' \in Seq(MarkType), Begins(marks', marks),
           windows' \in Seq(WindowType), FirstCalls(windows', windows),
           \A k \in 1..Len(windows') : windows[k].depth <= Len(marks'),
           IsFiniteSet(DOMAIN slots') /\ DOMAIN slots' \subseteq Params,
           \A q \in DOMAIN slots' : slots'[q] \in BlockType
    PROVE  Inv'
<1>1. Shape /\ StoreInv /\ MarkInv /\ WindowInv /\ panicked = FALSE
  BY DEF Inv
<1>2. /\ ChunksOK(entered, arena[entered]) /\ events \in Nat /\ entered \in Budgets
  BY <1>1, EnteredArena
<1>3. Shape' /\ StoreInv'
  BY <1>1 DEF Shape, StoreInv
<1>4. /\ entered' = entered /\ events' \in Nat /\ events <= events'
      /\ NoneOlder(blocks, blocks', events) /\ Replaced(arena', arena[entered])
  BY <1>1, <1>2 DEF Shape, NoneOlder, Replaced
<1>5. MarksPast(Len(marks'), arena[entered])
  <2> SUFFICES ASSUME NEW i \in 1..Len(marks'), marks[i].budget = entered
               PROVE  Past(marks[i].mark, arena[entered], arena[entered])
    BY DEF MarksPast
  <2>1. i \in 1..Len(marks)
    BY <1>1, MarkParts DEF Begins
  <2>2. Marked(arena[entered], blocks, events, entered, marks[i].mark, marks[i].born)
    BY <2>1, <1>1 DEF MarkInv
  <2> QED BY <2>2, <1>2, PastSame
<1>6. CallsPast(Len(windows'), Len(marks'), arena[entered])
  <2> SUFFICES ASSUME NEW k \in 1..Len(windows')
               PROVE  Past(windows[k].mark, arena[entered], arena[entered])
    BY DEF CallsPast
  <2>1. k \in 1..Len(windows)
    BY <1>1, MarkParts DEF FirstCalls
  <2>2. Marked(arena[entered], blocks, events, entered, windows[k].mark, windows[k].born)
    BY <2>1, <1>1 DEF WindowInv, WindowOK
  <2> QED BY <2>2, <1>2, PastSame
<1>7. MarkInv' /\ WindowInv' /\ Ordered(marks, windows, entered)'
  BY <1>2, <1>4, <1>5, <1>6, PointsStep
<1> QED BY <1>1, <1>3, <1>7 DEF Inv

\* Nothing forgotten at all.
LEMMA BeginsSelf ==
    ASSUME Inv
    PROVE  /\ Begins(marks, marks) /\ FirstCalls(windows, windows)
           /\ \A k \in 1..Len(windows) : windows[k].depth <= Len(marks)
<1>1. Len(marks) \in Nat /\ Len(windows) \in Nat
  BY MarkParts DEF Inv
<1>2. \A k \in 1..Len(windows) : windows[k].depth <= Len(marks)
  BY DEF Inv, WindowInv, WindowOK
<1> QED BY <1>1, <1>2 DEF Begins, FirstCalls

\* A mark with no further use.
LEMMA InvForget ==
    ASSUME Inv, Forget
    PROVE  Inv'
<1>1. /\ marks # <<>> /\ (Inside => Len(marks) > Top.depth) /\ marks' = Front(marks)
      /\ UNCHANGED <<arena, memory, entered, windows, slots, blocks, events, panicked>>
  BY DEF Forget, InUse
<1>2. /\ Shape /\ Len(marks) \in Nat \ {0} /\ Front(marks) \in Seq(MarkType)
      /\ Len(Front(marks)) = Len(marks) - 1
      /\ \A i \in 1..(Len(marks) - 1) : Front(marks)[i] = marks[i]
  BY <1>1, StackPop DEF Inv, Shape
<1>3. Begins(marks', marks) /\ FirstCalls(windows', windows)
  BY <1>1, <1>2, BeginsSelf DEF Begins
<1>4. \A k \in 1..Len(windows') : windows[k].depth <= Len(marks')
  <2> SUFFICES ASSUME NEW k \in 1..Len(windows)
               PROVE  windows[k].depth <= Len(marks) - 1
    BY <1>1, <1>2
  <2>1. Inside
    BY DEF Inside
  <2>2. Top.depth \in Nat /\ windows[k].depth \in Nat /\ windows[k].depth <= Top.depth
    BY <2>1, TopWindow
  <2> QED BY <2>1, <2>2, <1>1, <1>2
<1> QED BY <1>1, <1>2, <1>3, <1>4, InvQuiet DEF Shape

\* The body of a @grad call calls ordinary code.
LEMMA InvCallHelper ==
    ASSUME Inv, CallHelper
    PROVE  Inv'
<1>1. /\ Inside /\ windows' = Phase("helper") /\ marks' = marks /\ slots' = slots
      /\ UNCHANGED <<arena, memory, entered, blocks, events, panicked>>
  BY DEF CallHelper
<1>2. /\ windows' \in Seq(WindowType) /\ FirstCalls(windows', windows)
      /\ Len(windows') = Len(windows)
  BY <1>1, PhaseChanged
<1>3. /\ Begins(marks', marks) /\ \A k \in 1..Len(windows') : windows[k].depth <= Len(marks')
  BY <1>1, <1>2, BeginsSelf
<1>4. Shape
  BY DEF Inv
<1> QED BY <1>1, <1>2, <1>3, <1>4, InvQuiet DEF Shape

\* The marks taken before a call are a stack of their own.
LEMMA MarksCut ==
    ASSUME Inv, Inside
    PROVE  /\ MarksBefore(Top) \in Seq(MarkType) /\ Begins(MarksBefore(Top), marks)
           /\ Len(MarksBefore(Top)) = Top.depth
           /\ \A k \in 1..Len(windows) : windows[k].depth <= Len(MarksBefore(Top))
<1>1. marks \in Seq(MarkType) /\ Len(marks) \in Nat
  BY MarkParts DEF Inv, Shape
<1>2. /\ Top.depth \in Nat /\ Top.depth <= Len(marks)
      /\ \A k \in 1..Len(windows) : windows[k].depth <= Top.depth
  BY TopWindow
<1>3. /\ MarksBefore(Top) \in Seq(MarkType) /\ Len(MarksBefore(Top)) = Top.depth
      /\ \A i \in 1..Top.depth : MarksBefore(Top)[i] = marks[i]
  BY <1>1, <1>2, StackCut DEF MarksBefore
<1> QED BY <1>2, <1>3 DEF Begins

\* It returns, and its marks are gone.
LEMMA InvHelperReturns ==
    ASSUME Inv, HelperReturns
    PROVE  Inv'
<1>1. /\ Inside /\ windows' = Phase("body") /\ marks' = MarksBefore(Top) /\ slots' = slots
      /\ UNCHANGED <<arena, memory, entered, blocks, events, panicked>>
  BY DEF HelperReturns
<1>2. /\ windows' \in Seq(WindowType) /\ FirstCalls(windows', windows)
      /\ Len(windows') = Len(windows)
  BY <1>1, PhaseChanged
<1>3. /\ marks' \in Seq(MarkType) /\ Begins(marks', marks)
      /\ \A k \in 1..Len(windows') : windows[k].depth <= Len(marks')
  BY <1>1, <1>2, MarksCut
<1>4. Shape
  BY DEF Inv
<1> QED BY <1>1, <1>2, <1>3, <1>4, InvQuiet DEF Shape

\* A gradient is captured: no arena notices.
LEMMA InvPublish ==
    ASSUME Inv, NEW p \in Params, NEW x \in blocks, Publish(p, x)
    PROVE  Inv'
<1>1. /\ Inside /\ windows' = Phase("backward") /\ marks' = marks
      /\ slots' = [q \in DOMAIN slots \cup {p} |-> IF q = p THEN x ELSE slots[q]]
      /\ UNCHANGED <<arena, memory, entered, blocks, events, panicked>>
  BY DEF Publish
<1>2. /\ windows' \in Seq(WindowType) /\ FirstCalls(windows', windows)
      /\ Len(windows') = Len(windows)
  BY <1>1, PhaseChanged
<1>3. /\ Begins(marks', marks) /\ \A k \in 1..Len(windows') : windows[k].depth <= Len(marks')
  BY <1>1, <1>2, BeginsSelf
<1>4. Shape
  BY DEF Inv
<1>5. IsFiniteSet(DOMAIN slots') /\ DOMAIN slots' \subseteq Params
  <2>1. DOMAIN slots' = DOMAIN slots \cup {p}
    BY <1>1
  <2>2. IsFiniteSet(DOMAIN slots \cup {p})
    BY <1>4, FS_AddElement DEF Shape
  <2> QED BY <2>1, <2>2, <1>4 DEF Shape
<1>6. \A q \in DOMAIN slots' : slots'[q] \in BlockType
  BY <1>1, <1>4 DEF Shape
<1>7. marks' \in Seq(MarkType)
  BY <1>1, <1>4 DEF Shape
<1> QED BY <1>1, <1>2, <1>3, <1>5, <1>6, <1>7, InvQuiet

\* Another budget is entered, outside every @grad call.
LEMMA InvSwitch ==
    ASSUME Inv, NEW b \in Budgets, Switch(b)
    PROVE  Inv'
<1>1. /\ ~Inside /\ entered' = b
      /\ UNCHANGED <<arena, memory, marks, windows, slots, blocks, events, panicked>>
  BY DEF Switch
<1>2. windows = <<>> /\ Len(windows) = 0 /\ Len(marks) \in Nat
  BY <1>1, MarkParts DEF Inside, Inv
<1>3. Shape' /\ StoreInv' /\ MarkInv' /\ panicked' = FALSE
  BY <1>1 DEF Inv, Shape, StoreInv, MarkInv
<1>4. WindowInv' /\ Ordered(marks, windows, entered)'
  BY <1>1, <1>2 DEF Inv, WindowInv, Ordered
<1> QED BY <1>3, <1>4 DEF Inv

\* Nothing happens.
LEMMA InvStutter ==
    ASSUME Inv, UNCHANGED vars
    PROVE  Inv'
BY DEF vars, Inv, Shape, StoreInv, MarkInv, WindowInv, Ordered

\* A mark, or a call, where no arena has changed since it was made.
LEMMA InvLater ==
    ASSUME Inv, NEW f \in Nat, events <= f
    PROVE  /\ \A b \in Budgets : Stored(b, arena[b], memory, Of(blocks, b), f)
           /\ \A i \in 1..Len(marks) :
                  Marked(arena[marks[i].budget], blocks, f, marks[i].budget, marks[i].mark, marks[i].born)
           /\ \A k \in 1..Len(windows), d \in Nat :
                  Len(marks) <= d => WindowOK(arena[entered], blocks, f, entered, windows[k], d)
<1>1. Shape /\ StoreInv /\ MarkInv /\ WindowInv /\ events \in Nat
  BY DEF Inv, Shape
<1>2. \A e \in 0..events : e \in 0..f
  BY <1>1
<1>3. \A i \in 1..events : i \in 1..f
  BY <1>1
<1>4. ASSUME NEW b \in Budgets
      PROVE  Stored(b, arena[b], memory, Of(blocks, b), f)
  BY <1>1, <1>3 DEF StoreInv, Stored
<1>5. ASSUME NEW i \in 1..Len(marks)
      PROVE  Marked(arena[marks[i].budget], blocks, f, marks[i].budget, marks[i].mark, marks[i].born)
  BY <1>1, <1>2 DEF MarkInv, Marked
<1>6. ASSUME NEW k \in 1..Len(windows), NEW d \in Nat, Len(marks) <= d
      PROVE  WindowOK(arena[entered], blocks, f, entered, windows[k], d)
  <2>1. WindowOK(arena[entered], blocks, events, entered, windows[k], Len(marks))
    BY <1>1 DEF WindowInv
  <2>2. Marked(arena[entered], blocks, f, entered, windows[k].mark, windows[k].born)
    BY <2>1, <1>2 DEF WindowOK, Marked
  <2>3. windows[k].depth <= d
    <3>1. windows[k].depth \in Nat /\ windows[k].depth <= Len(marks) /\ Len(marks) \in Nat
      BY <1>1, <2>1, MarkParts DEF WindowOK
    <3> QED BY <3>1, <1>6
  <2> QED BY <2>1, <2>2, <2>3 DEF WindowOK
<1> QED BY <1>4, <1>5, <1>6

\* The place an arena is at is beyond every mark and call in use.
LEMMA PointsBelow ==
    ASSUME Inv
    PROVE  /\ \A i \in 1..Len(marks) :
                  marks[i].budget = entered => Before(marks[i].mark, Pack(arena[entered]))
           /\ \A k \in 1..Len(windows) : Before(windows[k].mark, Pack(arena[entered]))
<1>1. MarkInv /\ WindowInv
  BY DEF Inv
<1>2. Pack(arena[entered]).cur = arena[entered].cur /\ Pack(arena[entered]).cursor = arena[entered].cursor
  BY DEF Pack
<1>3. \A i \in 1..Len(marks) :
          marks[i].budget = entered => Before(marks[i].mark, Pack(arena[entered]))
  BY <1>1, <1>2 DEF MarkInv, Marked, Before
<1>4. \A k \in 1..Len(windows) : Before(windows[k].mark, Pack(arena[entered]))
  BY <1>1, <1>2 DEF WindowInv, WindowOK, Marked, Before
<1> QED BY <1>3, <1>4

\* A mark taken beyond all the others.
LEMMA OrderedMark ==
    ASSUME NEW ms, NEW ws, NEW b, Ordered(ms, ws, b), Len(ms) \in Nat,
           NEW m, NEW ns, Len(ns) = Len(ms) + 1, ns[Len(ms) + 1] = m,
           \A i \in 1..Len(ms) : ns[i] = ms[i], m.budget = b,
           \A i \in 1..Len(ms) : ms[i].budget = b => Before(ms[i].mark, m.mark),
           \A k \in 1..Len(ws) :
               Before(ws[k].mark, m.mark) /\ ws[k].depth \in Nat /\ ws[k].depth <= Len(ms)
    PROVE  Ordered(ns, ws, b)
<1> DEFINE n == Len(ms) + 1
<1>1. n \in Nat /\ Len(ns) = n
  OBVIOUS
<1>2. ASSUME NEW i \in 1..n
      PROVE  (i < n /\ i \in 1..Len(ms) /\ ns[i] = ms[i]) \/ (i = n /\ ns[i] = m)
  <2>1. i = n \/ (i < n /\ i \in 1..Len(ms))
    OBVIOUS
  <2> QED BY <2>1
<1>3. ASSUME NEW i \in 1..n, NEW j \in 1..n, i < j, ns[i].budget = ns[j].budget
      PROVE  Before(ns[i].mark, ns[j].mark)
  <2>1. i \in 1..Len(ms) /\ ns[i] = ms[i]
    BY <1>2, <1>3
  <2>2. CASE j = n
    BY <2>1, <2>2, <1>2, <1>3
  <2>3. CASE j \in 1..Len(ms) /\ ns[j] = ms[j]
    BY <2>1, <2>3, <1>3 DEF Ordered
  <2> QED BY <2>2, <2>3, <1>2
<1>4. ASSUME NEW i \in 1..n, NEW k \in 1..Len(ws), ns[i].budget = b
      PROVE  IF i <= ws[k].depth THEN Before(ns[i].mark, ws[k].mark)
             ELSE Before(ws[k].mark, ns[i].mark)
  <2>1. CASE i \in 1..Len(ms) /\ ns[i] = ms[i]
    BY <2>1, <1>4 DEF Ordered
  <2>2. CASE i = n /\ ns[i] = m
    <3>1. ws[k].depth \in Nat /\ ws[k].depth <= Len(ms)
      OBVIOUS
    <3>2. ~(i <= ws[k].depth)
      BY <3>1, <2>2
    <3> QED BY <2>2, <3>2
  <2> QED BY <2>1, <2>2, <1>2
<1> QED BY <1>1, <1>3, <1>4 DEF Ordered

\* A call entered beyond all the others, and beyond all the marks.
LEMMA OrderedCall ==
    ASSUME NEW ms, NEW ws, NEW b, Ordered(ms, ws, b), Len(ws) \in Nat,
           NEW w, NEW vs, Len(vs) = Len(ws) + 1, vs[Len(ws) + 1] = w,
           \A k \in 1..Len(ws) : vs[k] = ws[k], w.depth = Len(ms), Len(ms) \in Nat,
           \A i \in 1..Len(ms) : ms[i].budget = b => Before(ms[i].mark, w.mark),
           \A k \in 1..Len(ws) : Before(ws[k].mark, w.mark) /\ ws[k].depth <= Len(ms)
    PROVE  Ordered(ms, vs, b)
<1> DEFINE n == Len(ws) + 1
<1>1. n \in Nat /\ Len(vs) = n
  OBVIOUS
<1>2. ASSUME NEW i \in 1..n
      PROVE  (i < n /\ i \in 1..Len(ws) /\ vs[i] = ws[i]) \/ (i = n /\ vs[i] = w)
  <2>1. i = n \/ (i < n /\ i \in 1..Len(ws))
    OBVIOUS
  <2> QED BY <2>1
<1>3. ASSUME NEW k \in 1..n, NEW l \in 1..n, k < l
      PROVE  Before(vs[k].mark, vs[l].mark) /\ vs[k].depth <= vs[l].depth
  <2>1. k \in 1..Len(ws) /\ vs[k] = ws[k]
    BY <1>2, <1>3
  <2>2. CASE l = n
    BY <2>1, <2>2, <1>2
  <2>3. CASE l \in 1..Len(ws) /\ vs[l] = ws[l]
    BY <2>1, <2>3, <1>3 DEF Ordered
  <2> QED BY <2>2, <2>3, <1>2
<1>4. ASSUME NEW i \in 1..Len(ms), NEW k \in 1..n, ms[i].budget = b
      PROVE  IF i <= vs[k].depth THEN Before(ms[i].mark, vs[k].mark)
             ELSE Before(vs[k].mark, ms[i].mark)
  <2>1. CASE k \in 1..Len(ws) /\ vs[k] = ws[k]
    BY <2>1, <1>4 DEF Ordered
  <2>2. CASE k = n /\ vs[k] = w
    <3>1. i <= vs[k].depth
      BY <2>2
    <3> QED BY <2>2, <3>1, <1>4
  <2> QED BY <2>1, <2>2, <1>2
<1>5. \A i, j \in 1..Len(ms) :
          i < j /\ ms[i].budget = ms[j].budget => Before(ms[i].mark, ms[j].mark)
  BY DEF Ordered
<1> QED BY <1>1, <1>3, <1>4, <1>5 DEF Ordered

\* A mark is taken where the arena stands.
LEMMA InvSnapshot ==
    ASSUME Inv, Snapshot
    PROVE  Inv'
<1>1. PICK m : m = [mark |-> Pack(arena[entered]), budget |-> entered, born |-> events + 1]
  OBVIOUS
<1>2. /\ marks' = Append(marks, m) /\ events' = events + 1
      /\ UNCHANGED <<arena, memory, entered, windows, slots, blocks, panicked>>
  BY <1>1 DEF Snapshot
<1>3. /\ Shape /\ StoreInv /\ Ordered(marks, windows, entered) /\ panicked = FALSE
      /\ marks \in Seq(MarkType)
  BY DEF Inv, Shape
<1>4. /\ entered \in Budgets /\ events \in Nat /\ events' \in Nat /\ events <= events'
      /\ ArenaOK(entered, arena[entered])
      /\ \A x \in blocks : x.budget = entered => Under(x, arena[entered])
  BY <1>2, <1>3, EnteredArena
<1>5. /\ Marked(arena[entered], blocks, events', entered, Pack(arena[entered]), events')
      /\ Pack(arena[entered]) \in Position
  <2>1. Marked(arena[entered], blocks, events', entered, Pack(arena[entered]), events')
    BY <1>4, PackedMark
  <2> QED BY <2>1 DEF Marked
<1>6. /\ m.mark = Pack(arena[entered]) /\ m.budget = entered /\ m.born = events'
      /\ m \in MarkType
  BY <1>1, <1>2, <1>4, <1>5 DEF MarkType
<1>7. /\ marks' \in Seq(MarkType) /\ Len(marks) \in Nat /\ Len(marks') = Len(marks) + 1
      /\ \A i \in 1..Len(marks) : marks'[i] = marks[i]
      /\ marks'[Len(marks) + 1] = m
  BY <1>2, <1>3, <1>6, StackPush
<1>8. Shape'
  BY <1>2, <1>3, <1>4, <1>7 DEF Shape
<1>9. StoreInv'
  <2> SUFFICES ASSUME NEW b \in Budgets
               PROVE  Stored(b, arena[b], memory, Of(blocks, b), events') /\ arena[b].used <= Extent[b]
    BY <1>2 DEF StoreInv
  <2>1. Stored(b, arena[b], memory, Of(blocks, b), events')
    BY <1>4, InvLater
  <2> QED BY <2>1, <1>3 DEF StoreInv
<1>10. MarkInv'
  <2> SUFFICES ASSUME NEW i \in 1..Len(marks')
               PROVE  Marked(arena[marks'[i].budget], blocks, events', marks'[i].budget,
                             marks'[i].mark, marks'[i].born)
    BY <1>2 DEF MarkInv
  <2>1. CASE i = Len(marks) + 1
    BY <2>1, <1>5, <1>6, <1>7
  <2>2. CASE i \in 1..Len(marks)
    <3>1. Marked(arena[marks[i].budget], blocks, events', marks[i].budget, marks[i].mark, marks[i].born)
      BY <2>2, <1>4, InvLater
    <3> QED BY <3>1, <2>2, <1>7
  <2> QED BY <2>1, <2>2, <1>7
<1>11. WindowInv'
  <2> SUFFICES ASSUME NEW k \in 1..Len(windows)
               PROVE  WindowOK(arena[entered], blocks, events', entered, windows[k], Len(marks'))
    BY <1>2 DEF WindowInv
  <2>1. Len(marks') \in Nat /\ Len(marks) <= Len(marks')
    BY <1>7
  <2> QED BY <2>1, <1>4, InvLater
<1>12. Ordered(marks', windows, entered)
  <2>1. \A k \in 1..Len(windows) : windows[k].depth \in Nat /\ windows[k].depth <= Len(marks)
    BY <1>3, MarkParts DEF Inv, WindowInv, WindowOK
  <2>2. /\ \A i \in 1..Len(marks) : marks[i].budget = entered => Before(marks[i].mark, m.mark)
        /\ \A k \in 1..Len(windows) : Before(windows[k].mark, m.mark)
    BY <1>6, PointsBelow
  <2> QED BY <2>1, <2>2, <1>3, <1>6, <1>7, OrderedMark
<1>13. Ordered(marks, windows, entered)'
  BY <1>2, <1>12
<1> QED BY <1>2, <1>3, <1>8, <1>9, <1>10, <1>11, <1>13 DEF Inv

\* Entering a @grad call, of either kind.
LEMMA InvOpen ==
    ASSUME Inv, NEW kind \in {"pass", "forward"}, windows' = Append(windows, Window(kind)),
           UNCHANGED <<arena, memory, entered, marks, blocks, events, panicked>>,
           slots' = slots \/ slots' = <<>>
    PROVE  Inv'
<1>1. PICK w : w = Window(kind)
  OBVIOUS
<1>2. /\ Shape /\ StoreInv /\ MarkInv /\ WindowInv /\ Ordered(marks, windows, entered)
      /\ panicked = FALSE /\ windows \in Seq(WindowType)
      /\ Len(marks) \in Nat
  BY MarkParts DEF Inv, Shape
<1>3. /\ entered \in Budgets /\ events \in Nat /\ arena[entered].used \in Nat
      /\ arena[entered].used <= Extent[entered]
      /\ ArenaOK(entered, arena[entered])
      /\ Stored(entered, arena[entered], memory, Of(blocks, entered), events)
      /\ \A x \in blocks : x.budget = entered => Under(x, arena[entered])
  BY <1>2, EnteredArena
<1>4. /\ Marked(arena[entered], blocks, events, entered, Pack(arena[entered]), events)
      /\ Pack(arena[entered]) \in Position
  <2>1. Marked(arena[entered], blocks, events, entered, Pack(arena[entered]), events)
    BY <1>3, PackedMark
  <2> QED BY <2>1 DEF Marked
<1>5. /\ w.mark = Pack(arena[entered]) /\ w.used = arena[entered].used /\ w.born = events
      /\ w.depth = Len(marks) /\ w \in WindowType
  BY <1>1, <1>2, <1>3, <1>4 DEF Window, WindowType
<1>6. /\ windows' \in Seq(WindowType) /\ Len(windows) \in Nat /\ Len(windows') = Len(windows) + 1
      /\ \A k \in 1..Len(windows) : windows'[k] = windows[k]
      /\ windows'[Len(windows) + 1] = w
  BY <1>1, <1>2, <1>5, StackPush
<1>7. Shape'
  <2>1. /\ IsFiniteSet(DOMAIN slots') /\ DOMAIN slots' \subseteq Params
        /\ \A q \in DOMAIN slots' : slots'[q] \in BlockType
    <3>1. CASE slots' = slots
      BY <3>1, <1>2 DEF Shape
    <3>2. CASE slots' = <<>>
      <4>1. DOMAIN slots' = {} /\ IsFiniteSet({})
        BY <3>2, FS_EmptySet
      <4> QED BY <4>1
    <3> QED BY <3>1, <3>2
  <2> QED BY <2>1, <1>2, <1>6 DEF Shape
<1>8. WindowOK(arena[entered], blocks, events, entered, w, Len(marks))
  <2>1. Older(blocks, entered, events) = Of(blocks, entered)
    BY <1>2, BlockIds DEF Older, Of
  <2>2. Total(Older(blocks, entered, w.born)) <= w.used
    BY <2>1, <1>3, <1>5 DEF Stored
  <2> QED BY <2>2, <1>2, <1>3, <1>4, <1>5 DEF WindowOK
<1>9. WindowInv'
  <2> SUFFICES ASSUME NEW k \in 1..Len(windows')
               PROVE  WindowOK(arena[entered], blocks, events, entered, windows'[k], Len(marks))
    BY DEF WindowInv
  <2>1. CASE k = Len(windows) + 1
    BY <2>1, <1>6, <1>8
  <2>2. CASE k \in 1..Len(windows)
    BY <2>2, <1>2, <1>6 DEF WindowInv
  <2> QED BY <2>1, <2>2, <1>6
<1>10. Ordered(marks, windows', entered)
  <2>1. \A k \in 1..Len(windows) : windows[k].depth <= Len(marks)
    BY <1>2 DEF WindowInv, WindowOK
  <2>2. /\ \A i \in 1..Len(marks) : marks[i].budget = entered => Before(marks[i].mark, w.mark)
        /\ \A k \in 1..Len(windows) : Before(windows[k].mark, w.mark)
    BY <1>5, PointsBelow
  <2> QED BY <2>1, <2>2, <1>2, <1>5, <1>6, OrderedCall
<1>11. StoreInv' /\ MarkInv' /\ panicked' = FALSE
  BY <1>2 DEF StoreInv, MarkInv
<1> QED BY <1>7, <1>9, <1>10, <1>11 DEF Inv

\* A pass begins, with no slot captured.
LEMMA InvOpenPass ==
    ASSUME Inv, OpenPass
    PROVE  Inv'
<1>1. /\ windows' = Append(windows, Window("pass")) /\ slots' = <<>>
      /\ UNCHANGED <<arena, memory, entered, marks, blocks, events, panicked>>
  BY DEF OpenPass, ClearedSlots
<1> QED BY <1>1, InvOpen

\* A forward-only call begins.
LEMMA InvOpenForward ==
    ASSUME Inv, OpenForward
    PROVE  Inv'
<1>1. /\ windows' = Append(windows, Window("forward")) /\ slots' = slots
      /\ UNCHANGED <<arena, memory, entered, marks, blocks, events, panicked>>
  BY DEF OpenForward
<1> QED BY <1>1, InvOpen

\* What is left of the blocks by a rewind to a mark made at e.
LEMMA Undiscarded ==
    ASSUME Inv, NEW e \in Nat
    PROVE  /\ Of(blocks \ Discarded(entered, e), entered) = Older(blocks, entered, e)
           /\ SameElsewhere(blocks \ Discarded(entered, e))
           /\ NoneOlder(blocks, blocks \ Discarded(entered, e), events)
<1>1. \A x \in blocks : x \in BlockType /\ x.id \in Nat
  BY BlockIds DEF Inv
<1>2. Of(blocks \ Discarded(entered, e), entered) = Older(blocks, entered, e)
  BY <1>1 DEF Of, Older, Discarded
<1>3. SameElsewhere(blocks \ Discarded(entered, e))
  BY DEF SameElsewhere, Of, Discarded
<1>4. NoneOlder(blocks, blocks \ Discarded(entered, e), events)
  BY <1>1 DEF NoneOlder
<1> QED BY <1>2, <1>3, <1>4

\* A rewind keeps the blocks made before the mark, and every position before it.
LEMMA Rewinds ==
    ASSUME Inv, NEW p, NEW e, NEW u \in Nat,
           Marked(arena[entered], blocks, events, entered, p, e),
           Total(Older(blocks, entered, e)) <= u,
           NEW c, c = Back(arena[entered], p, u)
    PROVE  /\ Stored(entered, c, memory, Older(blocks, entered, e), events)
           /\ ChunksOK(entered, c) /\ ArenaOK(entered, c)
           /\ c.chunks = arena[entered].chunks
           /\ c.cur = p.cur /\ c.cursor = p.cursor /\ c.used = u
           /\ e \in Nat
           /\ \A q : Before(q, p) => Past(q, arena[entered], c)
<1>1. /\ entered \in Budgets /\ events \in Nat /\ ChunksOK(entered, arena[entered])
      /\ Stored(entered, arena[entered], memory, Of(blocks, entered), events)
  BY EnteredArena DEF Inv
<1>2. p \in Position /\ PointIn(arena[entered], p) /\ e \in Nat
  BY <1>1 DEF Marked
<1>3. Older(blocks, entered, e) \in SUBSET Of(blocks, entered)
  BY DEF Older, Of
<1>4. \A x \in Older(blocks, entered, e) : Under(x, p)
  BY DEF Older, Marked
<1>5. /\ Stored(entered, c, memory, Older(blocks, entered, e), events)
      /\ c.chunks = arena[entered].chunks /\ c.cur = p.cur /\ c.cursor = p.cursor /\ c.used = u
  <2>1. PICK D : D = Older(blocks, entered, e)
    OBVIOUS
  <2>2. PICK B : B = Of(blocks, entered)
    OBVIOUS
  <2>3. PICK a : a = arena[entered]
    OBVIOUS
  <2>4. /\ Stored(entered, a, memory, B, events) /\ PointIn(a, p) /\ D \in SUBSET B
        /\ EndBefore(D, p)
        /\ Total(D) <= u /\ c = Back(a, p, u)
    BY <1>1, <1>2, <1>3, <1>4, <2>1, <2>2, <2>3 DEF EndBefore
  <2>5. /\ Stored(entered, c, memory, D, events)
        /\ c.chunks = a.chunks /\ c.cur = p.cur /\ c.cursor = p.cursor /\ c.used = u
    BY <1>1, <1>2, <2>4, RewoundStored
  <2> QED BY <2>1, <2>3, <2>5
<1>6. ChunksOK(entered, c) /\ ArenaOK(entered, c)
  BY <1>5 DEF Stored, ArenaOK
<1>7. ASSUME NEW q, Before(q, p)
      PROVE  Past(q, arena[entered], c)
  <2>1. Before(q, c)
    BY <1>5, <1>7 DEF Before
  <2>2. Len(c.chunks) \in Nat
    BY <1>6, ArenaParts
  <2> QED BY <1>5, <2>1, <2>2 DEF Past
<1> QED BY <1>2, <1>5, <1>6, <1>7

\* The marks and calls a rewind to p leaves in use: none is beyond it.
NoneBeyond(l, n, p) ==
    /\ \A i \in 1..l : marks[i].budget = entered => Before(marks[i].mark, p)
    /\ \A k \in 1..n : Before(windows[k].mark, p) /\ windows[k].depth <= l

\* A rewind to a position in use, of the program or of the compiler.
LEMMA InvRewind ==
    ASSUME Inv, NEW p, NEW e, NEW u \in Nat,
           Marked(arena[entered], blocks, events, entered, p, e),
           Total(Older(blocks, entered, e)) <= u, u <= Extent[entered],
           arena' = [arena EXCEPT ![entered] = Back(arena[entered], p, u)],
           blocks' = blocks \ Discarded(entered, e),
           UNCHANGED <<memory, entered, slots, events, panicked>>,
           marks' \in Seq(MarkType), Begins(marks', marks),
           windows' \in Seq(WindowType), FirstCalls(windows', windows),
           NoneBeyond(Len(marks'), Len(windows'), p)
    PROVE  Inv'
<1>1. PICK c : c = Back(arena[entered], p, u)
  OBVIOUS
<1>2. /\ Stored(entered, c, memory, Older(blocks, entered, e), events)
      /\ ChunksOK(entered, c) /\ c.used = u /\ e \in Nat
      /\ \A q : Before(q, p) => Past(q, arena[entered], c)
  BY <1>1, Rewinds
<1>3. Shape /\ StoreInv /\ panicked = FALSE /\ entered \in Budgets /\ events \in Nat
  BY DEF Inv, Shape
<1>4. /\ Of(blocks', entered) = Older(blocks, entered, e) /\ SameElsewhere(blocks')
      /\ NoneOlder(blocks, blocks', events)
  BY <1>2, Undiscarded
<1>5. arena' = [arena EXCEPT ![entered] = c]
  BY <1>1
<1>6. Replaced(arena', c)
  BY <1>3, <1>5 DEF Replaced, Shape
<1>7. StoreInv'
  <2>1. Stored(entered, c, memory, Of(blocks', entered), events)
    BY <1>2, <1>4
  <2>2. Elsewhere(entered, memory, memory)
    BY DEF Elsewhere
  <2>3. StoreOK(arena', memory, blocks', events)
    BY <1>2, <1>3, <1>4, <1>6, <2>1, <2>2, StoreStep
  <2> QED BY <2>3 DEF StoreInv, StoreOK
<1>8. Shape'
  <2>1. arena' = [b \in Budgets |-> arena'[b]]
    BY <1>3, <1>5 DEF Shape
  <2> QED BY <2>1, <1>3 DEF Shape
<1>9. MarksPast(Len(marks'), c) /\ CallsPast(Len(windows'), Len(marks'), c)
  BY <1>2 DEF NoneBeyond, MarksPast, CallsPast
<1>10. MarkInv' /\ WindowInv' /\ Ordered(marks, windows, entered)'
  <2>1. entered' = entered /\ events' \in Nat /\ events <= events'
    BY <1>3
  <2> QED BY <2>1, <1>2, <1>4, <1>6, <1>9, PointsStep
<1> QED BY <1>3, <1>7, <1>8, <1>10 DEF Inv

\* A position is no further than itself.
LEMMA BeforeItself ==
    ASSUME NEW p \in Position
    PROVE  Before(p, p)
BY DEF Position, Before

\* The program returns to its newest mark.
LEMMA InvRestore ==
    ASSUME Inv, ~ForeignMarks, Restore
    PROVE  Inv'
<1>1. PICK m : m = Last(marks)
  OBVIOUS
<1>2. PICK n : n = Len(marks)
  OBVIOUS
<1>3. /\ Shape /\ StoreInv /\ MarkInv /\ WindowInv /\ Ordered(marks, windows, entered)
      /\ marks \in Seq(MarkType) /\ marks # <<>> /\ (Inside => Len(marks) > Top.depth)
      /\ m.budget = entered
  BY <1>1 DEF Restore, InUse, Inv, Shape
<1>4. n \in Nat \ {0} /\ m = marks[n] /\ m \in MarkType /\ n \in 1..Len(marks)
  BY <1>1, <1>2, <1>3, StackPop
<1>5. /\ Marked(arena[entered], blocks, events, entered, m.mark, m.born) /\ m.mark \in Position
      /\ m.born \in Nat
  BY <1>3, <1>4 DEF MarkInv, MarkType
<1>6. /\ ChunksOK(entered, arena[entered]) /\ arena[entered].used \in Nat
      /\ arena[entered].used <= Extent[entered] /\ arena[entered] \in ArenaType
      /\ Stored(entered, arena[entered], memory, Of(blocks, entered), events)
  BY <1>3, EnteredArena
<1>7. InArena(arena[entered], m.mark)
  BY <1>5, <1>6, MarkedInArena
<1>8. /\ arena' = [arena EXCEPT ![entered] = Rewound(arena[entered], m.mark)]
      /\ blocks' = blocks \ Discarded(entered, m.born)
      /\ UNCHANGED <<memory, entered, marks, windows, slots, events, panicked>>
  <2>1. entered \in DOMAIN arena
    BY <1>3 DEF Shape
  <2> QED BY <2>1, <1>1, <1>7 DEF Restore
<1>9. Rewound(arena[entered], m.mark) = Back(arena[entered], m.mark, arena[entered].used)
  BY <1>6 DEF Rewound, Back, ArenaType
<1>10. Total(Older(blocks, entered, m.born)) <= arena[entered].used
  <2>1. IsFiniteSet(Of(blocks, entered)) /\ Total(Of(blocks, entered)) <= arena[entered].used
    BY <1>6 DEF Stored
  <2>2. \A x \in Of(blocks, entered) : x \in BlockType
    BY <1>3 DEF Shape, Of
  <2>3. Older(blocks, entered, m.born) \in SUBSET Of(blocks, entered)
    BY DEF Older, Of
  <2>4. /\ Total(Older(blocks, entered, m.born)) \in Nat /\ Total(Of(blocks, entered)) \in Nat
        /\ Total(Older(blocks, entered, m.born)) <= Total(Of(blocks, entered))
    BY <2>1, <2>2, <2>3, TotalOfPart
  <2> QED BY <2>1, <2>4, <1>6
<1>11. NoneBeyond(Len(marks), Len(windows), m.mark)
  <2>1. ASSUME NEW i \in 1..Len(marks), marks[i].budget = entered
        PROVE  Before(marks[i].mark, m.mark)
    <3>1. CASE i = n
      BY <3>1, <1>4, <1>5, BeforeItself
    <3>2. CASE i < n
      BY <3>2, <2>1, <1>3, <1>4 DEF Ordered
    <3> QED BY <3>1, <3>2, <1>2, <1>4
  <2>2. ASSUME NEW k \in 1..Len(windows)
        PROVE  Before(windows[k].mark, m.mark) /\ windows[k].depth <= Len(marks)
    <3>1. Inside
      BY DEF Inside
    <3>2. /\ windows[k].depth \in Nat /\ windows[k].depth <= Top.depth /\ Top.depth \in Nat
          /\ Top.depth < n
      BY <3>1, <1>2, <1>3, <1>4, TopWindow
    <3>3. ~(n <= windows[k].depth) /\ windows[k].depth <= Len(marks)
      BY <3>2, <1>2, <1>4
    <3> QED BY <3>3, <1>3, <1>4 DEF Ordered
  <2> QED BY <2>1, <2>2 DEF NoneBeyond
<1>12. Begins(marks', marks) /\ FirstCalls(windows', windows)
  BY <1>8, BeginsSelf
<1>13. marks' \in Seq(MarkType) /\ windows' \in Seq(WindowType)
  BY <1>3, <1>8 DEF Shape
<1>14. NoneBeyond(Len(marks'), Len(windows'), m.mark)
  BY <1>8, <1>11
<1>15. arena' = [arena EXCEPT ![entered] = Back(arena[entered], m.mark, arena[entered].used)]
  BY <1>8, <1>9
<1> QED BY <1>5, <1>6, <1>8, <1>10, <1>12, <1>13, <1>14, <1>15, InvRewind

\* What holds of the innermost call's position, and of what is in use without it.
LEMMA TopMark ==
    ASSUME Inv, Inside
    PROVE  /\ Marked(arena[entered], blocks, events, entered, Top.mark, Top.born)
           /\ InArena(arena[entered], Top.mark) /\ Top.mark \in Position
           /\ Top.used \in Nat /\ Top.used <= Extent[entered]
           /\ Total(Older(blocks, entered, Top.born)) <= Top.used
           /\ ReturnedTo(arena[entered], Top) = Back(arena[entered], Top.mark, Top.used)
           /\ Begins(MarksBefore(Top), marks) /\ FirstCalls(Front(windows), windows)
           /\ MarksBefore(Top) \in Seq(MarkType) /\ Front(windows) \in Seq(WindowType)
           /\ NoneBeyond(Len(MarksBefore(Top)), Len(Front(windows)), Top.mark)
<1>1. PICK n : n = Len(windows)
  OBVIOUS
<1>2. /\ Shape /\ StoreInv /\ WindowInv /\ Ordered(marks, windows, entered)
  BY DEF Inv
<1>3. /\ n \in Nat \ {0} /\ n \in 1..Len(windows) /\ Top = windows[n] /\ Top \in WindowType
      /\ Front(windows) \in Seq(WindowType) /\ Len(Front(windows)) = n - 1
      /\ \A k \in 1..(n - 1) : Front(windows)[k] = windows[k]
      /\ \A k \in 1..n : windows[k].depth \in Nat /\ windows[k].depth <= Top.depth
      /\ Top.depth \in Nat /\ Top.depth <= Len(marks)
  BY <1>1, TopWindow
<1>4. /\ WindowOK(arena[entered], blocks, events, entered, Top, Len(marks))
  BY <1>2, <1>3 DEF WindowInv
<1>5. /\ Marked(arena[entered], blocks, events, entered, Top.mark, Top.born)
      /\ Top.used <= Extent[entered] /\ Total(Older(blocks, entered, Top.born)) <= Top.used
  BY <1>4 DEF WindowOK
<1>6. Top.mark \in Position /\ Top.used \in Nat
  BY <1>3 DEF WindowType
<1>7. ChunksOK(entered, arena[entered]) /\ arena[entered] \in ArenaType
  BY <1>2, EnteredArena
<1>8. InArena(arena[entered], Top.mark)
  BY <1>5, <1>7, MarkedInArena
<1>9. ReturnedTo(arena[entered], Top) = Back(arena[entered], Top.mark, Top.used)
  BY <1>7 DEF ReturnedTo, Rewound, Back, ArenaType
<1>10. /\ MarksBefore(Top) \in Seq(MarkType) /\ Begins(MarksBefore(Top), marks)
       /\ Len(MarksBefore(Top)) = Top.depth
  BY MarksCut
<1>11. FirstCalls(Front(windows), windows)
  BY <1>1, <1>3 DEF FirstCalls
<1>12. NoneBeyond(Top.depth, n - 1, Top.mark)
  <2>1. ASSUME NEW i \in 1..Top.depth, marks[i].budget = entered
        PROVE  Before(marks[i].mark, Top.mark)
    <3>1. Len(marks) \in Nat
      BY <1>2, MarkParts
    <3>2. i \in 1..Len(marks) /\ i <= windows[n].depth
      BY <3>1, <1>3
    <3> QED BY <2>1, <3>2, <1>2, <1>3 DEF Ordered
  <2>2. ASSUME NEW k \in 1..(n - 1)
        PROVE  Before(windows[k].mark, Top.mark) /\ windows[k].depth <= Top.depth
    <3>1. k \in 1..Len(windows) /\ k < n
      BY <1>1, <1>3
    <3> QED BY <3>1, <1>2, <1>3 DEF Ordered
  <2> QED BY <2>1, <2>2 DEF NoneBeyond
<1>13. NoneBeyond(Len(MarksBefore(Top)), Len(Front(windows)), Top.mark)
  BY <1>3, <1>10, <1>12
<1> QED BY <1>3, <1>5, <1>6, <1>8, <1>9, <1>10, <1>11, <1>13

\* A forward-only call ends where it began.
LEMMA InvCloseForward ==
    ASSUME Inv, CloseForward
    PROVE  Inv'
<1>1. Inside
  BY DEF CloseForward
<1>2. /\ Marked(arena[entered], blocks, events, entered, Top.mark, Top.born)
      /\ InArena(arena[entered], Top.mark)
      /\ Top.used \in Nat /\ Top.used <= Extent[entered]
      /\ Total(Older(blocks, entered, Top.born)) <= Top.used
      /\ ReturnedTo(arena[entered], Top) = Back(arena[entered], Top.mark, Top.used)
  BY <1>1, TopMark
<1>3. /\ Begins(MarksBefore(Top), marks) /\ FirstCalls(Front(windows), windows)
      /\ MarksBefore(Top) \in Seq(MarkType) /\ Front(windows) \in Seq(WindowType)
      /\ NoneBeyond(Len(MarksBefore(Top)), Len(Front(windows)), Top.mark)
  BY <1>1, TopMark
<1>4. /\ arena' = [arena EXCEPT ![entered] = ReturnedTo(arena[entered], Top)]
      /\ blocks' = blocks \ Discarded(entered, Top.born)
      /\ windows' = Front(windows) /\ marks' = MarksBefore(Top)
      /\ UNCHANGED <<memory, entered, slots, events, panicked>>
  <2>1. entered \in DOMAIN arena
    BY DEF Inv, Shape
  <2> QED BY <2>1, <1>2 DEF CloseForward
<1>5. arena' = [arena EXCEPT ![entered] = Back(arena[entered], Top.mark, Top.used)]
  BY <1>2, <1>4
<1>6. /\ Begins(marks', marks) /\ FirstCalls(windows', windows)
      /\ marks' \in Seq(MarkType) /\ windows' \in Seq(WindowType)
      /\ NoneBeyond(Len(marks'), Len(windows'), Top.mark)
  BY <1>3, <1>4
<1> QED BY <1>2, <1>4, <1>5, <1>6, InvRewind

-------------------------------------------------------------------------------
(* The epilogue of a pass.                                                  *)

\* The moves as the library's fold makes them: those of a part of the parameters
\* end with its largest.
Moves(it, base, S) ==
    it = [s \in SUBSET S |-> IF s = {} THEN base ELSE Move(Max(s), it[s \ {Max(s)}])]

\* There is such a function for every finite set of parameters.
LEMMA MovesExist ==
    ASSUME NEW S, IsFiniteSet(S), S \subseteq Nat, NEW base
    PROVE  \E it : Moves(it, base, S)
<1> DEFINE F == {U \in SUBSET S : \E it : Moves(it, base, U)}
<1>1. {} \in F
  <2> DEFINE it == [s \in SUBSET {} |-> base]
  <2>1. it = [s \in SUBSET {} |-> IF s = {} THEN base ELSE Move(Max(s), it[s \ {Max(s)}])]
    OBVIOUS
  <2> QED BY <2>1 DEF Moves
<1>2. ASSUME NEW U \in SUBSET S, U # {}, U \ {Max(U)} \in F
      PROVE  U \in F
  <2>1. IsFiniteSet(U) /\ U \subseteq Nat
    BY FS_Subset
  <2>2. PICK p : p = Max(U)
    OBVIOUS
  <2>3. PICK T : T = U \ {p}
    OBVIOUS
  <2>4. p \in U /\ T \cup {p} = U /\ p \notin T
    BY <1>2, <2>1, <2>2, <2>3, Largest
  <2>5. PICK g : Moves(g, base, T)
    BY <1>2, <2>2, <2>3
  <2> DEFINE h == [s \in SUBSET U |-> IF p \in s THEN Move(p, g[s \ {p}]) ELSE g[s]]
  <2>6. \A s \in SUBSET T : g[s] = IF s = {} THEN base ELSE Move(Max(s), g[s \ {Max(s)}])
    BY <2>5 DEF Moves
  <2>7. ASSUME NEW s \in SUBSET U
        PROVE  h[s] = IF s = {} THEN base ELSE Move(Max(s), h[s \ {Max(s)}])
    <3>1. CASE p \in s
      <4>1. Max(s) = p
        BY <3>1, <2>1, <2>2, LargestOfPart
      <4>2. s \ {p} \in SUBSET U /\ p \notin s \ {p}
        OBVIOUS
      <4>3. h[s] = Move(p, g[s \ {p}]) /\ h[s \ {p}] = g[s \ {p}]
        BY <3>1, <4>2
      <4> HIDE DEF h
      <4>4. h[s] = Move(p, h[s \ {p}])
        BY <4>3
      <4> QED BY <3>1, <4>1, <4>4
    <3>2. CASE p \notin s
      <4>1. s \in SUBSET T
        BY <3>2, <2>3
      <4>2. PICK q : q = Max(s)
        OBVIOUS
      <4>3. g[s] = IF s = {} THEN base ELSE Move(q, g[s \ {q}])
        BY <2>6, <4>1, <4>2
      <4>4. s \ {q} \in SUBSET U /\ p \notin s \ {q}
        BY <3>2
      <4>5. h[s] = g[s] /\ h[s \ {q}] = g[s \ {q}]
        BY <3>2, <4>4
      <4> HIDE DEF h
      <4>6. Move(q, g[s \ {q}]) = Move(q, h[s \ {q}])
        BY <4>5
      <4>7. h[s] = IF s = {} THEN base ELSE Move(q, h[s \ {q}])
        BY <4>3, <4>5, <4>6
      <4> QED BY <4>2, <4>7
    <3> QED BY <3>1, <3>2
  <2>8. h = [s \in SUBSET U |-> h[s]]
    OBVIOUS
  <2> HIDE DEF h
  <2>9. Moves(h, base, U)
    BY <2>7, <2>8 DEF Moves
  <2> QED BY <2>9
<1>3. ASSUME NEW s \in SUBSET S, s # {}
      PROVE  \E x \in s : s \ {x} \in F => s \in F
  <2>1. IsFiniteSet(s) /\ s \subseteq Nat
    BY FS_Subset
  <2>2. Max(s) \in s
    BY <1>3, <2>1, Largest
  <2>3. s \ {Max(s)} \in F => s \in F
    BY <1>2, <1>3
  <2> QED BY <2>2, <2>3
<1> HIDE DEF F
<1>4. S \in F
  BY <1>1, <1>3, Descent
<1> QED BY <1>4 DEF F

\* The epilogue makes those moves.
LEMMA FoldMoves ==
    ASSUME NEW S, IsFiniteSet(S), S \subseteq Nat, NEW base
    PROVE  \E it : /\ it[{}] = base
                   /\ \A s \in SUBSET S :
                          s # {} => Max(s) \in s /\ it[s] = Move(Max(s), it[s \ {Max(s)}])
                   /\ MapThenFoldSet(Move, base, LAMBDA p : p, Max, S) = it[S]
<1> DEFINE I(it) == it = [s \in SUBSET S |-> IF s = {} THEN base ELSE Move(Max(s), it[s \ {Max(s)}])]
           iter == CHOOSE it : I(it)
<1>1. MapThenFoldSet(Move, base, LAMBDA p : p, Max, S) = iter[S]
  BY DEF MapThenFoldSet
<1>2. \E it : I(it)
  <2>1. PICK g : Moves(g, base, S)
    BY MovesExist
  <2>2. I(g)
    BY <2>1 DEF Moves
  <2> QED BY <2>2
<1>3. I(iter)
  BY <1>2
<1> HIDE DEF iter
<1>4. \A s \in SUBSET S : iter[s] = IF s = {} THEN base ELSE Move(Max(s), iter[s \ {Max(s)}])
  BY <1>3
<1>5. iter[{}] = base
  BY <1>4
<1>6. \A s \in SUBSET S : s # {} => Max(s) \in s
  BY FS_Subset, Largest
<1>7. \A s \in SUBSET S : s # {} => iter[s] = Move(Max(s), iter[s \ {Max(s)}])
  BY <1>4
<1> QED BY <1>1, <1>5, <1>6, <1>7

\* The blocks f has for the parameters s.
Captured(f, s) == {f[q] : q \in s}

\* f has new blocks for the parameters s, with what the slots held of them.
SlotsMoved(s, f) ==
    /\ DOMAIN f = DOMAIN slots
    /\ \A q \in s :
           /\ f[q] \in BlockType /\ f[q].budget = entered /\ f[q].id > events
           /\ f[q].value = IF Intact(slots[q]) THEN slots[q].value ELSE Garbage

\* How far the epilogue is when it has moved the gradients of s, and a is the
\* arena it was rewound to with the blocks B in it.
Compacting(s, acc, a, B) ==
    /\ acc.events \in Nat /\ events <= acc.events
    /\ SlotsMoved(s, acc.slots)
    /\ Stored(entered, acc.arena, acc.memory, B \cup Captured(acc.slots, s), acc.events)
    /\ Before(a, acc.arena) /\ Keeps(a, acc.arena)
    /\ Elsewhere(entered, memory, acc.memory)

\* What is left alone twice is left alone.
LEMMA ElsewhereTwice ==
    ASSUME NEW b, NEW l, NEW m, NEW n, Elsewhere(b, l, m), Elsewhere(b, m, n)
    PROVE  Elsewhere(b, l, n)
BY DEF Elsewhere

\* One more gradient moved.
LEMMA MovedFurther ==
    ASSUME Inv, NEW a, ChunksOK(entered, a), NEW B, NEW s, s \subseteq DOMAIN slots,
           NEW acc, Compacting(s, acc, a, B), NEW p \in DOMAIN slots, p \notin s
    PROVE  Compacting(s \cup {p}, Move(p, acc), a, B)
<1>1. /\ entered \in Budgets /\ events \in Nat
      /\ \A q \in DOMAIN slots : slots[q] \in BlockType
  BY DEF Inv, Shape
<1>2. PICK x : x = slots[p]
  OBVIOUS
<1>3. x \in BlockType /\ x.bytes \in Nat /\ x.value \in Int
  BY <1>1, <1>2 DEF BlockType
<1>4. PICK v : v = IF Intact(x) THEN x.value ELSE Garbage
  OBVIOUS
<1>5. PICK f : f = acc.events + 1
  OBVIOUS
<1>6. PICK c : c = Placed(entered, acc.arena, x.bytes).arena
  OBVIOUS
<1>7. PICK y : y = Block(Placed(entered, acc.arena, x.bytes).place, f, v)
  OBVIOUS
<1>8. PICK m : m = Written(acc.memory, y)
  OBVIOUS
<1>9. PICK g : g = [acc.slots EXCEPT ![p] = y]
  OBVIOUS
<1>10. Move(p, acc) = [arena |-> c, memory |-> m, slots |-> g, events |-> f]
  BY <1>2, <1>4, <1>5, <1>6, <1>7, <1>8, <1>9 DEF Move, Moved, ReadAhead
<1>11. PICK after : after = Move(p, acc)
  OBVIOUS
<1>12. after.arena = c /\ after.memory = m /\ after.slots = g /\ after.events = f
  BY <1>10, <1>11
<1>13. PICK D : D = B \cup Captured(acc.slots, s)
  OBVIOUS
<1>14. /\ acc.events \in Nat /\ events <= acc.events
       /\ Stored(entered, acc.arena, acc.memory, D, acc.events)
       /\ Before(a, acc.arena) /\ Keeps(a, acc.arena)
       /\ Elsewhere(entered, memory, acc.memory)
       /\ SlotsMoved(s, acc.slots)
  BY <1>13 DEF Compacting
<1>15. Grows(entered, acc.arena, acc.memory, D, x.bytes, v, c, m, y, f)
  <2>1. v \in Int
    BY <1>3, <1>4 DEF Garbage
  <2>2. Places(entered, acc.arena, acc.memory, acc.events, x.bytes, v, c, m, y, f)
    BY <2>1, <1>1, <1>3, <1>5, <1>6, <1>7, <1>8, <1>14 DEF Places
  <2> QED BY <2>2, <1>14, PlacedStored
<1>16. /\ f \in Nat /\ Stored(entered, c, m, D \cup {y}, f)
       /\ y \in BlockType /\ y.budget = entered /\ y.id = f /\ y.value = v
       /\ Before(acc.arena, c) /\ Keeps(acc.arena, c) /\ Elsewhere(entered, acc.memory, m)
  BY <1>15 DEF Grows
<1>17. f > events /\ events <= f
  BY <1>1, <1>5, <1>14
<1>18. /\ DOMAIN g = DOMAIN slots /\ g[p] = y /\ \A q \in s : g[q] = acc.slots[q]
  <2>1. DOMAIN acc.slots = DOMAIN slots
    BY <1>14 DEF SlotsMoved
  <2> QED BY <2>1, <1>9
<1>19. SlotsMoved(s \cup {p}, g)
  <2>1. ASSUME NEW q \in s
        PROVE  /\ g[q] \in BlockType /\ g[q].budget = entered /\ g[q].id > events
               /\ g[q].value = IF Intact(slots[q]) THEN slots[q].value ELSE Garbage
    <3>1. /\ acc.slots[q] \in BlockType /\ acc.slots[q].budget = entered /\ acc.slots[q].id > events
          /\ acc.slots[q].value = IF Intact(slots[q]) THEN slots[q].value ELSE Garbage
      BY <1>14 DEF SlotsMoved
    <3> QED BY <3>1, <1>18
  <2>2. /\ g[p] \in BlockType /\ g[p].budget = entered /\ g[p].id > events
        /\ g[p].value = IF Intact(slots[p]) THEN slots[p].value ELSE Garbage
    BY <1>2, <1>4, <1>16, <1>17, <1>18
  <2> QED BY <2>1, <2>2, <1>18 DEF SlotsMoved
<1>20. Captured(g, s \cup {p}) = Captured(acc.slots, s) \cup {y}
  BY <1>18 DEF Captured
<1>21. D \cup {y} = B \cup Captured(g, s \cup {p})
  BY <1>13, <1>20
<1>22. Stored(entered, c, m, B \cup Captured(g, s \cup {p}), f)
  BY <1>16, <1>21
<1>23. Before(a, c) /\ Keeps(a, c)
  <2>1. ChunksOK(entered, acc.arena) /\ ChunksOK(entered, c)
    BY <1>14, <1>16 DEF Stored, ArenaOK
  <2>2. /\ a.cur \in Nat /\ a.cursor \in Nat /\ acc.arena.cur \in Nat /\ acc.arena.cursor \in Nat
        /\ c.cur \in Nat /\ c.cursor \in Nat
    BY <2>1, ArenaParts
  <2>3. Before(a, c)
    BY <2>2, <1>14, <1>16, BeforeTransitive
  <2>4. Keeps(a, c)
    BY <2>1, <1>14, <1>16, KeepsTransitive
  <2> QED BY <2>3, <2>4
<1>24. Elsewhere(entered, memory, m)
  BY <1>14, <1>16, ElsewhereTwice
<1>25. Compacting(s \cup {p}, after, a, B)
  BY <1>12, <1>16, <1>17, <1>19, <1>22, <1>23, <1>24 DEF Compacting
<1> QED BY <1>11, <1>25

\* All of them moved, from where the pass began.
LEMMA CompactedWell ==
    ASSUME Inv, Inside, NEW a, a = Back(arena[entered], Top.mark, Top.used),
           NEW after, after = Compacted(Top)
    PROVE  Compacting(DOMAIN slots, after, a, Older(blocks, entered, Top.born))
<1>1. PICK S : S = DOMAIN slots
  OBVIOUS
<1>2. PICK B : B = Older(blocks, entered, Top.born)
  OBVIOUS
<1>3. IsFiniteSet(S) /\ S \subseteq Nat /\ events \in Nat
  BY <1>1, ArenaAssumption DEF Inv, Shape
<1>4. PICK base : base = [arena |-> a, memory |-> memory, slots |-> slots, events |-> events]
  OBVIOUS
<1>5. after = MapThenFoldSet(Move, base, LAMBDA p : p, Max, S)
  BY <1>1, <1>4, TopMark DEF Compacted
<1>6. PICK it : /\ it[{}] = base
                /\ \A s \in SUBSET S :
                       s # {} => Max(s) \in s /\ it[s] = Move(Max(s), it[s \ {Max(s)}])
                /\ MapThenFoldSet(Move, base, LAMBDA p : p, Max, S) = it[S]
  BY <1>3, FoldMoves
<1>7. Stored(entered, a, memory, B, events) /\ ChunksOK(entered, a)
  <2>1. /\ Marked(arena[entered], blocks, events, entered, Top.mark, Top.born)
        /\ Top.used \in Nat /\ Total(Older(blocks, entered, Top.born)) <= Top.used
    BY TopMark
  <2> QED BY <2>1, <1>2, Rewinds
<1>8. Compacting({}, base, a, B)
  <2>1. base.arena = a /\ base.memory = memory /\ base.slots = slots /\ base.events = events
    BY <1>4
  <2>2. Before(a, a) /\ Keeps(a, a)
    <3>1. a.cur \in Nat /\ a.cursor \in Nat /\ Len(a.chunks) \in Nat
      BY <1>7, ArenaParts
    <3> QED BY <3>1 DEF Before, Keeps
  <2>3. Elsewhere(entered, memory, memory)
    BY DEF Elsewhere
  <2>4. B \cup Captured(slots, {}) = B
    BY DEF Captured
  <2>5. SlotsMoved({}, slots)
    BY DEF SlotsMoved
  <2>6. Stored(entered, a, memory, B \cup Captured(slots, {}), events)
    BY <2>4, <1>7
  <2>7. Compacting({}, base, a, B)
    BY <2>1, <2>2, <2>3, <2>5, <2>6, <1>3 DEF Compacting
  <2> QED BY <2>7
<1> DEFINE F == {s \in SUBSET S : Compacting(s, it[s], a, B)}
<1>9. {} \in F
  BY <1>6, <1>8
<1>10. ASSUME NEW s \in SUBSET S, s # {}
       PROVE  \E x \in s : s \ {x} \in F => s \in F
  <2>1. PICK p : p = Max(s)
    OBVIOUS
  <2>2. PICK t : t = s \ {p}
    OBVIOUS
  <2>3. p \in s /\ it[s] = Move(p, it[t])
    BY <1>6, <1>10, <2>1, <2>2
  <2>4. t \subseteq DOMAIN slots /\ p \in DOMAIN slots /\ p \notin t /\ t \cup {p} = s
    BY <1>1, <2>2, <2>3
  <2>5. ASSUME Compacting(t, it[t], a, B)
        PROVE  Compacting(s, it[s], a, B)
    <3>1. Compacting(t \cup {p}, Move(p, it[t]), a, B)
      BY <1>7, <2>4, <2>5, MovedFurther
    <3> QED BY <3>1, <2>3, <2>4
  <2>6. s \ {p} \in F => s \in F
    BY <2>2, <2>5
  <2> QED BY <2>3, <2>6
<1> HIDE DEF F
<1>11. S \in F
  BY <1>3, <1>9, <1>10, Descent
<1>12. Compacting(S, it[S], a, B)
  BY <1>11 DEF F
<1>13. after = it[S]
  BY <1>5, <1>6
<1> QED BY <1>1, <1>2, <1>12, <1>13

\* A pass ends: the arena is rewound to its mark and the gradients go on from there.
LEMMA InvClosePass ==
    ASSUME Inv, ClosePass
    PROVE  Inv'
<1>1. Inside
  BY DEF ClosePass
<1>2. PICK after : after = Compacted(Top)
  OBVIOUS
<1>3. PICK a : a = Back(arena[entered], Top.mark, Top.used)
  OBVIOUS
<1>4. PICK B : B = Older(blocks, entered, Top.born)
  OBVIOUS
<1>5. PICK c : c = after.arena
  OBVIOUS
<1>6. /\ c.used <= Extent[entered]
      /\ arena' = [arena EXCEPT ![entered] = c] /\ memory' = after.memory
      /\ slots' = after.slots
      /\ blocks' = (blocks \ Discarded(entered, Top.born)) \cup Values(after.slots)
      /\ events' = after.events /\ panicked' = panicked /\ entered' = entered
      /\ windows' = Front(windows) /\ marks' = MarksBefore(Top)
  <2>1. InArena(arena[entered], Top.mark)
    BY <1>1, TopMark
  <2> QED BY <2>1, <1>2, <1>5 DEF ClosePass
<1>7. /\ Shape /\ StoreInv /\ entered \in Budgets /\ events \in Nat /\ panicked = FALSE
      /\ IsFiniteSet(DOMAIN slots) /\ DOMAIN slots \subseteq Params /\ blocks \subseteq BlockType
  BY DEF Inv, Shape
<1>8. Compacting(DOMAIN slots, after, a, B)
  BY <1>1, <1>2, <1>3, <1>4, CompactedWell
<1>9. /\ events' \in Nat /\ events <= events' /\ SlotsMoved(DOMAIN slots, slots')
      /\ Stored(entered, c, memory', B \cup Captured(slots', DOMAIN slots), events')
      /\ Before(a, c) /\ Keeps(a, c) /\ Elsewhere(entered, memory, memory')
  BY <1>5, <1>6, <1>8 DEF Compacting
<1>10. ChunksOK(entered, c)
  BY <1>9 DEF Stored, ArenaOK
<1>11. /\ DOMAIN slots' = DOMAIN slots
       /\ \A q \in DOMAIN slots : slots'[q] \in BlockType /\ slots'[q].budget = entered
                                  /\ slots'[q].id > events
  BY <1>9 DEF SlotsMoved
<1>12. PICK N : N = Captured(slots', DOMAIN slots)
  OBVIOUS
<1>13. /\ blocks' = (blocks \ Discarded(entered, Top.born)) \cup N
       /\ \A x \in N : x \in BlockType /\ x.budget = entered /\ x.id > events
  BY <1>6, <1>11, <1>12 DEF Values, Captured
<1>14. Marked(arena[entered], blocks, events, entered, Top.mark, Top.born) /\ Top.used \in Nat
       /\ Total(Older(blocks, entered, Top.born)) <= Top.used
  BY <1>1, TopMark
<1>15. /\ ChunksOK(entered, a) /\ a.chunks = arena[entered].chunks
       /\ a.cur = Top.mark.cur /\ a.cursor = Top.mark.cursor
       /\ Top.born \in Nat /\ \A q : Before(q, Top.mark) => Past(q, arena[entered], a)
  BY <1>3, <1>14, Rewinds
<1>16. /\ Of(blocks', entered) = B \cup N /\ SameElsewhere(blocks')
       /\ NoneOlder(blocks, blocks', events)
  <2>1. /\ Of(blocks \ Discarded(entered, Top.born), entered) = B
        /\ SameElsewhere(blocks \ Discarded(entered, Top.born))
        /\ NoneOlder(blocks, blocks \ Discarded(entered, Top.born), events)
    BY <1>4, <1>15, Undiscarded
  <2>2. Of(blocks', entered) = B \cup N
    BY <2>1, <1>13 DEF Of
  <2>3. SameElsewhere(blocks')
    BY <2>1, <1>13 DEF Of, SameElsewhere
  <2>4. \A x \in N : x \in BlockType /\ ~(x.id <= events)
    BY <1>7, <1>13 DEF BlockType
  <2>5. NoneOlder(blocks, blocks', events)
    BY <2>1, <2>4, <1>13 DEF NoneOlder
  <2> QED BY <2>2, <2>3, <2>5
<1>17. Replaced(arena', c)
  BY <1>6, <1>7 DEF Replaced, Shape
<1>18. StoreInv'
  <2>1. Stored(entered, c, memory', Of(blocks', entered), events')
    BY <1>9, <1>12, <1>16
  <2>2. StoreOK(arena', memory', blocks', events')
    BY <2>1, <1>6, <1>7, <1>9, <1>16, <1>17, StoreStep
  <2> QED BY <2>2 DEF StoreInv, StoreOK
<1>19. /\ Begins(marks', marks) /\ FirstCalls(windows', windows)
       /\ marks' \in Seq(MarkType) /\ windows' \in Seq(WindowType)
       /\ NoneBeyond(Len(marks'), Len(windows'), Top.mark)
  BY <1>1, <1>6, TopMark
<1>20. Shape'
  <2>1. arena' = [b \in Budgets |-> arena'[b]]
    BY <1>6, <1>7 DEF Shape
  <2>2. blocks' \subseteq BlockType
    BY <1>7, <1>13
  <2>3. /\ IsFiniteSet(DOMAIN slots') /\ DOMAIN slots' \subseteq Params
        /\ \A q \in DOMAIN slots' : slots'[q] \in BlockType
    BY <1>7, <1>11
  <2>4. entered' \in Budgets /\ events' \in Nat
    BY <1>6, <1>7, <1>9
  <2> QED BY <2>1, <2>2, <2>3, <2>4, <1>19 DEF Shape
<1>21. ASSUME NEW q, q.cur \in Nat, q.cursor \in Nat, Before(q, Top.mark)
       PROVE  Past(q, arena[entered], c)
  <2>1. Past(q, arena[entered], a)
    BY <1>15, <1>21
  <2>2. /\ a.cur \in Nat /\ a.cursor \in Nat /\ c.cur \in Nat /\ c.cursor \in Nat
        /\ Len(a.chunks) \in Nat /\ DOMAIN a.chunks = 1..Len(a.chunks)
    BY <1>10, <1>15, ArenaParts
  <2>3. Before(q, a)
    BY <2>1 DEF Past
  <2>4. Before(q, c)
    BY <2>2, <2>3, <1>9, <1>21, BeforeTransitive
  <2>5. q.cur <= a.cur
    BY <2>2, <2>3, <1>21 DEF Before
  <2>6. \A i \in DOMAIN a.chunks : i <= q.cur => c.chunks[i] = a.chunks[i]
    <3>1. \A i \in DOMAIN a.chunks : i <= q.cur => i <= a.cur
      BY <2>2, <2>5, <1>21
    <3> QED BY <3>1, <1>9 DEF Keeps
  <2>7. Len(a.chunks) <= Len(c.chunks)
    BY <1>9 DEF Keeps
  <2> QED BY <2>4, <2>6, <2>7, <1>15 DEF Past
<1>22. MarksPast(Len(marks'), c)
  <2> SUFFICES ASSUME NEW i \in 1..Len(marks'), marks[i].budget = entered
               PROVE  Past(marks[i].mark, arena[entered], c)
    BY DEF MarksPast
  <2>1. Before(marks[i].mark, Top.mark)
    BY <1>19 DEF NoneBeyond
  <2>2. i \in 1..Len(marks)
    BY <1>7, <1>19, MarkParts DEF Begins
  <2>3. marks[i].mark.cur \in Nat /\ marks[i].mark.cursor \in Nat
    BY <2>2, <1>7, MarkParts
  <2> QED BY <2>1, <2>3, <1>21
<1>23. CallsPast(Len(windows'), Len(marks'), c)
  <2> SUFFICES ASSUME NEW k \in 1..Len(windows')
               PROVE  Past(windows[k].mark, arena[entered], c) /\ windows[k].depth <= Len(marks')
    BY DEF CallsPast
  <2>1. Before(windows[k].mark, Top.mark) /\ windows[k].depth <= Len(marks')
    BY <1>19 DEF NoneBeyond
  <2>2. k \in 1..Len(windows)
    BY <1>7, <1>19, MarkParts DEF FirstCalls
  <2>3. windows[k].mark.cur \in Nat /\ windows[k].mark.cursor \in Nat
    BY <2>2, <1>7, MarkParts
  <2> QED BY <2>1, <2>3, <1>21
<1>24. MarkInv' /\ WindowInv' /\ Ordered(marks, windows, entered)'
  BY <1>6, <1>9, <1>10, <1>16, <1>17, <1>19, <1>22, <1>23, PointsStep
<1> QED BY <1>6, <1>7, <1>18, <1>20, <1>24 DEF Inv

\* Every step, as long as no mark is restored under another budget.
LEMMA InvNext ==
    ASSUME Inv, ~ForeignMarks, [Next]_vars
    PROVE  Inv'
<1>1. CASE UNCHANGED vars
  BY <1>1, InvStutter
<1>2. ASSUME NEW n \in Sizes, Alloc(n)
      PROVE  Inv'
  BY <1>2, InvAlloc
<1>3. ASSUME NEW b \in Budgets, Switch(b)
      PROVE  Inv'
  BY <1>3, InvSwitch
<1>4. CASE Snapshot
  BY <1>4, InvSnapshot
<1>5. CASE Restore
  BY <1>5, InvRestore
<1>6. CASE Forget
  BY <1>6, InvForget
<1>7. CASE CallHelper
  BY <1>7, InvCallHelper
<1>8. CASE HelperReturns
  BY <1>8, InvHelperReturns
<1>9. CASE OpenPass
  BY <1>9, InvOpenPass
<1>10. CASE OpenForward
  BY <1>10, InvOpenForward
<1>11. CASE ClosePass
  BY <1>11, InvClosePass
<1>12. CASE CloseForward
  BY <1>12, InvCloseForward
<1>13. ASSUME NEW p \in Params, NEW x \in blocks, Publish(p, x)
       PROVE  Inv'
  BY <1>13, InvPublish
<1> QED BY <1>1, <1>2, <1>3, <1>4, <1>5, <1>6, <1>7, <1>8, <1>9, <1>10, <1>11, <1>12, <1>13 DEF Next

\* The invariant of the specification.
LEMMA InvAlways ==
    ASSUME ~ForeignMarks
    PROVE  Spec => []Inv
<1>1. Inv /\ [Next]_vars => Inv'
  BY InvNext
<1> QED BY <1>1, InvInit, PTL DEF Spec

\* The arenas are well formed.
LEMMA InvTyped == Inv => TypeOK
<1> SUFFICES ASSUME Inv
             PROVE  TypeOK
  OBVIOUS
<1>1. Shape /\ StoreInv /\ panicked = FALSE /\ entered \in Budgets /\ events \in Nat
  BY DEF Inv, Shape
<1>2. ASSUME NEW b \in Budgets, NEW a, a = arena[b]
      PROVE  /\ a.chunks = <<>> => a.cur = 1 /\ a.cursor = 0
             /\ a.chunks # <<>> => a.cur \in DOMAIN a.chunks /\ a.cursor \in 0..a.chunks[a.cur].len
             /\ a.committed = SumOver(Lengths(a), DOMAIN a.chunks)
             /\ b = 0 => a.chunkSize = RootChunk
  <2>1. ChunksOK(b, a) /\ CursorOK(a)
    BY <1>1, <1>2 DEF StoreInv, Stored, ArenaOK
  <2>2. /\ a.cursor \in Nat /\ DOMAIN a.chunks = 1..Len(a.chunks) /\ Len(a.chunks) \in Nat
        /\ \A i \in 1..Len(a.chunks) : a.chunks[i].len \in Nat
        /\ b = 0 => a.chunkSize = RootChunk
    BY <2>1, ArenaParts
  <2>3. a.chunks = <<>> => a.cur = 1 /\ a.cursor = 0
    <3>1. ASSUME a.chunks = <<>>
          PROVE  a.cur \notin DOMAIN a.chunks
      <4>1. DOMAIN a.chunks = {}
        BY <3>1
      <4> QED BY <4>1
    <3> QED BY <2>1, <3>1 DEF CursorOK
  <2>4. a.chunks # <<>> => a.cur \in DOMAIN a.chunks /\ a.cursor \in 0..a.chunks[a.cur].len
    BY <2>1, <2>2 DEF CursorOK
  <2>5. a.committed = SumOver(Lengths(a), DOMAIN a.chunks)
    <3>1. a.committed = SumOf(Lengths(a), DOMAIN a.chunks)
      BY <2>1 DEF ChunksOK
    <3> QED BY <3>1 DEF SumOf, SumOver
  <2> QED BY <2>2, <2>3, <2>4, <2>5
<1>3. \A x \in blocks : x.at % Align = 0 /\ x.id \in 1..events
  <2>1. \A x \in blocks : x.budget \in Budgets /\ x.id \in 1..events /\ x \in Of(blocks, x.budget)
    BY <1>1, BlockIds DEF Of
  <2> QED BY <2>1, <1>1 DEF StoreInv, Stored
<1>4. panicked \in BOOLEAN
  BY <1>1
<1> QED BY <1>1, <1>2, <1>3, <1>4 DEF TypeOK

\* Every live block is intact.
LEMMA InvIntact == Inv => BlocksIntact
<1> SUFFICES ASSUME Inv, NEW x \in blocks
             PROVE  Intact(x)
  BY DEF BlocksIntact
<1>1. x.budget \in Budgets /\ x \in Of(blocks, x.budget)
  BY BlockIds DEF Inv, Of
<1>2. Held(arena[x.budget], memory, x)
  BY <1>1 DEF Inv, StoreInv, Stored
<1> QED BY <1>2, HeldIntact

\* Every meter covers the live blocks of its budget.
LEMMA InvCovers == Inv => UsedCoversLive
<1> SUFFICES ASSUME Inv, NEW b \in Budgets
             PROVE  /\ SumOver(Charges, {x \in blocks : x.budget = b}) <= arena[b].used
                    /\ arena[b].used <= Extent[b]
  BY DEF UsedCoversLive
<1>1. /\ Stored(b, arena[b], memory, Of(blocks, b), events) /\ arena[b].used <= Extent[b]
      /\ blocks \subseteq BlockType
  BY DEF Inv, StoreInv, Shape
<1>2. PICK B : B = Of(blocks, b)
  OBVIOUS
<1>3. IsFiniteSet(B) /\ Total(B) <= arena[b].used /\ (\A x \in B : x \in BlockType) /\ B \subseteq blocks
  BY <1>1, <1>2 DEF Stored, Of
<1>4. \A x \in B : ChargesOf(B)[x] = AlignUp(x.bytes) /\ ChargesOf(B)[x] \in Nat
  BY <1>3, ChargeOfBlock
<1>5. \A x \in B : ChargesOf(B)[x] \in Int /\ Charges[x] = ChargesOf(B)[x]
  BY <1>3, <1>4 DEF Charges
<1>6. SumOf(Charges, B) = SumOf(ChargesOf(B), B)
  BY <1>3, <1>5, SumSame
<1>7. SumOf(Charges, B) <= arena[b].used
  BY <1>3, <1>6 DEF Total
<1>8. B = {x \in blocks : x.budget = b}
  BY <1>2 DEF Of
<1>9. SumOver(Charges, B) <= arena[b].used
  BY <1>7 DEF SumOf, SumOver
<1> QED BY <1>1, <1>8, <1>9

\* As long as no program restores a mark under a budget it was not taken in, the
\* arenas stay well formed: the cursor in its chunk, the committed bytes those of
\* the chunks, the first chunk size kept.
THEOREM TypeCorrect ==
    ASSUME ~ForeignMarks
    PROVE  Spec => []TypeOK
BY InvAlways, InvTyped, PTL

\* Then too no allocation, after whatever rewinds and moves, is placed over a
\* value that may still be used.
THEOREM NothingPlacedOver ==
    ASSUME ~ForeignMarks
    PROVE  Spec => []BlocksIntact
BY InvAlways, InvIntact, PTL

\* Then too no assertion of restore or restore_internal can fail.
THEOREM NeverStopped ==
    ASSUME ~ForeignMarks
    PROVE  Spec => []MarksHold
<1>1. Inv => MarksHold
  BY DEF Inv, MarksHold
<1> QED BY <1>1, InvAlways, PTL

\* Then too what is live in an arena is charged to its meter, and the meter is
\* within the limit.
THEOREM MeterCovers ==
    ASSUME ~ForeignMarks
    PROVE  Spec => []UsedCoversLive
BY InvAlways, InvCovers, PTL

-------------------------------------------------------------------------------
(* The captured gradients.                                                  *)

\* Without @grad calls from helpers only passes are nested, in the bodies of
\* others, where no marks are left.
Nested(ws) ==
    \A k, l \in 1..Len(ws) :
        l = k + 1 => ws[k].phase = "body" /\ ws[k].depth = ws[l].depth /\ ws[l].kind = "pass"

\* f holds blocks of B that no mark of ms from after depth d can discard.
SlotsLive(f, B, ms, d) ==
    \A q \in DOMAIN f :
        f[q] \in B /\ \A i \in 1..Len(ms) : d < i => f[q].id <= ms[i].born

\* The innermost call w of a pass has only such slots, and no marks of its own
\* but those of a helper.
TopOK(w, f, B, ms) ==
    /\ w.phase # "helper" => Len(ms) = w.depth
    /\ w.kind = "pass" => SlotsLive(f, B, ms, w.depth)

\* No block of B holds something else than what was computed for it.
NoGarbage(B) == \A x \in B : x.value # Garbage

\* The invariant of the captured gradients.
SlotInv ==
    /\ NoGarbage(blocks)
    /\ Nested(windows)
    /\ Inside => TopOK(Top, slots, blocks, marks)

\* A step in which the calls keep their place, and at most the innermost its phase.
LEMMA SameCalls ==
    ASSUME Inv, Inside, Nested(windows),
           NEW p \in {"body", "helper", "backward"}, NEW ws, ws = Phase(p)
    PROVE  /\ Nested(ws) /\ ws # <<>> /\ Last(ws).phase = p
           /\ Last(ws).kind = Top.kind /\ Last(ws).depth = Top.depth
<1>1. /\ Len(windows) \in Nat \ {0} /\ Top = windows[Len(windows)]
  BY TopWindow
<1>2. /\ ws \in Seq(WindowType) /\ Len(ws) = Len(windows)
      /\ \A k \in 1..Len(windows) :
             /\ ws[k].kind = windows[k].kind
             /\ ws[k].phase = IF k = Len(windows) THEN p ELSE windows[k].phase
             /\ ws[k].depth = windows[k].depth
  BY PhaseChanged DEF FirstCalls
<1>3. ws # <<>> /\ Last(ws) = ws[Len(windows)]
  <2>1. ws # <<>>
    BY <1>1, <1>2
  <2> QED BY <2>1, <1>2, StackPop
<1>4. Len(windows) \in 1..Len(windows)
  BY <1>1
<1>5. Nested(ws)
  <2> SUFFICES ASSUME NEW k \in 1..Len(windows), NEW l \in 1..Len(windows), l = k + 1
               PROVE  ws[k].phase = "body" /\ ws[k].depth = ws[l].depth /\ ws[l].kind = "pass"
    BY <1>2 DEF Nested
  <2>1. k # Len(windows)
    BY <1>1
  <2>2. windows[k].phase = "body" /\ windows[k].depth = windows[l].depth /\ windows[l].kind = "pass"
    BY DEF Nested
  <2> QED BY <2>1, <2>2, <1>2
<1> QED BY <1>1, <1>2, <1>3, <1>4, <1>5

\* A helper runs: the marks beyond the call are its own.
LEMMA SlotsOrdinary ==
    ASSUME Inv, SlotInv, Inside => Top.phase = "helper",
           UNCHANGED <<windows, slots>>, NoGarbage(blocks'),
           Inside /\ Top.kind = "pass" => SlotsLive(slots, blocks', marks', Top.depth)
    PROVE  SlotInv'
<1>1. Nested(windows') /\ (Inside' <=> Inside) /\ Top' = Top
  BY DEF SlotInv, Inside, Top
<1>2. Inside => TopOK(Top, slots', blocks', marks')
  BY DEF TopOK
<1> QED BY <1>1, <1>2 DEF SlotInv

\* A block more is live.
LEMMA SlotsAlloc ==
    ASSUME Inv, SlotInv, NEW n \in Sizes, Alloc(n)
    PROVE  SlotInv'
<1>1. PICK y : y = Block(Placed(entered, arena[entered], n).place, events + 1, events + 1)
  OBVIOUS
<1>2. /\ blocks' = blocks \cup {y} /\ UNCHANGED <<marks, windows, slots>>
  BY <1>1 DEF Alloc
<1>3. y.value # Garbage
  <2>1. y.value = events + 1 /\ events \in Nat
    BY <1>1 DEF Block, Inv, Shape
  <2> QED BY <2>1 DEF Garbage
<1>4. NoGarbage(blocks')
  BY <1>2, <1>3 DEF SlotInv, NoGarbage
<1>5. \A w : TopOK(w, slots, blocks, marks) => TopOK(w, slots', blocks', marks')
  BY <1>2 DEF TopOK, SlotsLive
<1>6. Nested(windows') /\ (Inside' <=> Inside) /\ Top' = Top
  BY <1>2 DEF SlotInv, Inside, Top
<1> QED BY <1>4, <1>5, <1>6 DEF SlotInv

\* A mark taken by a helper is younger than what was captured before.
LEMMA SlotsSnapshot ==
    ASSUME Inv, SlotInv, Snapshot
    PROVE  SlotInv'
<1>1. PICK m : m = [mark |-> Pack(arena[entered]), budget |-> entered, born |-> events + 1]
  OBVIOUS
<1>2. /\ marks' = Append(marks, m) /\ Ordinary /\ UNCHANGED <<blocks, windows, slots>>
  BY <1>1 DEF Snapshot
<1>3. /\ marks \in Seq(MarkType) /\ events \in Nat /\ m.born = events + 1
      /\ Len(marks) \in Nat /\ Len(marks') = Len(marks) + 1
      /\ \A i \in 1..Len(marks) : marks'[i] = marks[i]
      /\ marks'[Len(marks) + 1] = m
  BY <1>1, <1>2, AppendProperties, LenProperties DEF Inv, Shape
<1>4. \A x \in blocks : x.id \in 1..events
  BY BlockIds DEF Inv
<1>5. ASSUME Inside, Top.kind = "pass"
      PROVE  SlotsLive(slots, blocks', marks', Top.depth)
  <2>1. SlotsLive(slots, blocks, marks, Top.depth)
    BY <1>5 DEF SlotInv, TopOK
  <2> SUFFICES ASSUME NEW q \in DOMAIN slots, NEW i \in 1..Len(marks'), Top.depth < i
               PROVE  slots[q].id <= marks'[i].born
    BY <1>2, <2>1 DEF SlotsLive
  <2>2. slots[q] \in blocks
    BY <2>1 DEF SlotsLive
  <2>3. CASE i \in 1..Len(marks)
    BY <2>1, <2>3, <1>3 DEF SlotsLive
  <2>4. CASE i = Len(marks) + 1
    <3>1. slots[q].id \in 1..events
      BY <2>2, <1>4
    <3> QED BY <3>1, <2>4, <1>3
  <2> QED BY <2>3, <2>4, <1>3
<1>6. NoGarbage(blocks') /\ (Inside => Top.phase = "helper")
  BY <1>2 DEF SlotInv, Ordinary
<1> QED BY <1>2, <1>5, <1>6, SlotsOrdinary

\* A helper drops its newest mark.
LEMMA SlotsForget ==
    ASSUME Inv, SlotInv, Forget
    PROVE  SlotInv'
<1>1. /\ marks # <<>> /\ marks' = Front(marks) /\ Ordinary /\ UNCHANGED <<blocks, windows, slots>>
  BY DEF Forget, InUse
<1>2. /\ Len(marks) \in Nat \ {0} /\ Len(marks') = Len(marks) - 1
      /\ \A i \in 1..(Len(marks) - 1) : marks'[i] = marks[i]
  BY <1>1, StackPop DEF Inv, Shape
<1>3. \A i \in 1..Len(marks') : i \in 1..Len(marks) /\ marks'[i] = marks[i]
  BY <1>2
<1>4. Inside /\ Top.kind = "pass" => SlotsLive(slots, blocks', marks', Top.depth)
  BY <1>1, <1>3 DEF SlotInv, TopOK, SlotsLive
<1>5. NoGarbage(blocks') /\ (Inside => Top.phase = "helper")
  BY <1>1 DEF SlotInv, Ordinary
<1> QED BY <1>1, <1>4, <1>5, SlotsOrdinary

\* A helper returns to a mark of its own, past what was captured.
LEMMA SlotsRestore ==
    ASSUME Inv, SlotInv, Restore
    PROVE  SlotInv'
<1>1. PICK m : m = Last(marks)
  OBVIOUS
<1>2. /\ marks # <<>> /\ (Inside => Len(marks) > Top.depth) /\ Ordinary
      /\ UNCHANGED <<marks, windows, slots>>
      /\ blocks' = blocks \ Discarded(entered, m.born) \/ blocks' = blocks
  BY <1>1 DEF Restore, InUse
<1>3. Len(marks) \in 1..Len(marks) /\ m = marks[Len(marks)] /\ m \in MarkType
  BY <1>1, <1>2, StackPop DEF Inv, Shape
<1>4. \A x \in blocks : x.id \in Nat
  BY BlockIds DEF Inv
<1>5. ASSUME Inside, Top.kind = "pass"
      PROVE  SlotsLive(slots, blocks', marks', Top.depth)
  <2>1. SlotsLive(slots, blocks, marks, Top.depth)
    BY <1>5 DEF SlotInv, TopOK
  <2>2. \A q \in DOMAIN slots : slots[q] \in blocks /\ slots[q].id <= m.born
    <3>1. Top.depth < Len(marks)
      BY <1>2, <1>3, <1>5, TopWindow
    <3> QED BY <2>1, <3>1, <1>3 DEF SlotsLive
  <2>3. m.born \in Nat
    BY <1>3 DEF MarkType
  <2>4. \A q \in DOMAIN slots : slots[q] \in blocks'
    BY <1>2, <1>4, <2>2, <2>3 DEF Discarded
  <2> QED BY <2>1, <2>4, <1>2 DEF SlotsLive
<1>6. NoGarbage(blocks') /\ (Inside => Top.phase = "helper")
  BY <1>2 DEF SlotInv, Ordinary, NoGarbage
<1> QED BY <1>2, <1>5, <1>6, SlotsOrdinary

\* The body calls a helper.
LEMMA SlotsCallHelper ==
    ASSUME Inv, SlotInv, CallHelper
    PROVE  SlotInv'
<1>1. /\ Inside /\ windows' = Phase("helper") /\ UNCHANGED <<marks, slots, blocks>>
  BY DEF CallHelper
<1>2. /\ Nested(windows') /\ windows' # <<>> /\ Last(windows').phase = "helper"
      /\ Last(windows').kind = Top.kind /\ Last(windows').depth = Top.depth
  BY <1>1, SameCalls DEF SlotInv
<1>3. TopOK(Top', slots', blocks', marks')
  BY <1>1, <1>2 DEF SlotInv, TopOK, Top
<1> QED BY <1>1, <1>2, <1>3 DEF SlotInv

\* The helper returns, without marks.
LEMMA SlotsHelperReturns ==
    ASSUME Inv, SlotInv, HelperReturns
    PROVE  SlotInv'
<1>1. /\ Inside /\ windows' = Phase("body") /\ marks' = MarksBefore(Top)
      /\ UNCHANGED <<slots, blocks>>
  BY DEF HelperReturns
<1>2. /\ Nested(windows') /\ windows' # <<>> /\ Last(windows').phase = "body"
      /\ Last(windows').kind = Top.kind /\ Last(windows').depth = Top.depth
  BY <1>1, SameCalls DEF SlotInv
<1>3. Len(marks') = Top.depth /\ Top.depth \in Nat
  BY <1>1, MarksCut, TopWindow
<1>4. Top.kind = "pass" => SlotsLive(slots, blocks, marks', Top.depth)
  <2>1. \A i \in 1..Len(marks') : ~(Top.depth < i)
    BY <1>3
  <2> QED BY <1>1, <2>1 DEF SlotInv, TopOK, SlotsLive
<1>5. TopOK(Top', slots', blocks', marks')
  BY <1>1, <1>2, <1>3, <1>4 DEF TopOK, Top
<1> QED BY <1>1, <1>2, <1>5 DEF SlotInv

\* A call is entered from no call, or from the body of another.
LEMMA SlotsOpen ==
    ASSUME Inv, SlotInv, NEW kind \in {"pass", "forward"}, windows' = Append(windows, Window(kind)),
           UNCHANGED <<marks, blocks>>,
           Inside => Top.phase = "body" /\ kind = "pass",
           kind = "pass" => slots' = <<>>
    PROVE  SlotInv'
<1>1. PICK w : w = Window(kind)
  OBVIOUS
<1>2. w.kind = kind /\ w.phase = "body" /\ w.depth = Len(marks)
  BY <1>1 DEF Window
<1>3. /\ windows \in Seq(WindowType) /\ Len(windows) \in Nat
      /\ Len(windows') = Len(windows) + 1
      /\ \A k \in 1..Len(windows) : windows'[k] = windows[k]
      /\ windows'[Len(windows) + 1] = w /\ windows' # <<>>
  BY <1>1, AppendProperties, LenProperties DEF Inv, Shape
<1>4. Last(windows') = w
  BY <1>3 DEF Last
<1>5. ASSUME NEW k \in 1..Len(windows'), NEW l \in 1..Len(windows'), l = k + 1
      PROVE  /\ windows'[k].phase = "body" /\ windows'[k].depth = windows'[l].depth
             /\ windows'[l].kind = "pass"
  <2>1. k \in 1..Len(windows) /\ windows'[k] = windows[k]
    BY <1>3, <1>5
  <2>2. CASE l \in 1..Len(windows)
    BY <2>1, <2>2, <1>3, <1>5 DEF SlotInv, Nested
  <2>3. CASE l = Len(windows) + 1
    <3>1. Inside /\ k = Len(windows)
      BY <2>1, <2>3, <1>3, <1>5 DEF Inside
    <3>2. Top = windows[k]
      BY <3>1, TopWindow
    <3>3. Len(marks) = Top.depth
      BY <3>1 DEF SlotInv, TopOK
    <3> QED BY <2>1, <2>3, <3>1, <3>2, <3>3, <1>2, <1>3
  <2> QED BY <2>2, <2>3, <1>3
<1>6. Nested(windows')
  BY <1>5 DEF Nested
<1>7. TopOK(w, slots', blocks', marks')
  <2>1. kind = "pass" => SlotsLive(slots', blocks', marks', w.depth)
    BY DEF SlotsLive
  <2> QED BY <2>1, <1>2 DEF TopOK
<1>8. NoGarbage(blocks')
  BY DEF SlotInv
<1>9. Top' = w
  BY <1>4 DEF Top
<1> QED BY <1>6, <1>7, <1>8, <1>9 DEF SlotInv

\* A buffer is captured in a body without marks.
LEMMA SlotsPublish ==
    ASSUME Inv, SlotInv, NEW p \in Params, NEW x \in blocks, Publish(p, x)
    PROVE  SlotInv'
<1>1. /\ Inside /\ Top.kind = "pass" /\ Top.phase \in {"body", "backward"}
      /\ windows' = Phase("backward") /\ UNCHANGED <<marks, blocks>>
      /\ slots' = [q \in DOMAIN slots \cup {p} |-> IF q = p THEN x ELSE slots[q]]
  BY DEF Publish
<1>2. /\ Nested(windows') /\ windows' # <<>> /\ Last(windows').phase = "backward"
      /\ Last(windows').kind = Top.kind /\ Last(windows').depth = Top.depth
  BY <1>1, SameCalls DEF SlotInv
<1>3. Len(marks) = Top.depth /\ Top.depth \in Nat /\ SlotsLive(slots, blocks, marks, Top.depth)
  BY <1>1, TopWindow DEF SlotInv, TopOK
<1>4. SlotsLive(slots', blocks, marks, Top.depth)
  <2>1. \A i \in 1..Len(marks) : ~(Top.depth < i)
    BY <1>3
  <2>2. \A q \in DOMAIN slots' : slots'[q] \in blocks
    BY <1>1, <1>3 DEF SlotsLive
  <2> QED BY <2>1, <2>2 DEF SlotsLive
<1>5. TopOK(Top', slots', blocks', marks')
  BY <1>1, <1>2, <1>3, <1>4 DEF TopOK, Top
<1> QED BY <1>1, <1>2, <1>5 DEF SlotInv

\* A call is left: the one it was nested in, if any, is in its body.
LEMMA CallLeft ==
    ASSUME Inv, Inside, SlotInv, Front(windows) # <<>>
    PROVE  /\ Top.kind = "pass" /\ Nested(Front(windows))
           /\ Last(Front(windows)).phase = "body" /\ Last(Front(windows)).depth = Top.depth
<1>1. PICK n : n = Len(windows)
  OBVIOUS
<1>2. /\ n \in Nat \ {0} /\ Top = windows[n]
      /\ Front(windows) \in Seq(WindowType) /\ Len(Front(windows)) = n - 1
      /\ \A k \in 1..(n - 1) : Front(windows)[k] = windows[k]
  BY <1>1, TopWindow
<1>3. /\ n - 1 \in Nat \ {0} /\ Last(Front(windows)) = Front(windows)[n - 1]
  <2>1. PICK ws : ws = Front(windows)
    OBVIOUS
  <2>2. ws \in Seq(WindowType) /\ ws # <<>> /\ Len(ws) = n - 1
    BY <1>2, <2>1
  <2>3. Len(ws) \in Nat \ {0} /\ Last(ws) = ws[Len(ws)]
    BY <2>2, StackPop
  <2> QED BY <2>1, <2>2, <2>3
<1>4. Last(Front(windows)) = windows[n - 1]
  BY <1>2, <1>3
<1>5. windows[n - 1].phase = "body" /\ windows[n - 1].depth = windows[n].depth /\ windows[n].kind = "pass"
  <2>1. n - 1 \in 1..Len(windows) /\ n \in 1..Len(windows) /\ n = (n - 1) + 1
    BY <1>1, <1>3
  <2> QED BY <2>1 DEF SlotInv, Nested
<1>6. Nested(Front(windows))
  <2>1. \A k \in 1..(n - 1) : k \in 1..Len(windows)
    BY <1>1, <1>3
  <2> SUFFICES ASSUME NEW k \in 1..(n - 1), NEW l \in 1..(n - 1), l = k + 1
               PROVE  /\ Front(windows)[k].phase = "body"
                      /\ Front(windows)[k].depth = Front(windows)[l].depth
                      /\ Front(windows)[l].kind = "pass"
    BY <1>2 DEF Nested
  <2>2. windows[k].phase = "body" /\ windows[k].depth = windows[l].depth /\ windows[l].kind = "pass"
    BY <2>1 DEF SlotInv, Nested
  <2> QED BY <2>2, <1>2
<1> QED BY <1>2, <1>4, <1>5, <1>6

\* The moved gradients are live, and hold what was captured.
LEMMA SlotsClosePass ==
    ASSUME Inv, SlotInv, ClosePass
    PROVE  SlotInv'
<1>1. PICK after : after = Compacted(Top)
  OBVIOUS
<1>2. Inside /\ Top.kind = "pass" /\ InArena(arena[entered], Top.mark)
  BY TopMark DEF ClosePass
<1>3. /\ slots' = after.slots
      /\ blocks' = (blocks \ Discarded(entered, Top.born)) \cup Values(after.slots)
      /\ windows' = Front(windows) /\ marks' = MarksBefore(Top)
  BY <1>1, <1>2 DEF ClosePass
<1>4. SlotsMoved(DOMAIN slots, slots')
  <2>1. PICK a : a = Back(arena[entered], Top.mark, Top.used)
    OBVIOUS
  <2>2. Compacting(DOMAIN slots, after, a, Older(blocks, entered, Top.born))
    BY <2>1, <1>1, <1>2, CompactedWell
  <2> QED BY <2>2, <1>3 DEF Compacting
<1>5. \A q \in DOMAIN slots : slots[q] \in blocks
  BY <1>2 DEF SlotInv, TopOK, SlotsLive
<1>6. ASSUME NEW q \in DOMAIN slots
      PROVE  slots'[q].value # Garbage
  <2>1. Intact(slots[q]) /\ slots[q].value # Garbage
    BY <1>5, InvIntact DEF BlocksIntact, SlotInv, NoGarbage
  <2>2. slots'[q].value = IF Intact(slots[q]) THEN slots[q].value ELSE Garbage
    BY <1>4 DEF SlotsMoved
  <2> QED BY <2>1, <2>2
<1>7. DOMAIN slots' = DOMAIN slots /\ Values(after.slots) = {slots'[q] : q \in DOMAIN slots'}
  BY <1>3, <1>4 DEF SlotsMoved, Values
<1>8. NoGarbage(blocks')
  BY <1>3, <1>6, <1>7 DEF SlotInv, NoGarbage
<1>9. CASE windows' = <<>>
  <2>1. ~Inside' /\ Nested(windows')
    <3>1. Len(windows') = 0
      BY <1>9
    <3> QED BY <3>1, <1>9 DEF Inside, Nested
  <2> QED BY <2>1, <1>8 DEF SlotInv
<1>10. CASE windows' # <<>>
  <2>1. Nested(windows') /\ Last(windows').phase = "body" /\ Last(windows').depth = Top.depth
    BY <1>2, <1>3, <1>10, CallLeft
  <2>2. Len(marks') = Top.depth /\ Top.depth \in Nat
    BY <1>2, <1>3, MarksCut, TopWindow
  <2>3. SlotsLive(slots', blocks', marks', Top.depth)
    <3>1. \A i \in 1..Len(marks') : ~(Top.depth < i)
      BY <2>2
    <3>2. \A q \in DOMAIN slots' : slots'[q] \in blocks'
      BY <1>3, <1>7
    <3> QED BY <3>1, <3>2 DEF SlotsLive
  <2>4. TopOK(Top', slots', blocks', marks')
    BY <2>1, <2>2, <2>3 DEF TopOK, Top
  <2> QED BY <2>1, <2>4, <1>8 DEF SlotInv
<1> QED BY <1>9, <1>10

\* A forward-only call has no other around it.
LEMMA SlotsCloseForward ==
    ASSUME Inv, SlotInv, CloseForward
    PROVE  SlotInv'
<1>1. /\ Inside /\ Top.kind = "forward" /\ windows' = Front(windows)
      /\ blocks' = blocks \ Discarded(entered, Top.born) \/ blocks' = blocks
  BY DEF CloseForward
<1>2. windows' = <<>>
  BY <1>1, CallLeft
<1>3. NoGarbage(blocks')
  BY <1>1 DEF SlotInv, NoGarbage
<1>4. ~Inside' /\ Nested(windows')
  <2>1. Len(windows') = 0
    BY <1>2
  <2> QED BY <2>1, <1>2 DEF Inside, Nested
<1> QED BY <1>3, <1>4 DEF SlotInv

\* Nothing captured yet.
LEMMA SlotsInit == Init => SlotInv
<1> SUFFICES ASSUME Init
             PROVE  SlotInv
  OBVIOUS
<1>1. blocks = {} /\ windows = <<>> /\ Len(windows) = 0
  BY DEF Init
<1> QED BY <1>1 DEF SlotInv, NoGarbage, Nested, Inside

\* Every step, when helpers make no @grad calls.
LEMMA SlotsNext ==
    ASSUME Inv, SlotInv, ~GradInHelper, [Next]_vars
    PROVE  SlotInv'
<1>1. ASSUME UNCHANGED <<blocks, windows, slots, marks>>
      PROVE  SlotInv'
  BY <1>1 DEF SlotInv, Inside, Top
<1>2. CASE UNCHANGED vars
  BY <1>1, <1>2 DEF vars
<1>3. ASSUME NEW n \in Sizes, Alloc(n)
      PROVE  SlotInv'
  BY <1>3, SlotsAlloc
<1>4. ASSUME NEW b \in Budgets, Switch(b)
      PROVE  SlotInv'
  BY <1>1, <1>4 DEF Switch
<1>5. CASE Snapshot
  BY <1>5, SlotsSnapshot
<1>6. CASE Restore
  BY <1>6, SlotsRestore
<1>7. CASE Forget
  BY <1>7, SlotsForget
<1>8. CASE CallHelper
  BY <1>8, SlotsCallHelper
<1>9. CASE HelperReturns
  BY <1>9, SlotsHelperReturns
<1>10. CASE OpenPass
  <2>1. /\ windows' = Append(windows, Window("pass")) /\ slots' = <<>> /\ UNCHANGED <<marks, blocks>>
        /\ Inside => Top.phase = "body"
    BY <1>10 DEF OpenPass, Callable, ClearedSlots
  <2> QED BY <2>1, SlotsOpen
<1>11. CASE OpenForward
  <2>1. /\ windows' = Append(windows, Window("forward")) /\ UNCHANGED <<marks, blocks>> /\ ~Inside
    BY <1>11 DEF OpenForward, Callable
  <2> QED BY <2>1, SlotsOpen
<1>12. CASE ClosePass
  BY <1>12, SlotsClosePass
<1>13. CASE CloseForward
  BY <1>13, SlotsCloseForward
<1>14. ASSUME NEW p \in Params, NEW x \in blocks, Publish(p, x)
       PROVE  SlotInv'
  BY <1>14, SlotsPublish
<1> QED BY <1>2, <1>3, <1>4, <1>5, <1>6, <1>7, <1>8, <1>9, <1>10, <1>11, <1>12, <1>13, <1>14 DEF Next

\* Both invariants of the specification.
LEMMA SlotsAlways ==
    ASSUME ~ForeignMarks, ~GradInHelper
    PROVE  Spec => [](Inv /\ SlotInv)
<1>1. Inv /\ SlotInv /\ [Next]_vars => (Inv /\ SlotInv)'
  BY InvNext, SlotsNext
<1>2. Init => Inv /\ SlotInv
  BY InvInit, SlotsInit
<1> QED BY <1>1, <1>2, PTL DEF Spec

\* When moreover no helper of a @grad body makes @grad calls of its own, the
\* buffers a pass captured are good until its epilogue has read them.
THEOREM CapturedBuffersSurvive ==
    ASSUME ~ForeignMarks, ~GradInHelper
    PROVE  Spec => []SlotsIntact
<1>1. ASSUME Inv, SlotInv
      PROVE  SlotsIntact
  <2> SUFFICES ASSUME Inside, Top.kind = "pass", NEW x \in Values(slots)
               PROVE  Intact(x) /\ x.value # Garbage
    BY DEF SlotsIntact
  <2>1. x \in blocks
    BY <1>1 DEF SlotInv, TopOK, SlotsLive, Values
  <2> QED BY <2>1, <1>1, InvIntact DEF BlocksIntact, SlotInv, NoGarbage
<1> QED BY <1>1, SlotsAlways, PTL

\* And no value the program may use has become another on the way down.
THEOREM MovedGradientsAreThoseComputed ==
    ASSUME ~ForeignMarks, ~GradInHelper
    PROVE  Spec => []GradientsSurvive
<1>1. Inv /\ SlotInv => GradientsSurvive
  BY DEF SlotInv, NoGarbage, GradientsSurvive
<1> QED BY <1>1, SlotsAlways, PTL

===============================================================================
