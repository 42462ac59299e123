------------------------- MODULE JournalFileProofs -------------------------
(***************************************************************************)
(* Lemmas about the journal's file: when a batch checks, what a recovery   *)
(* verifies and reads, and what is left of both when the file is cut or a  *)
(* loss of power tears it.                                                 *)
(***************************************************************************)
EXTENDS JournalFile, SequenceTheorems, MaxProofs

Files == Seq(Chunks \cup {Garbage})
-----------------------------------------------------------------------------
\* Where the batches of a journal begin and end.
LEMMA Places ==
    /\ Width \in Nat /\ Width >= 1
    /\ \A n \in Nat : /\ n * Width \in Nat
                      /\ n <= n * Width
                      /\ (n + 1) * Width = n * Width + Width
    /\ \A m, n \in Nat : m < n => m * Width + Width <= n * Width
<1>1. Width \in Nat /\ Width >= 1
  BY FileAssumption
<1>2. ASSUME NEW n \in Nat
      PROVE  /\ n * Width \in Nat
             /\ n <= n * Width
             /\ (n + 1) * Width = n * Width + Width
  BY <1>1
<1>3. ASSUME NEW m \in Nat, NEW n \in Nat, m < n
      PROVE  m * Width + Width <= n * Width
  <2>1. PICK d \in Nat : n = (m + 1) + d
    <3>1. n - (m + 1) \in Nat
      BY <1>3
    <3>2. QED BY <3>1
  <2>2. n * Width = (m + 1) * Width + d * Width
    BY <2>1, <1>1
  <2>3. QED BY <2>2, <1>2
<1>4. QED BY <1>1, <1>2, <1>3

\* A batch checks when each of its chunks is in its place.
LEMMA BatchMeans ==
    ASSUME NEW f \in Files, NEW n \in Nat
    PROVE  BatchChecks(f, n + 1) <=>
              /\ n * Width + Width <= Len(f)
              /\ \E e \in Events : \A k \in 1..Width :
                    f[n * Width + k] = Chunk(e, n + 1, k)
<1> DEFINE base == n * Width
           s == SubSeq(f, base + 1, base + Width)
<1>0. /\ base \in Nat /\ Width \in Nat /\ Width >= 1
      /\ (n + 1) * Width = base + Width /\ (n + 1) - 1 = n
  BY Places
<1>1. Len(f) \in Nat
  BY LenProperties DEF Files
<1>2. SUFFICES ASSUME base + Width <= Len(f)
               PROVE  \A e \in Events :
                         s = Bytes(e, n + 1) <=>
                         \A k \in 1..Width : f[base + k] = Chunk(e, n + 1, k)
  BY <1>0 DEF BatchChecks
<1> TAKE e \in Events
<1> HIDE DEF base
<1>3. /\ s \in Files
      /\ Len(s) = Width
      /\ \A k \in 1..Width : s[k] = f[base + k]
  <2>1. \A i \in base + 1..base + Width : f[i] \in Chunks \cup {Garbage}
    BY <1>0, <1>1, <1>2, ElementOfSeq DEF Files
  <2>2. /\ s \in Files
        /\ Len(s) = IF base + 1 <= base + Width THEN (base + Width) - (base + 1) + 1 ELSE 0
        /\ \A k \in 1..(base + Width) - (base + 1) + 1 : s[k] = f[(base + 1) + k - 1]
    BY <2>1, <1>0, SubSeqProperties DEF Files
  <2>3. QED BY <2>2, <1>0
<1> HIDE DEF s
<1>4. s \in [1..Width -> Chunks \cup {Garbage}]
  BY <1>3, LenProperties DEF Files
<1>5. s = Bytes(e, n + 1) <=> \A k \in 1..Width : s[k] = Chunk(e, n + 1, k)
  BY <1>4 DEF Bytes
<1>6. QED BY <1>3, <1>5

\* A recovery verifies the longest prefix of batches that check.
LEMMA VerifiedIs ==
    ASSUME NEW f \in Files
    PROVE  /\ Verified(f) \in Nat
           /\ \A m \in 1..Verified(f) : BatchChecks(f, m)
           /\ \A n \in Nat : (\A m \in 1..n : BatchChecks(f, m)) => n <= Verified(f)
<1> DEFINE S == {n \in 0..Len(f) : \A m \in 1..n : BatchChecks(f, m)}
<1>1. Len(f) \in Nat
  BY LenProperties DEF Files
<1>2. 0 \in S
  BY <1>1
<1>3. Verified(f) \in S /\ \A n \in S : n <= Verified(f)
  <2>1. S \in SUBSET (0..Len(f)) /\ S # {}
    BY <1>2
  <2> HIDE DEF S
  <2>2. Max(S) \in S /\ \A n \in S : n <= Max(S)
    BY <1>1, <2>1, MaxOf
  <2>3. QED BY <2>2 DEF Verified, S
<1>4. ASSUME NEW n \in Nat, \A m \in 1..n : BatchChecks(f, m)
      PROVE  n \in S
  <2>1. CASE n = 0
    BY <2>1, <1>2
  <2>2. CASE n # 0
    <3>1. BatchChecks(f, n)
      BY <1>4, <2>2
    <3>2. n * Width <= Len(f)
      BY <3>1 DEF BatchChecks
    <3>3. n <= Len(f)
      BY <3>2, <1>1, Places
    <3>4. QED BY <3>3, <1>1, <1>4
  <2>3. QED BY <2>1, <2>2
<1>5. QED BY <1>1, <1>3, <1>4

\* When n batches check and the next does not, a recovery verifies n.
LEMMA VerifiedIsExactly ==
    ASSUME NEW f \in Files, NEW n \in Nat,
           \A m \in 1..n : BatchChecks(f, m), ~BatchChecks(f, n + 1)
    PROVE  Verified(f) = n
<1>1. n <= Verified(f) /\ Verified(f) \in Nat
  BY VerifiedIs
<1>2. ~(n + 1 <= Verified(f))
  <2>1. SUFFICES ASSUME n + 1 <= Verified(f) PROVE FALSE
    OBVIOUS
  <2>2. n + 1 \in 1..Verified(f)
    BY <2>1, <1>1
  <2>3. QED BY <2>2, VerifiedIs
<1>3. QED BY <1>1, <1>2

\* What a batch checks depends on the file up to its end only.
LEMMA SamePrefix ==
    ASSUME NEW f \in Files, NEW g \in Files, NEW n \in Nat \ {0},
           n * Width <= Len(f), n * Width <= Len(g),
           \A k \in 1..n * Width : f[k] = g[k]
    PROVE  BatchChecks(f, n) <=> BatchChecks(g, n)
<1>1. PICK p \in Nat : n = p + 1
  <2>1. n - 1 \in Nat
    OBVIOUS
  <2>2. QED BY <2>1
<1>2. p * Width \in Nat /\ n * Width = p * Width + Width /\ Width \in Nat
  BY <1>1, Places
<1>3. \A k \in 1..Width : f[p * Width + k] = g[p * Width + k]
  <2> TAKE k \in 1..Width
  <2>1. p * Width + k \in 1..n * Width
    BY <1>2
  <2>2. QED BY <2>1
<1>4. QED BY <1>1, <1>2, <1>3, BatchMeans

\* The event of a batch that checks.
LEMMA EventOf ==
    ASSUME NEW f \in Files, NEW n \in Nat \ {0}, BatchChecks(f, n)
    PROVE  /\ n * Width \in 1..Len(f)
           /\ f[n * Width] \in Chunks
           /\ f[n * Width].ev \in Events
<1>1. PICK p \in Nat : n = p + 1
  <2>1. n - 1 \in Nat
    OBVIOUS
  <2>2. QED BY <2>1
<1>2. p * Width \in Nat /\ n * Width = p * Width + Width /\ Width \in Nat /\ Width >= 1
  BY <1>1, Places
<1>3. PICK e \in Events : \A k \in 1..Width : f[p * Width + k] = Chunk(e, n, k)
  BY <1>1, BatchMeans
<1>4. f[n * Width] = Chunk(e, n, Width)
  BY <1>2, <1>3
<1>5. n * Width <= Len(f) /\ Len(f) \in Nat
  BY LenProperties DEF BatchChecks, Files
<1>6. QED BY <1>2, <1>4, <1>5 DEF Chunk, Chunks

\* What a recovery reads.
LEMMA RecoveredIs ==
    ASSUME NEW f \in Files
    PROVE  /\ Recovered(f) \in Seq(Events)
           /\ Len(Recovered(f)) = Verified(f)
           /\ \A n \in 1..Verified(f) : Recovered(f)[n] = f[n * Width].ev
<1>1. Verified(f) \in Nat
  BY VerifiedIs
<1>2. ASSUME NEW n \in 1..Verified(f) PROVE f[n * Width].ev \in Events
  BY <1>1, VerifiedIs, EventOf
<1>3. Recovered(f) \in [1..Verified(f) -> Events]
  BY <1>2 DEF Recovered
<1>4. Recovered(f) \in Seq(Events)
  BY <1>1, <1>3, SeqDef
<1>5. Len(Recovered(f)) = Verified(f)
  BY <1>1, <1>3, <1>4, LenProperties
<1>6. QED BY <1>4, <1>5 DEF Recovered

\* Cutting a sequence keeps its beginning.
LEMMA Cut ==
    ASSUME NEW S, NEW f \in Seq(S), NEW n \in 0..Len(f)
    PROVE  /\ SubSeq(f, 1, n) \in Seq(S)
           /\ Len(SubSeq(f, 1, n)) = n
           /\ \A k \in 1..n : SubSeq(f, 1, n)[k] = f[k]
<1>1. Len(f) \in Nat /\ n \in Nat /\ n <= Len(f)
  BY LenProperties
<1>2. \A k \in 1..n : f[k] \in S
  BY <1>1, ElementOfSeq
<1>3. /\ SubSeq(f, 1, n) \in Seq(S)
      /\ Len(SubSeq(f, 1, n)) = IF 1 <= n THEN n - 1 + 1 ELSE 0
      /\ \A k \in 1..n - 1 + 1 : SubSeq(f, 1, n)[k] = f[1 + k - 1]
  BY <1>1, <1>2, SubSeqProperties
<1>4. n - 1 + 1 = n /\ \A k \in 1..n : 1 + k - 1 = k
  BY <1>1
<1>5. QED BY <1>1, <1>3, <1>4

\* Batches that check do so in every file that begins in the same way.
LEMMA SameBatches ==
    ASSUME NEW f \in Files, NEW g \in Files, NEW v \in Nat,
           v * Width <= Len(f), v * Width <= Len(g),
           \A k \in 1..v * Width : f[k] = g[k],
           NEW n \in 1..v
    PROVE  /\ BatchChecks(f, n) <=> BatchChecks(g, n)
           /\ f[n * Width] = g[n * Width]
<1> DEFINE a == n * Width
           c == v * Width
<1>1. n \in Nat \ {0} /\ a \in Nat /\ 1 <= a /\ c \in Nat
  BY Places
<1>2. a <= c
  BY <1>1, Places
<1>3. c <= Len(f) /\ c <= Len(g) /\ \A k \in 1..c : f[k] = g[k]
  OBVIOUS
<1>4. Len(f) \in Nat /\ Len(g) \in Nat
  BY LenProperties DEF Files
<1> HIDE DEF a, c
<1>5. \A k \in 1..a : f[k] = g[k]
  BY <1>1, <1>2, <1>3
<1>6. a <= Len(f) /\ a <= Len(g)
  BY <1>1, <1>2, <1>3, <1>4
<1>7. BatchChecks(f, n) <=> BatchChecks(g, n)
  BY <1>1, <1>5, <1>6, SamePrefix DEF a
<1>8. f[a] = g[a]
  BY <1>1, <1>5
<1>9. QED BY <1>7, <1>8 DEF a

\* A file holds all of the batches that a recovery verifies.
LEMMA VerifiedFits ==
    ASSUME NEW f \in Files
    PROVE  Verified(f) * Width \in 0..Len(f)
<1>1. Verified(f) \in Nat /\ Verified(f) * Width \in Nat /\ Len(f) \in Nat
  BY VerifiedIs, Places, LenProperties DEF Files
<1>2. CASE Verified(f) = 0
  BY <1>1, <1>2, Places
<1>3. CASE Verified(f) # 0
  <2>1. Verified(f) \in 1..Verified(f)
    BY <1>1, <1>3
  <2>2. BatchChecks(f, Verified(f))
    BY <2>1, VerifiedIs
  <2>3. QED BY <1>1, <2>2 DEF BatchChecks
<1>4. QED BY <1>2, <1>3

\* The file that a recovery leaves reads as the file it found.
LEMMA CutFile ==
    ASSUME NEW f \in Files
    PROVE  LET g == SubSeq(f, 1, Verified(f) * Width)
           IN  /\ g \in Files
               /\ Len(g) = Verified(f) * Width
               /\ \A n \in 1..Verified(f) : BatchChecks(g, n) /\ g[n * Width] = f[n * Width]
<1> DEFINE g == SubSeq(f, 1, Verified(f) * Width)
<1>1. Verified(f) \in Nat /\ Verified(f) * Width \in 0..Len(f)
  BY VerifiedIs, VerifiedFits
<1>2. /\ g \in Files
      /\ Len(g) = Verified(f) * Width
      /\ \A k \in 1..Verified(f) * Width : g[k] = f[k]
  BY <1>1, Cut DEF Files
<1> HIDE DEF g
<1>3. Verified(f) * Width <= Len(f) /\ Verified(f) * Width <= Len(g)
  BY <1>1, <1>2
<1>4. ASSUME NEW n \in 1..Verified(f)
      PROVE  BatchChecks(g, n) /\ g[n * Width] = f[n * Width]
  <2>1. BatchChecks(f, n)
    BY VerifiedIs
  <2>2. /\ BatchChecks(f, n) <=> BatchChecks(g, n)
        /\ f[n * Width] = g[n * Width]
    BY <1>1, <1>2, <1>3, SameBatches
  <2>3. QED BY <2>1, <2>2
<1>5. QED BY <1>2, <1>4 DEF g
-----------------------------------------------------------------------------
\* What a loss of power leaves: a beginning of the file, then chunks that no
\* batch has.
LEMMA TornIs ==
    ASSUME NEW f \in Files, NEW g \in Torn(f)
    PROVE  /\ g \in Files
           /\ \E kept \in 0..Len(f) :
                 /\ kept <= Len(g)
                 /\ \A k \in 1..kept : g[k] = f[k]
                 /\ \A k \in kept + 1..Len(g) : g[k] = Garbage
<1>1. PICK kept \in 0..Len(f), lost \in 0..Width :
             g = SubSeq(f, 1, kept) \o [k \in 1..lost |-> Garbage]
  BY Zenon DEF Torn
<1> DEFINE head == SubSeq(f, 1, kept)
           tail == [k \in 1..lost |-> Garbage]
<1>2. lost \in Nat /\ Len(f) \in Nat /\ kept \in Nat
  BY Places, LenProperties DEF Files
<1>3. head \in Files /\ Len(head) = kept /\ \A k \in 1..kept : head[k] = f[k]
  BY Cut DEF Files
<1>4. tail \in Files /\ Len(tail) = lost /\ \A k \in 1..lost : tail[k] = Garbage
  <2>1. tail \in [1..lost -> Chunks \cup {Garbage}]
    OBVIOUS
  <2>2. tail \in Files
    BY <1>2, <2>1, SeqDef DEF Files
  <2>3. Len(tail) = lost
    BY <1>2, <2>1, <2>2, LenProperties DEF Files
  <2>4. QED BY <2>2, <2>3
<1> HIDE DEF head, tail
<1>5. /\ head \o tail \in Files
      /\ Len(head \o tail) = kept + lost
      /\ \A k \in 1..kept + lost :
            (head \o tail)[k] = IF k <= kept THEN head[k] ELSE tail[k - kept]
  <2>1. /\ head \o tail \in Files
        /\ Len(head \o tail) = Len(head) + Len(tail)
        /\ \A k \in 1..Len(head) + Len(tail) :
              (head \o tail)[k] = IF k <= Len(head) THEN head[k] ELSE tail[k - Len(head)]
    <3>1. head \in Seq(Chunks \cup {Garbage}) /\ tail \in Seq(Chunks \cup {Garbage})
      BY <1>3, <1>4 DEF Files
    <3>2. QED BY <3>1, ConcatProperties, Zenon DEF Files
  <2>2. QED BY <1>3, <1>4, <2>1
<1>6. g = head \o tail
  BY <1>1 DEF head, tail
<1>7. kept <= Len(g)
  BY <1>2, <1>5, <1>6
<1>8. ASSUME NEW k \in 1..kept PROVE g[k] = f[k]
  <2>1. k \in 1..kept + lost /\ k <= kept
    BY <1>2
  <2>2. QED BY <1>3, <1>5, <1>6, <2>1
<1>9. ASSUME NEW k \in kept + 1..Len(g) PROVE g[k] = Garbage
  <2>1. k \in 1..kept + lost /\ ~(k <= kept) /\ k - kept \in 1..lost
    BY <1>2, <1>5, <1>6
  <2>2. QED BY <1>4, <1>5, <1>6, <2>1
<1>10. QED BY <1>5, <1>6, <1>7, <1>8, <1>9

\* A loss of power takes events from the end of what a recovery reads.
LEMMA TornReads ==
    ASSUME NEW f \in Files, NEW g \in Torn(f)
    PROVE  /\ Verified(g) \in 0..Len(Recovered(f))
           /\ Recovered(g) = SubSeq(Recovered(f), 1, Verified(g))
<1> DEFINE v == Verified(g)
<1>1. g \in Files
  BY TornIs
<1>2. PICK kept \in 0..Len(f) :
         /\ kept <= Len(g)
         /\ \A k \in 1..kept : g[k] = f[k]
         /\ \A k \in kept + 1..Len(g) : g[k] = Garbage
  BY TornIs
<1>3. v \in Nat /\ v * Width \in Nat /\ Len(f) \in Nat /\ Len(g) \in Nat /\ kept \in Nat
  BY <1>1, VerifiedIs, Places, LenProperties DEF Files
<1>4. v * Width <= kept
  <2>1. CASE v = 0
    BY <2>1, <1>3, Places
  <2>2. CASE v # 0
    <3>1. v \in Nat \ {0} /\ v \in 1..v
      BY <1>3, <2>2
    <3>2. BatchChecks(g, v)
      BY <1>1, <3>1, VerifiedIs
    <3>3. v * Width \in 1..Len(g) /\ g[v * Width] \in Chunks
      BY <1>1, <3>1, <3>2, EventOf
    <3>4. g[v * Width] # Garbage
      BY <3>3, FileAssumption
    <3>5. v * Width \notin kept + 1..Len(g)
      BY <1>2, <3>4
    <3>6. QED BY <1>3, <3>3, <3>5
  <2>3. QED BY <2>1, <2>2
<1>5. /\ v * Width <= Len(f) /\ v * Width <= Len(g)
      /\ \A k \in 1..v * Width : g[k] = f[k]
  <2> DEFINE c == v * Width
  <2> HIDE DEF c, v
  <2>1. c \in Nat /\ c <= kept
    BY <1>3, <1>4 DEF c
  <2>2. c <= Len(f) /\ c <= Len(g) /\ \A k \in 1..c : g[k] = f[k]
    BY <1>2, <1>3, <2>1
  <2>3. QED BY <2>2 DEF c
<1>6. \A m \in 1..v : BatchChecks(f, m) /\ g[m * Width] = f[m * Width]
  <2> TAKE m \in 1..v
  <2>1. BatchChecks(g, m)
    BY <1>1, VerifiedIs
  <2>2. /\ BatchChecks(g, m) <=> BatchChecks(f, m)
        /\ g[m * Width] = f[m * Width]
    BY <1>1, <1>3, <1>5, SameBatches
  <2>3. QED BY <2>1, <2>2
<1>7. v <= Verified(f) /\ Verified(f) \in Nat
  BY <1>3, <1>6, VerifiedIs
<1>8. /\ Recovered(f) \in Seq(Events) /\ Len(Recovered(f)) = Verified(f)
      /\ \A m \in 1..Verified(f) : Recovered(f)[m] = f[m * Width].ev
  BY RecoveredIs
<1>9. /\ Recovered(g) \in Seq(Events) /\ Len(Recovered(g)) = v
      /\ \A m \in 1..v : Recovered(g)[m] = g[m * Width].ev
  BY <1>1, RecoveredIs
<1> HIDE DEF v
<1>10. v \in 0..Len(Recovered(f))
  BY <1>3, <1>7, <1>8
<1>11. /\ SubSeq(Recovered(f), 1, v) \in Seq(Events)
       /\ Len(SubSeq(Recovered(f), 1, v)) = v
       /\ \A m \in 1..v : SubSeq(Recovered(f), 1, v)[m] = Recovered(f)[m]
  BY <1>8, <1>10, Cut
<1>12. \A m \in 1..v : Recovered(g)[m] = SubSeq(Recovered(f), 1, v)[m]
  <2> TAKE m \in 1..v
  <2>1. m \in 1..Verified(f)
    BY <1>3, <1>7
  <2>2. QED BY <1>6, <1>8, <1>9, <1>11, <2>1
<1>13. Recovered(g) = SubSeq(Recovered(f), 1, v)
  BY <1>9, <1>11, <1>12, SeqEqual
<1>14. QED BY <1>10, <1>13 DEF v

\* The file that a recovery leaves reads as the one it found.
LEMMA CutReads ==
    ASSUME NEW f \in Files
    PROVE  Recovered(SubSeq(f, 1, Verified(f) * Width)) = Recovered(f)
<1> DEFINE v == Verified(f)
           g == SubSeq(f, 1, v * Width)
<1>1. /\ v \in Nat /\ Width \in Nat /\ Width >= 1 /\ v * Width \in Nat
      /\ (v + 1) * Width = v * Width + Width
  BY VerifiedIs, Places
<1>2. /\ g \in Files /\ Len(g) = v * Width
      /\ \A n \in 1..v : BatchChecks(g, n) /\ g[n * Width] = f[n * Width]
  BY CutFile
<1> HIDE DEF g
<1>3. ~BatchChecks(g, v + 1)
  BY <1>1, <1>2 DEF BatchChecks
<1>4. Verified(g) = v
  BY <1>1, <1>2, <1>3, VerifiedIsExactly
<1>5. /\ Recovered(g) \in Seq(Events) /\ Len(Recovered(g)) = v
      /\ \A n \in 1..v : Recovered(g)[n] = g[n * Width].ev
  BY <1>2, <1>4, RecoveredIs
<1>6. /\ Recovered(f) \in Seq(Events) /\ Len(Recovered(f)) = v
      /\ \A n \in 1..v : Recovered(f)[n] = f[n * Width].ev
  BY RecoveredIs
<1> HIDE DEF v
<1>7. \A n \in 1..v : Recovered(g)[n] = Recovered(f)[n]
  BY <1>2, <1>5, <1>6
<1>8. Recovered(g) = Recovered(f)
  BY <1>5, <1>6, <1>7, SeqEqual
<1>9. QED BY <1>8 DEF g, v
=============================================================================
