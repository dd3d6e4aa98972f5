----------------------------- MODULE HeapProofs -----------------------------
(***************************************************************************)
(* Theorems about Heap, for every size of the heap, every set of sizes and *)
(* limits: the walks find what they should, or die for want of it, and     *)
(* free_everything frees exactly what it should.                           *)
(***************************************************************************)
EXTENDS Heap, FiniteSetTheorems, TLAPS

Cells == Chunks \cup {top}

\* A header in use: a size, and the flag for the chunk before.
Word(h) == h \in Nat /\ h >= 16 /\ h % 16 \in {0, 1}
SizeOf(h) == h - (h % 8)

\* The layout malloc and free keep.
Places ==
  /\ used \subseteq Addrs /\ free \subseteq Addrs /\ top \in Addrs
  /\ head \in [Addrs -> Nat]
  /\ used \cap free = {} /\ top \notin Chunks
Words == \A c \in Cells : Word(head[c])
Below == \A c \in Chunks : c < top
Linked == \A c \in Chunks : Behind(c) \in Cells /\ (chunk_in_use(c) <=> c \in used)
Apart == \A c, d \in Cells : c < d => Behind(c) <= d
Ending == Behind(top) = END
Merged == \A f \in free : Behind(f) \in used
Foretold == \A c \in Cells : head[c] % 2 = 0 => \E f \in free : Behind(f) = c

Layout == Places /\ Words /\ Below /\ Linked /\ Apart /\ Ending /\ Merged /\ Foretold

-----------------------------------------------------------------------------
(* Words.                                                                  *)

LEMMA WordFacts ==
  ASSUME NEW h, Word(h)
  PROVE  /\ SizeOf(h) \in Nat /\ SizeOf(h) >= 16 /\ SizeOf(h) % 16 = 0
         /\ h % 2 \in {0, 1} /\ h = SizeOf(h) + (h % 2)
BY DEF Word, SizeOf

LEMMA NewWord ==
  ASSUME NEW s \in Nat, s >= 16, s % 16 = 0
  PROVE  Word(s + 1) /\ SizeOf(s + 1) = s /\ (s + 1) % 2 = 1
BY DEF Word, SizeOf

LEMMA FlagWord ==
  ASSUME NEW h, Word(h), NEW b \in {0, 1}
  PROVE  /\ Word(Flag(h, b)) /\ SizeOf(Flag(h, b)) = SizeOf(h)
         /\ Flag(h, b) % 2 = b
BY DEF Word, SizeOf, Flag

LEMMA AddrFacts ==
  ASSUME NEW a \in Addrs
  PROVE  a \in Nat /\ END \in Nat /\ a < END /\ a % 16 = 0
BY HeapAssumption DEF Addrs, GRAIN

LEMMA AddrSum ==
  ASSUME NEW a \in Addrs, NEW s \in Nat, s % 16 = 0, a + s < END
  PROVE  a + s \in Addrs
BY HeapAssumption DEF Addrs, GRAIN

LEMMA AddrDifference ==
  ASSUME NEW a \in Addrs, NEW b \in Addrs \cup {END}, a < b
  PROVE  b - a \in Nat /\ (b - a) % 16 = 0 /\ b - a >= 16
BY HeapAssumption DEF Addrs, GRAIN

\* What the layout says of one cell.
LEMMA CellFacts ==
  ASSUME Layout, NEW c \in Cells
  PROVE  /\ c \in Addrs /\ c \in Nat
         /\ Behind(c) = c + SizeOf(head[c]) /\ chunk_size(c) = SizeOf(head[c])
         /\ chunk_size(c) \in Nat /\ chunk_size(c) >= 16 /\ chunk_size(c) % 16 = 0
         /\ Behind(c) \in Nat /\ Behind(c) > c
<1>1. c \in Addrs /\ Word(head[c])
  BY DEF Layout, Places, Words, Cells, Chunks
<1>2. chunk_size(c) = SizeOf(head[c]) /\ Behind(c) = c + SizeOf(head[c])
  BY DEF chunk_size, SizeOf, Behind
<1> QED BY <1>1, <1>2, WordFacts, AddrFacts

-----------------------------------------------------------------------------
(* malloc and free keep the layout.                                        *)

LEMMA InitLayout == Init => Layout
<1> SUFFICES ASSUME Init PROVE Layout
  OBVIOUS
<1>1. 0 \in Addrs /\ END \in Nat /\ END >= 16 /\ END % 16 = 0
  BY HeapAssumption DEF Addrs, GRAIN
<1>2. head \in [Addrs -> Nat] /\ head[0] = END + 1 /\ Cells = {0} /\ Chunks = {}
  BY <1>1 DEF Init, Cells, Chunks
<1>3. Word(head[0]) /\ SizeOf(head[0]) = END /\ head[0] % 2 = 1
  BY <1>1, <1>2, NewWord
<1>4. Behind(0) = END
  BY <1>1, <1>3 DEF Behind, chunk_size, SizeOf
<1> QED
  BY <1>1, <1>2, <1>3, <1>4
     DEF Init, Layout, Places, Words, Below, Linked, Apart, Ending, Merged, Foretold

\* A free chunk is split.
LEMMA SplitKeepsLayout ==
  ASSUME Layout, NEW n \in SIZES, NEW c \in free, chunk_size(c) > n,
         used' = used \cup {c}, free' = (free \ {c}) \cup {c + n}, top' = top,
         head' = Filled([head EXCEPT ![c] = n + 1, ![c + n] = chunk_size(c) - n + 1], c, n)
  PROVE  Layout'
<1> DEFINE s == chunk_size(c)
           r == c + n
<1>1. /\ c \in Chunks /\ c \in Cells /\ c \in Addrs /\ c \in Nat /\ s \in Nat
      /\ s % 16 = 0 /\ Behind(c) = c + s
  BY CellFacts DEF Cells, Chunks, Behind
<1>2. n \in Nat /\ n >= 16 /\ n % 16 = 0
  BY HeapAssumption DEF GRAIN
<1>3. /\ Behind(c) \in used /\ Behind(c) \in Cells /\ Behind(c) \in Addrs
      /\ Behind(c) # top
  BY <1>1 DEF Layout, Merged, Linked, Cells, Chunks, Places
<1>4. r \in Addrs /\ r \in Nat /\ c < r /\ r < Behind(c) /\ s - n \in Nat /\ s - n >= 16 /\ (s - n) % 16 = 0
  <2>1. c + n < END
    BY <1>1, <1>2, <1>3, AddrFacts
  <2> QED BY <2>1, <1>1, <1>2, <1>3, AddrSum, AddrFacts
<1>5. r \notin Cells /\ \A d \in Cells : d <= c \/ Behind(c) <= d
  BY <1>1, <1>3, <1>4, CellFacts DEF Layout, Apart
<1>6. /\ head' \in [Addrs -> Nat]
      /\ head'[c] = n + 1 /\ head'[r] = s - n + 1
      /\ \A d \in Cells \ {c} : head'[d] = head[d]
  <2>1. \A a \in Addrs : a \in Nat
    BY AddrFacts
  <2>2. \A d \in Cells : d \in Addrs
    BY CellFacts
  <2> QED BY <2>1, <2>2, <1>1, <1>2, <1>4, <1>5 DEF Layout, Places, Filled, UserData
<1>7. /\ Word(head'[c]) /\ SizeOf(head'[c]) = n /\ head'[c] % 2 = 1
      /\ Word(head'[r]) /\ SizeOf(head'[r]) = s - n /\ head'[r] % 2 = 1
  BY <1>2, <1>4, <1>6, NewWord
<1>8. Cells' = Cells \cup {r} /\ Chunks' = Chunks \cup {r}
  BY <1>1 DEF Cells, Chunks
<1>9. /\ Behind(c)' = r /\ Behind(r)' = Behind(c)
      /\ \A d \in Cells \ {c} : Behind(d)' = Behind(d)
  <2>1. \A d \in Cells \ {c} : Behind(d)' = Behind(d)
    BY <1>6 DEF Behind, chunk_size
  <2>2. c + (head'[c] - (head'[c] % 8)) = r /\ r + (head'[r] - (head'[r] % 8)) = c + s
    BY <1>1, <1>2, <1>4, <1>7 DEF SizeOf
  <2> QED BY <2>1, <2>2, <1>1 DEF Behind, chunk_size
<1>10. Places'
  BY <1>1, <1>4, <1>5, <1>6 DEF Layout, Places, Chunks, Cells
<1>11. Words'
  BY <1>6, <1>7, <1>8 DEF Layout, Words
<1>12. Below'
  <2>1. \A d \in Chunks : d < top
    BY DEF Layout, Below
  <2>2. r < top
    <3>1. Behind(c) < top /\ top \in Nat
      BY <2>1, <1>3, CellFacts DEF Chunks, Cells
    <3> QED BY <3>1, <1>3, <1>4, AddrFacts
  <2> QED BY <2>1, <2>2, <1>8 DEF Below
<1>13. Linked'
  <2>1. \A d \in Chunks' : Behind(d)' \in Cells'
    BY <1>1, <1>3, <1>8, <1>9 DEF Layout, Linked, Cells
  <2>2. \A d \in Chunks' : head'[Behind(d)'] % 2 = 1 <=> d \in used'
    <3> SUFFICES ASSUME NEW d \in Chunks' PROVE head'[Behind(d)'] % 2 = 1 <=> d \in used'
      OBVIOUS
    <3>1. CASE d = c
      BY <3>1, <1>7, <1>9
    <3>2. CASE d = r
      <4>1. r \notin used'
        BY <1>4, <1>5 DEF Cells, Chunks
      <4>2. head'[Behind(c)] = head[Behind(c)]
        <5>1. Behind(c) \in Cells \ {c}
          BY <1>1, <1>3, CellFacts
        <5> QED BY <5>1, <1>6
      <4>3. head[Behind(c)] % 2 # 1
        BY <1>1 DEF Layout, Linked, chunk_in_use, Places
      <4> QED BY <3>2, <4>1, <4>2, <4>3, <1>9
    <3>3. CASE d \in Chunks \ {c} /\ Behind(d) = c
      <4>1. d \in used
        BY <3>3, <1>1 DEF Layout, Merged, Places, Chunks
      <4> QED BY <4>1, <3>3, <1>7, <1>9 DEF Cells
    <3>4. CASE d \in Chunks \ {c} /\ Behind(d) # c
      <4>1. head'[Behind(d)'] = head[Behind(d)]
        BY <3>4, <1>6, <1>9 DEF Layout, Linked, Cells
      <4> QED BY <4>1, <3>4 DEF Layout, Linked, chunk_in_use
    <3> QED BY <3>1, <3>2, <3>3, <3>4, <1>8
  <2> QED BY <2>1, <2>2 DEF Linked, chunk_in_use
<1>14. Apart'
  BY <1>1, <1>4, <1>5, <1>8, <1>9, CellFacts DEF Layout, Apart
<1>15. Ending'
  BY <1>1, <1>9 DEF Layout, Ending, Places, Cells, Chunks
<1>16. Merged'
  BY <1>1, <1>3, <1>9 DEF Layout, Merged, Cells, Chunks
<1>17. Foretold'
  <2> SUFFICES ASSUME NEW d \in Cells', head'[d] % 2 = 0
               PROVE  \E f \in free' : Behind(f)' = d
    BY DEF Foretold
  <2>1. d \in Cells \ {c} /\ head[d] % 2 = 0
    <3>1. d # c /\ d # r
      BY <1>7
    <3>2. d \in Cells
      BY <3>1, <1>8
    <3>3. head'[d] = head[d]
      BY <3>1, <3>2, <1>6
    <3> QED BY <3>1, <3>2, <3>3
  <2>2. PICK f \in free : Behind(f) = d
    BY <2>1 DEF Layout, Foretold
  <2>3. CASE f = c
    BY <2>2, <2>3, <1>9
  <2>4. CASE f # c
    BY <2>2, <2>4, <1>9 DEF Cells, Chunks
  <2> QED BY <2>3, <2>4
<1> QED
  BY <1>10, <1>11, <1>12, <1>13, <1>14, <1>15, <1>16, <1>17 DEF Layout

\* A free chunk is taken whole.
LEMMA TakeKeepsLayout ==
  ASSUME Layout, NEW n \in SIZES, NEW c \in free, chunk_size(c) = n,
         used' = used \cup {c}, free' = free \ {c}, top' = top,
         head' = Filled([head EXCEPT ![c + n] = Flag(@, 1)], c, n)
  PROVE  Layout'
<1> DEFINE r == Behind(c)
<1>1. /\ c \in Chunks /\ c \in Cells /\ c \in Addrs /\ c \in Nat /\ n \in Nat
      /\ r = c + n /\ c < r
  BY CellFacts DEF Cells, Chunks, Behind
<1>2. r \in used /\ r \in Cells /\ r \in Addrs /\ r \in Nat /\ r # top
  BY <1>1, AddrFacts DEF Layout, Merged, Linked, Cells, Chunks, Places
<1>3. \A d \in Cells : d \in Addrs /\ (d <= c \/ r <= d)
  BY <1>1, <1>2, CellFacts DEF Layout, Apart
<1>4. /\ head' \in [Addrs -> Nat]
      /\ head'[r] = Flag(head[r], 1)
      /\ \A d \in Cells \ {r} : head'[d] = head[d]
  <2>1. \A a \in Addrs : a \in Nat
    BY AddrFacts
  <2>2. Flag(head[r], 1) \in Nat
    BY <1>2, FlagWord DEF Layout, Words, Word
  <2> QED BY <2>1, <2>2, <1>1, <1>2, <1>3 DEF Layout, Places, Filled, UserData
<1>5. /\ Word(head'[r]) /\ SizeOf(head'[r]) = SizeOf(head[r]) /\ head'[r] % 2 = 1
  BY <1>2, <1>4, FlagWord DEF Layout, Words
<1>6. Cells' = Cells /\ Chunks' = Chunks
  BY <1>1 DEF Cells, Chunks
<1>7. \A d \in Cells : Behind(d)' = Behind(d)
  <2>1. \A d \in Cells : SizeOf(head'[d]) = SizeOf(head[d])
    BY <1>4, <1>5
  <2> QED BY <2>1 DEF Behind, chunk_size, SizeOf
<1>8. Places'
  BY <1>1, <1>4, <1>6 DEF Layout, Places, Chunks
<1>9. Words'
  BY <1>4, <1>5, <1>6 DEF Layout, Words
<1>10. Below'
  BY <1>6 DEF Layout, Below
<1>11. Linked'
  <2> SUFFICES ASSUME NEW d \in Chunks
               PROVE  Behind(d) \in Cells /\ (head'[Behind(d)] % 2 = 1 <=> d \in used')
    BY <1>6, <1>7 DEF Linked, chunk_in_use, Cells
  <2>1. Behind(d) \in Cells /\ (head[Behind(d)] % 2 = 1 <=> d \in used)
    BY DEF Layout, Linked, chunk_in_use
  <2>2. CASE d = c
    BY <2>1, <2>2, <1>5
  <2>3. CASE d # c
    <3>1. Behind(d) # r
      <4>1. d < c \/ c < d
        BY <2>3, <1>1, CellFacts DEF Cells
      <4>2. d < c => Behind(d) <= c
        BY <1>1 DEF Layout, Apart, Cells
      <4>3. c < d => r <= d /\ d < Behind(d)
        BY <1>1, CellFacts DEF Layout, Apart, Cells
      <4> QED BY <4>1, <4>2, <4>3, <1>1, <1>2, CellFacts DEF Cells
    <3> QED BY <3>1, <2>1, <2>3, <1>4
  <2> QED BY <2>2, <2>3
<1>12. Apart'
  BY <1>6, <1>7 DEF Layout, Apart
<1>13. Ending'
  BY <1>7 DEF Layout, Ending, Cells
<1>14. Merged'
  BY <1>7 DEF Layout, Merged, Cells, Chunks
<1>15. Foretold'
  <2> SUFFICES ASSUME NEW d \in Cells, head'[d] % 2 = 0
               PROVE  \E f \in free' : Behind(f)' = d
    BY <1>6 DEF Foretold
  <2>1. d # r
    BY <1>5
  <2>2. PICK f \in free : Behind(f) = d
    BY <2>1, <1>4 DEF Layout, Foretold
  <2>3. f \in free' /\ Behind(f)' = d
    BY <2>1, <2>2, <1>7 DEF Cells, Chunks
  <2> QED BY <2>3
<1> QED
  BY <1>8, <1>9, <1>10, <1>11, <1>12, <1>13, <1>14, <1>15 DEF Layout

\* A chunk is cut from top.
LEMMA CutKeepsLayout ==
  ASSUME Layout, NEW n \in SIZES, chunk_size(top) > n,
         used' = used \cup {top}, free' = free, top' = top + n,
         head' = Filled([head EXCEPT ![top] = n + 1, ![top + n] = chunk_size(top) - n + 1],
                        top, n)
  PROVE  Layout'
<1> DEFINE s == chunk_size(top)
           r == top + n
<1>1. /\ top \in Cells /\ top \in Addrs /\ top \in Nat /\ s \in Nat
      /\ s % 16 = 0 /\ top + s = END /\ Behind(top) = top + s /\ top \notin Chunks
  BY CellFacts DEF Cells, Behind, Layout, Ending, Places
<1>2. n \in Nat /\ n >= 16 /\ n % 16 = 0
  BY HeapAssumption DEF GRAIN
<1>3. /\ r \in Addrs /\ r \in Nat /\ top < r /\ r < END /\ END \in Nat
      /\ s - n \in Nat /\ s - n >= 16 /\ (s - n) % 16 = 0
  <2>1. r < END
    BY <1>1, <1>2, AddrFacts
  <2> QED BY <2>1, <1>1, <1>2, AddrSum, AddrFacts
<1>4. r \notin Cells /\ \A d \in Cells : d \in Addrs /\ d \in Nat /\ d <= top
  BY <1>1, <1>3, CellFacts DEF Layout, Below, Cells
<1>5. /\ head' \in [Addrs -> Nat]
      /\ head'[top] = n + 1 /\ head'[r] = s - n + 1
      /\ \A d \in Chunks : head'[d] = head[d]
  <2>1. \A a \in Addrs : a \in Nat
    BY AddrFacts
  <2> QED BY <2>1, <1>1, <1>2, <1>3, <1>4 DEF Layout, Places, Filled, UserData, Cells
<1>6. /\ Word(head'[top]) /\ SizeOf(head'[top]) = n /\ head'[top] % 2 = 1
      /\ Word(head'[r]) /\ SizeOf(head'[r]) = s - n /\ head'[r] % 2 = 1
  BY <1>2, <1>3, <1>5, NewWord
<1>7. Cells' = Cells \cup {r} /\ Chunks' = Cells
  BY DEF Cells, Chunks
<1> DEFINE B(d) == d + (head'[d] - (head'[d] % 8))
<1>10. B(top) = r /\ B(r) = END /\ \A d \in Chunks : B(d) = Behind(d)
  <2>1. head'[top] - (head'[top] % 8) = n /\ head'[r] - (head'[r] % 8) = s - n
    BY <1>6 DEF SizeOf
  <2>2. r + (s - n) = END
    BY <1>1, <1>2, <1>3
  <2>3. \A d \in Chunks : B(d) = Behind(d)
    BY <1>5 DEF Behind, chunk_size
  <2> QED BY <2>1, <2>2, <2>3
<1>11. \A d \in Cells : Behind(d) \in Nat /\ d < Behind(d)
  BY CellFacts
<1>12. Places'
  <2>1. used' \subseteq Addrs /\ free' \subseteq Addrs /\ top' \in Addrs
    BY <1>1, <1>3 DEF Layout, Places
  <2>2. used' \cap free' = {}
    BY <1>1 DEF Layout, Places, Chunks
  <2>3. top' \notin Chunks'
    BY <1>4, <1>7
  <2> QED BY <2>1, <2>2, <2>3, <1>5 DEF Places
<1>13. Words'
  BY <1>5, <1>6, <1>7 DEF Layout, Words, Cells
<1>14. Below'
  <2>1. \A d \in Cells : d < r
    BY <1>1, <1>3, <1>4
  <2> QED BY <2>1, <1>7 DEF Below
<1>15. \A d \in Chunks : Behind(d) \in Cells /\ (head[Behind(d)] % 2 = 1 <=> d \in used)
  BY DEF Layout, Linked, chunk_in_use
<1>16. Linked'
  <2> SUFFICES ASSUME NEW d \in Cells
               PROVE  B(d) \in Cells \cup {r} /\ (head'[B(d)] % 2 = 1 <=> d \in used')
    BY <1>7 DEF Linked, chunk_in_use, Behind, chunk_size
  <2>1. CASE d = top
    BY <2>1, <1>6, <1>10
  <2>2. CASE d \in Chunks /\ Behind(d) = top
    <3>1. d \in used
      BY <2>2, <1>1 DEF Layout, Merged, Chunks
    <3> QED BY <3>1, <2>2, <1>1, <1>6, <1>10
  <2>3. CASE d \in Chunks /\ Behind(d) # top
    BY <2>3, <1>1, <1>5, <1>10, <1>15 DEF Cells
  <2> QED BY <2>1, <2>2, <2>3 DEF Cells
<1>17. Apart'
  <2> SUFFICES ASSUME NEW d \in Cells \cup {r}, NEW g \in Cells \cup {r}, d < g
               PROVE  B(d) <= g
    BY <1>7 DEF Apart, Behind, chunk_size
  <2>1. CASE g = r /\ d \in Chunks
    <3>1. d < top /\ Behind(d) <= top
      BY <2>1, <1>1 DEF Layout, Below, Apart, Cells
    <3>2. B(d) = Behind(d) /\ Behind(d) \in Nat
      BY <2>1, <1>10, <1>11 DEF Cells
    <3> HIDE DEF B
    <3> QED BY <3>1, <3>2, <2>1, <1>1, <1>3
  <2>2. CASE g = r /\ d = top
    BY <2>2, <1>3, <1>10
  <2>3. CASE g \in Cells
    <3>1. d \in Chunks
      BY <2>3, <1>1, <1>3, <1>4 DEF Cells
    <3> QED BY <3>1, <2>3, <1>10 DEF Layout, Apart, Cells
  <2> QED BY <2>1, <2>2, <2>3, <1>3 DEF Cells
<1>18. Ending'
  BY <1>10 DEF Ending, Behind, chunk_size
<1>19. Merged'
  BY <1>10 DEF Layout, Merged, Behind, chunk_size, Chunks
<1>20. Foretold'
  <2> SUFFICES ASSUME NEW d \in Cells \cup {r}, head'[d] % 2 = 0
               PROVE  \E f \in free : B(f) = d
    BY <1>7 DEF Foretold, Behind, chunk_size
  <2>1. d \in Chunks
    <3>1. d # top /\ d # r
      BY <1>6
    <3> QED BY <3>1 DEF Cells
  <2>2. PICK f \in free : Behind(f) = d
    BY <2>1, <1>5 DEF Layout, Foretold, Cells
  <2> QED BY <2>2, <1>10 DEF Chunks
<1> QED
  BY <1>12, <1>13, <1>14, <1>16, <1>17, <1>18, <1>19, <1>20 DEF Layout

\* A cell is behind one chunk at most.
LEMMA OneBefore ==
  ASSUME Layout, NEW d \in Cells, NEW e \in Cells, Behind(d) = Behind(e)
  PROVE  d = e
<1>1. d < e \/ e < d \/ d = e
  BY CellFacts
<1>2. ~(d < e) /\ ~(e < d)
  BY CellFacts DEF Layout, Apart
<1> QED BY <1>1, <1>2

\* Where the merged chunk begins and ends.
Low(c) == IF head[c] % 2 = 1 THEN c ELSE CHOOSE f \in free : Behind(f) = c
High(c) == IF Behind(c) \in free THEN Behind(Behind(c)) ELSE Behind(c)

LEMMA LowFacts ==
  ASSUME Layout, NEW c \in used
  PROVE  /\ Low(c) \in Chunks /\ Low(c) \in Cells /\ Low(c) \in Addrs /\ Low(c) <= c
         /\ \/ Low(c) = c /\ head[c] % 2 = 1
            \/ Low(c) \in free /\ Behind(Low(c)) = c /\ Low(c) # c /\ head[c] % 2 # 1
         /\ \A d \in Chunks : Behind(d) = Low(c) => d \in used
<1>1. c \in Chunks /\ c \in Cells /\ c \in Addrs /\ c \in Nat
  BY CellFacts DEF Chunks, Cells
<1>2. CASE head[c] % 2 = 1
  <2>1. \A d \in Chunks : Behind(d) = c => d \in used
    BY <1>2 DEF Layout, Linked, chunk_in_use
  <2> QED BY <2>1, <1>1, <1>2 DEF Low
<1>3. CASE head[c] % 2 # 1
  <2>1. head[c] % 2 = 0
    BY <1>1, <1>3, WordFacts DEF Layout, Words
  <2>2. \E f \in free : Behind(f) = c
    BY <2>1, <1>1 DEF Layout, Foretold
  <2>3. Low(c) \in free /\ Behind(Low(c)) = c
    BY <2>2, <1>3 DEF Low
  <2>4. Low(c) \in Cells /\ Low(c) \in Chunks
    BY <2>3 DEF Cells, Chunks
  <2>5. Low(c) \in Nat /\ Low(c) < c /\ Low(c) \in Addrs
    BY <2>3, <2>4, CellFacts
  <2>6. \A d \in Chunks : Behind(d) = Low(c) => d \in used
    BY <2>3 DEF Layout, Merged, Places, Chunks
  <2> QED BY <2>3, <2>4, <2>5, <2>6, <1>1, <1>3
<1> QED BY <1>2, <1>3

\* A chunk is merged into top.
LEMMA ReturnKeepsLayout ==
  ASSUME Layout, NEW c \in used, Behind(c) = top,
         used' = used \ {c}, free' = free \ {Low(c)}, top' = Low(c),
         head' = [head EXCEPT ![Low(c)] = END - Low(c) + 1]
  PROVE  Layout'
<1> DEFINE low == Low(c)
<1> HIDE DEF low
<1>1. /\ c \in Chunks /\ c \in Cells /\ c \in Nat /\ top \in Cells /\ top \notin Chunks
      /\ c \notin free /\ top \in Nat
  BY CellFacts DEF Chunks, Cells, Layout, Places
<1>2. /\ low \in Chunks /\ low \in Cells /\ low \in Addrs /\ low \in Nat /\ low <= c
      /\ (low = c \/ (low \in free /\ Behind(low) = c))
      /\ \A d \in Chunks : Behind(d) = low => d \in used
  BY LowFacts, AddrFacts DEF low
<1>3. /\ used' = used \ {c} /\ free' = free \ {low} /\ top' = low
      /\ head' = [head EXCEPT ![low] = END - low + 1]
  BY DEF low
<1>4. Chunks' = Chunks \ {c, low} /\ Cells' = (Chunks \ {c}) \cup {low}
  <2>1. low = c \/ low \notin used
    BY <1>2 DEF Layout, Places
  <2>2. Chunks' = Chunks \ {c, low}
    BY <2>1, <1>1, <1>3 DEF Chunks
  <2> QED BY <2>2, <1>3 DEF Cells
<1>5. END - low \in Nat /\ (END - low) % 16 = 0 /\ END - low >= 16
  BY <1>2, AddrFacts, AddrDifference
<1>6. /\ head' \in [Addrs -> Nat] /\ head'[low] = END - low + 1
      /\ \A d \in Cells \ {low} : head'[d] = head[d]
  <2>1. \A d \in Cells : d \in Addrs
    BY CellFacts
  <2>2. head \in [Addrs -> Nat] /\ END - low + 1 \in Nat
    BY <1>5 DEF Layout, Places
  <2> QED BY <2>1, <2>2, <1>2, <1>3
<1>7. Word(head'[low]) /\ SizeOf(head'[low]) = END - low /\ head'[low] % 2 = 1
  BY <1>5, <1>6, NewWord
<1>8. \A d \in Chunks \ {c, low} : d \in Nat /\ d < low
  <2> SUFFICES ASSUME NEW d \in Chunks \ {c, low} PROVE d \in Nat /\ d < low
    OBVIOUS
  <2>1. d \in Cells /\ d \in Nat /\ d < top
    BY CellFacts DEF Cells, Layout, Below
  <2>2. d < c
    <3>1. c < d => top <= d
      BY <1>1, <2>1 DEF Layout, Apart
    <3> QED BY <3>1, <2>1, <1>1
  <2>3. CASE low \in free /\ Behind(low) = c
    <3>1. low < d => c <= d
      BY <2>1, <2>3, <1>2 DEF Layout, Apart
    <3> QED BY <3>1, <2>1, <2>2, <1>1, <1>2
  <2> QED BY <2>1, <2>2, <2>3, <1>2
<1> DEFINE B(d) == d + (head'[d] - (head'[d] % 8))
<1>9. B(low) = END /\ \A d \in Cells \ {low} : B(d) = Behind(d)
  <2>1. head'[low] - (head'[low] % 8) = END - low
    BY <1>7 DEF SizeOf
  <2>2. low + (END - low) = END
    BY <1>2, AddrFacts
  <2>3. \A d \in Cells \ {low} : B(d) = Behind(d)
    BY <1>6 DEF Behind, chunk_size
  <2> QED BY <2>1, <2>2, <2>3
<1> HIDE DEF B
<1>10. \A d \in Chunks \ {c, low} : Behind(d) \in (Chunks \ {c}) \cup {low}
  <2> SUFFICES ASSUME NEW d \in Chunks \ {c, low} PROVE Behind(d) \in (Chunks \ {c}) \cup {low}
    OBVIOUS
  <2>1. d \in Cells /\ Behind(d) \in Cells
    BY DEF Layout, Linked, Cells
  <2>2. Behind(d) # top
    BY <2>1, <1>1, OneBefore
  <2>3. Behind(d) = c => low = c
    BY <2>1, <1>2, OneBefore
  <2> QED BY <2>1, <2>2, <2>3 DEF Cells
<1>11. Places'
  <2>1. used' \subseteq Addrs /\ free' \subseteq Addrs /\ top' \in Addrs /\ used' \cap free' = {}
    BY <1>2, <1>3 DEF Layout, Places
  <2> QED BY <2>1, <1>3, <1>4, <1>6 DEF Places
<1>12. Words'
  BY <1>4, <1>6, <1>7 DEF Layout, Words, Cells
<1>13. Below'
  BY <1>3, <1>4, <1>8 DEF Below
<1>14. Linked'
  <2> SUFFICES ASSUME NEW d \in Chunks \ {c, low}
               PROVE  B(d) \in (Chunks \ {c}) \cup {low} /\ (head'[B(d)] % 2 = 1 <=> d \in used')
    BY <1>4 DEF Linked, chunk_in_use, Behind, chunk_size, B
  <2>1. B(d) = Behind(d) /\ (head[Behind(d)] % 2 = 1 <=> d \in used) /\ Behind(d) \in Cells
    BY <1>9 DEF Layout, Linked, chunk_in_use, Cells
  <2>2. d \in used <=> d \in used'
    BY <1>3
  <2>3. CASE Behind(d) = low
    BY <2>1, <2>2, <2>3, <1>2, <1>7
  <2>4. CASE Behind(d) # low
    BY <2>1, <2>2, <2>4, <1>6, <1>10
  <2> QED BY <2>3, <2>4, <2>1, <1>10
<1>15. Apart'
  <2> SUFFICES ASSUME NEW d \in (Chunks \ {c}) \cup {low}, NEW g \in (Chunks \ {c}) \cup {low},
                      d < g
               PROVE  B(d) <= g
    BY <1>4 DEF Apart, Behind, chunk_size, B
  <2>1. d # low
    BY <1>2, <1>8
  <2>2. d \in Cells /\ g \in Cells
    BY <1>2 DEF Cells
  <2> QED BY <2>1, <2>2, <1>9 DEF Layout, Apart
<1>16. Ending'
  BY <1>3, <1>9 DEF Ending, Behind, chunk_size, B
<1>17. Merged'
  <2> SUFFICES ASSUME NEW f \in free, f # low PROVE B(f) \in used'
    BY <1>3 DEF Merged, Behind, chunk_size, B
  <2>1. f \in Cells /\ f \in Chunks /\ f # c /\ Behind(f) \in used
    BY <1>1 DEF Cells, Chunks, Layout, Merged
  <2>2. Behind(f) # c
    <3>1. Behind(f) = c => low = c
      BY <2>1, <1>2, OneBefore
    <3> QED BY <3>1, <2>1, <1>2 DEF Layout, Places
  <2> QED BY <2>1, <2>2, <1>3, <1>9
<1>18. Foretold'
  <2> SUFFICES ASSUME NEW d \in (Chunks \ {c}) \cup {low}, head'[d] % 2 = 0
               PROVE  \E f \in free' : B(f) = d
    BY <1>4 DEF Foretold, Behind, chunk_size, B
  <2>1. d # low
    BY <1>7
  <2>2. d \in Cells /\ head[d] % 2 = 0
    BY <2>1, <1>6 DEF Cells
  <2>3. PICK f \in free : Behind(f) = d
    BY <2>2 DEF Layout, Foretold
  <2>4. f # low
    BY <2>1, <2>3, <1>1, <1>2
  <2> QED BY <2>3, <2>4, <1>3, <1>9 DEF Cells, Chunks
<1> QED
  BY <1>11, <1>12, <1>13, <1>14, <1>15, <1>16, <1>17, <1>18 DEF Layout

\* A chunk is merged with its free neighbours, if it has any.
LEMMA MergeKeepsLayout ==
  ASSUME Layout, NEW c \in used, Behind(c) # top,
         used' = used \ {c}, free' = (free \ {Behind(c)}) \cup {Low(c)}, top' = top,
         head' = [head EXCEPT ![Low(c)] = High(c) - Low(c) + 1, ![High(c)] = Flag(@, 0)]
  PROVE  /\ Layout'
         /\ High(c) \in used' /\ head'[High(c)] % 2 = 0
         /\ Behind(c) \in Chunks
         /\ (Behind(c) \in free /\ High(c) = Behind(Behind(c))) \/ High(c) = Behind(c)
         /\ head'[Low(c)] - (head'[Low(c)] % 8) = High(c) - Low(c)
         /\ \A d \in Cells \ {Low(c), High(c)} : head'[d] = head[d]
         /\ head'[High(c)] - (head'[High(c)] % 8) = chunk_size(High(c))
<1> DEFINE low == Low(c)
           next == Behind(c)
           high == High(c)
<1> HIDE DEF low, next, high
<1>1. /\ c \in Chunks /\ c \in Cells /\ c \in Nat /\ top \in Cells /\ top \notin Chunks
      /\ c \notin free /\ top \in Nat
  BY CellFacts DEF Chunks, Cells, Layout, Places
<1>2. /\ low \in Chunks /\ low \in Cells /\ low \in Addrs /\ low \in Nat /\ low <= c
      /\ (low = c \/ (low \in free /\ Behind(low) = c))
      /\ \A d \in Chunks : Behind(d) = low => d \in used
  BY LowFacts, AddrFacts DEF low
<1>3. /\ used' = used \ {c} /\ free' = (free \ {next}) \cup {low} /\ top' = top
      /\ head' = [head EXCEPT ![low] = high - low + 1, ![high] = Flag(@, 0)]
  BY DEF low, next, high
<1>4. /\ next \in Chunks /\ next \in Cells /\ next \in Nat /\ c < next /\ Behind(c) = next
  BY <1>1, CellFacts DEF Layout, Linked, Cells, next
<1>5. /\ high \in used /\ high \in Cells /\ high \in Nat /\ high \in Addrs /\ c < high /\ next <= high
      /\ \/ next \in free /\ high = Behind(next) /\ next # high
         \/ next \in used /\ high = next
  <2>1. CASE next \in free
    <3>1. high = Behind(next) /\ high \in used
      BY <2>1 DEF high, next, High, Layout, Merged
    <3>2. high \in Cells /\ high \in Addrs /\ high \in Nat
      BY <3>1, CellFacts DEF Cells, Chunks
    <3>3. next < high
      BY <3>1, <1>4, CellFacts
    <3> QED BY <3>1, <3>2, <3>3, <2>1, <1>1, <1>4
  <2>2. CASE next \notin free
    <3>1. high = next /\ next \in used
      BY <2>2, <1>4 DEF high, next, High, Chunks
    <3>2. next \in Addrs /\ next <= next
      BY <1>4, CellFacts
    <3> QED BY <3>1, <3>2, <1>4
  <2> QED BY <2>1, <2>2
<1>6. /\ low < high /\ low # high /\ low # next /\ next # top /\ high # top
  BY <1>1, <1>2, <1>4, <1>5 DEF Chunks
<1>7. /\ Chunks' = (Chunks \ ({c} \cup (free \cap {next}))) \cup {low}
      /\ Cells' = Chunks' \cup {top} /\ top \notin Chunks'
  <2>1. Chunks' = (Chunks \ ({c} \cup (free \cap {next}))) \cup {low}
    BY <1>1, <1>3 DEF Chunks, Layout, Places
  <2>2. top \notin Chunks'
    BY <2>1, <1>1, <1>2
  <2> QED BY <2>1, <2>2, <1>3 DEF Cells
<1>8. \A d \in Cells' : d \in Cells /\ (d # low => d # c) /\ (next \in free => d # next)
  BY <1>1, <1>2, <1>4, <1>6, <1>7 DEF Cells
<1>9. high - low \in Nat /\ (high - low) % 16 = 0 /\ high - low >= 16
  BY <1>2, <1>5, <1>6, AddrDifference
<1>10. /\ head' \in [Addrs -> Nat] /\ head'[low] = high - low + 1
       /\ head'[high] = Flag(head[high], 0)
       /\ \A d \in Cells \ {low, high} : head'[d] = head[d]
  <2>1. \A d \in Cells : d \in Addrs
    BY CellFacts
  <2>2. head \in [Addrs -> Nat] /\ high - low + 1 \in Nat
    BY <1>9 DEF Layout, Places
  <2>3. Flag(head[high], 0) \in Nat
    BY <1>5, FlagWord DEF Layout, Words, Word
  <2>4. head' \in [Addrs -> Nat]
    BY <2>2, <2>3, <1>3
  <2>5. head'[low] = high - low + 1 /\ head'[high] = Flag(head[high], 0)
    BY <2>2, <1>2, <1>3, <1>5, <1>6
  <2>6. \A d \in Addrs \ {low, high} : head'[d] = head[d]
    BY <2>2, <1>3
  <2> QED BY <2>1, <2>4, <2>5, <2>6
<1>11. /\ Word(head'[low]) /\ SizeOf(head'[low]) = high - low /\ head'[low] % 2 = 1
       /\ Word(head'[high]) /\ SizeOf(head'[high]) = SizeOf(head[high]) /\ head'[high] % 2 = 0
  <2>1. Word(head[high])
    BY <1>5 DEF Layout, Words
  <2> QED BY <2>1, <1>9, <1>10, NewWord, FlagWord
<1> DEFINE B(d) == d + (head'[d] - (head'[d] % 8))
<1>12. B(low) = high /\ \A d \in Cells \ {low} : B(d) = Behind(d)
  <2>1. head'[low] - (head'[low] % 8) = high - low
    BY <1>11 DEF SizeOf
  <2>2. low + (high - low) = high
    BY <1>2, <1>5
  <2>3. \A d \in Cells \ {low} : head'[d] - (head'[d] % 8) = head[d] - (head[d] % 8)
    BY <1>10, <1>11 DEF SizeOf
  <2> QED BY <2>1, <2>2, <2>3 DEF Behind, chunk_size
<1> HIDE DEF B
<1>13. \A d \in Chunks' \ {low} : Behind(d) \in Cells'
  <2> SUFFICES ASSUME NEW d \in Chunks' \ {low} PROVE Behind(d) \in Cells'
    OBVIOUS
  <2>1. d \in Cells /\ d \in Chunks /\ Behind(d) \in Cells /\ d # c
    BY <1>7, <1>8 DEF Layout, Linked, Cells
  <2>2. Behind(d) # next
    BY <2>1, <1>1, <1>4, OneBefore
  <2>3. Behind(d) = c => low = c
    BY <2>1, <1>2, OneBefore
  <2> QED BY <2>1, <2>2, <2>3, <1>7 DEF Cells
<1>14. Places'
  <2>1. used' \subseteq Addrs /\ free' \subseteq Addrs /\ top' \in Addrs
    BY <1>2, <1>3 DEF Layout, Places
  <2>2. used' \cap free' = {}
    BY <1>2, <1>3 DEF Layout, Places
  <2> QED BY <2>1, <2>2, <1>3, <1>7, <1>10 DEF Places
<1>15. Words'
  <2> SUFFICES ASSUME NEW d \in Cells' PROVE Word(head'[d])
    BY DEF Words
  <2> QED BY <1>8, <1>10, <1>11 DEF Layout, Words
<1>16. Below'
  <2> SUFFICES ASSUME NEW d \in Chunks' PROVE d < top
    BY <1>3 DEF Below
  <2>1. d \in Chunks
    BY <1>2, <1>7
  <2> QED BY <2>1 DEF Layout, Below
<1>17. Linked'
  <2> SUFFICES ASSUME NEW d \in Chunks'
               PROVE  B(d) \in Cells' /\ (head'[B(d)] % 2 = 1 <=> d \in used')
    BY DEF Linked, chunk_in_use, Behind, chunk_size, B
  <2>1. CASE d = low
    <3>1. high \in Cells'
      BY <1>1, <1>5, <1>7 DEF Layout, Places, Cells, Chunks
    <3>2. low \notin used'
      BY <1>2, <1>3 DEF Layout, Places
    <3> QED BY <2>1, <3>1, <3>2, <1>11, <1>12
  <2>2. CASE d # low
    <3>1. d \in Cells /\ d \in Chunks /\ d # c
      BY <2>2, <1>7, <1>8 DEF Cells
    <3>2. B(d) = Behind(d) /\ (head[Behind(d)] % 2 = 1 <=> d \in used) /\ Behind(d) \in Cells
      BY <2>2, <3>1, <1>12 DEF Layout, Linked, chunk_in_use
    <3>3. d \in used <=> d \in used'
      BY <3>1, <1>3
    <3>4. Behind(d) # high
      <4>1. CASE next \in free /\ high = Behind(next)
        BY <4>1, <3>1, <1>4, <1>8, OneBefore DEF Cells
      <4>2. CASE high = next
        BY <4>2, <3>1, <1>1, <1>4, OneBefore
      <4> QED BY <4>1, <4>2, <1>5
    <3>5. CASE Behind(d) = low
      BY <3>1, <3>2, <3>3, <3>5, <2>2, <1>2, <1>11, <1>13
    <3>6. CASE Behind(d) # low
      BY <3>2, <3>3, <3>4, <3>6, <2>2, <1>10, <1>13
    <3> QED BY <3>5, <3>6
  <2> QED BY <2>1, <2>2
<1>18. Apart'
  <2> SUFFICES ASSUME NEW d \in Cells', NEW g \in Cells', d < g
               PROVE  B(d) <= g
    BY DEF Apart, Behind, chunk_size, B
  <2>1. d \in Cells /\ g \in Cells /\ g \in Nat
    BY <1>8, CellFacts
  <2>2. CASE d # low
    BY <2>1, <2>2, <1>12 DEF Layout, Apart
  <2>3. CASE d = low
    <3>1. c < g
      <4>1. g # c
        BY <2>1, <2>3, <1>2, <1>8
      <4>2. CASE low = c
        BY <4>2, <2>3
      <4>3. CASE low \in free /\ Behind(low) = c
        <5>1. c <= g
          BY <4>3, <2>1, <2>3, <1>2 DEF Layout, Apart
        <5> QED BY <5>1, <4>1, <2>1, <1>1
      <4> QED BY <4>2, <4>3, <1>2
    <3>2. next <= g
      BY <3>1, <2>1, <1>1, <1>4 DEF Layout, Apart
    <3>3. high <= g
      <4>1. CASE next \in free /\ high = Behind(next)
        <5>1. next < g
          BY <4>1, <3>2, <2>1, <1>4, <1>8
        <5> QED BY <5>1, <4>1, <2>1, <1>4 DEF Layout, Apart
      <4> QED BY <4>1, <3>2, <1>5
    <3> QED BY <3>3, <2>3, <1>12
  <2> QED BY <2>2, <2>3
<1>19. Ending'
  <2>1. B(top) = END
    BY <1>1, <1>2, <1>12 DEF Layout, Ending
  <2> QED BY <2>1, <1>3 DEF Ending, Behind, chunk_size, B
<1>20. Merged'
  <2> SUFFICES ASSUME NEW f \in free' PROVE B(f) \in used'
    BY DEF Merged, Behind, chunk_size, B
  <2>1. CASE f = low
    BY <2>1, <1>1, <1>3, <1>5, <1>12
  <2>2. CASE f # low
    <3>1. f \in free /\ f \in Cells /\ f \in Chunks /\ f # c /\ Behind(f) \in used
      BY <2>2, <1>1, <1>3 DEF Cells, Chunks, Layout, Merged
    <3>2. Behind(f) # c
      <4>1. Behind(f) = c => low = c
        BY <3>1, <2>2, <1>2, OneBefore
      <4> QED BY <4>1, <3>1, <1>2 DEF Layout, Places
    <3> QED BY <3>1, <3>2, <2>2, <1>3, <1>12
  <2> QED BY <2>1, <2>2
<1>21. Foretold'
  <2> SUFFICES ASSUME NEW d \in Cells', head'[d] % 2 = 0
               PROVE  \E f \in free' : B(f) = d
    BY DEF Foretold, Behind, chunk_size, B
  <2>1. CASE d = high
    BY <2>1, <1>3, <1>12
  <2>2. CASE d # high
    <3>1. d # low
      BY <1>11
    <3>2. d \in Cells /\ head[d] % 2 = 0 /\ d # c
      BY <3>1, <2>2, <1>8, <1>10
    <3>3. PICK f \in free : Behind(f) = d
      BY <3>2 DEF Layout, Foretold
    <3>4. f # next
      BY <3>3, <2>2, <1>5 DEF Layout, Places
    <3>5. f # low
      BY <3>2, <3>3, <1>1, <1>2
    <3> QED BY <3>3, <3>4, <3>5, <1>3, <1>12 DEF Cells, Chunks
  <2> QED BY <2>1, <2>2
<1>22. Layout'
  BY <1>14, <1>15, <1>16, <1>17, <1>18, <1>19, <1>20, <1>21 DEF Layout
<1>23. head'[low] - (head'[low] % 8) = high - low
  BY <1>11 DEF SizeOf
<1>24. high \in used'
  BY <1>1, <1>3, <1>5
<1>25. head'[high] - (head'[high] % 8) = chunk_size(high)
  BY <1>11 DEF SizeOf, chunk_size
<1> QED
  BY <1>4, <1>5, <1>10, <1>11, <1>22, <1>23, <1>24, <1>25 DEF low, next, high

\* What free does to the layout, in either case.
LEMMA ReleaseFacts ==
  ASSUME Layout, NEW c \in used, Release(c)
  PROVE  /\ Layout' /\ used' = used \ {c}
         /\ Behind(c) # top =>
              /\ High(c) \in used' /\ head'[High(c)] % 2 = 0
              /\ Behind(c) \in Chunks
              /\ (Behind(c) \in free /\ High(c) = Behind(Behind(c))) \/ High(c) = Behind(c)
              /\ head'[Low(c)] - (head'[Low(c)] % 8) = High(c) - Low(c)
              /\ \A d \in Cells \ {Low(c), High(c)} : head'[d] = head[d]
              /\ head'[High(c)] - (head'[High(c)] % 8) = chunk_size(High(c))
<1>1. CASE Behind(c) = top
  <2>1. /\ used' = used \ {c} /\ free' = free \ {Low(c)} /\ top' = Low(c)
        /\ head' = [head EXCEPT ![Low(c)] = END - Low(c) + 1]
    BY <1>1 DEF Release, Low
  <2> QED BY <2>1, <1>1, ReturnKeepsLayout
<1>2. CASE Behind(c) # top
  <2>1. /\ used' = used \ {c} /\ free' = (free \ {Behind(c)}) \cup {Low(c)} /\ top' = top
        /\ head' = [head EXCEPT ![Low(c)] = High(c) - Low(c) + 1, ![High(c)] = Flag(@, 0)]
    BY <1>2 DEF Release, Low, High
  <2> QED BY <2>1, <1>2, MergeKeepsLayout
<1> QED BY <1>1, <1>2

\* malloc keeps the layout.
LEMMA MallocKeepsLayout ==
  ASSUME Layout, NEW n \in SIZES, MallocFree(n) \/ MallocTop(n)
  PROVE  Layout'
<1>1. CASE MallocFree(n)
  <2>1. PICK c \in free :
          /\ chunk_size(c) >= n /\ top' = top
          /\ used' = used \cup {c}
          /\ free' = IF chunk_size(c) > n THEN (free \ {c}) \cup {c + n} ELSE free \ {c}
          /\ head' = Filled(IF chunk_size(c) > n
                            THEN [head EXCEPT ![c] = n + 1, ![c + n] = chunk_size(c) - n + 1]
                            ELSE [head EXCEPT ![c + n] = Flag(@, 1)], c, n)
    BY <1>1 DEF MallocFree
  <2>2. CASE chunk_size(c) > n
    BY <2>1, <2>2, SplitKeepsLayout
  <2>3. CASE ~(chunk_size(c) > n)
    <3>1. chunk_size(c) = n
      <4>1. chunk_size(c) \in Nat /\ n \in Nat
        BY CellFacts, HeapAssumption DEF Cells, Chunks
      <4> QED BY <4>1, <2>1, <2>3
    <3> QED BY <3>1, <2>1, <2>3, TakeKeepsLayout
  <2> QED BY <2>2, <2>3
<1>2. CASE MallocTop(n)
  BY <1>2, CutKeepsLayout DEF MallocTop
<1> QED BY <1>1, <1>2

-----------------------------------------------------------------------------
(* The walk.                                                               *)

Fns == {"next_used_mem", "next_free_mem", "free_everything"}

Typed ==
  /\ pc \in {"idle", "walk", "visit", "segv"}
  /\ IF pc = "idle" THEN call = None
     ELSE /\ call.fn \in Fns
          /\ call.start \in Addrs /\ call.end \in Addrs /\ call.size \in Int
  /\ at \in Addrs \cup {END}
  /\ stats.freed \in Nat /\ stats.bytes \in Nat

\* The address of a header left over from a chunk that was merged: it leads to
\* the end of the merged chunk, and says of itself that it is free.
Leftover(a) ==
  /\ a \in Addrs /\ Behind(a) \in used /\ ~chunk_in_use(a) /\ a < Behind(a)
  /\ \A d \in used : ~(a <= d /\ d < Behind(a))

Placed == at \in Cells \/ (call.fn = "free_everything" /\ Leftover(at))

\* What is sought lies ahead.
Ahead ==
  IF call.fn = "free_everything"
  THEN /\ call.end \in used /\ at <= call.end
       /\ \A d \in used : call.start < d /\ d < at => chunk_size(d) <= call.size
  ELSE \A d \in Sought(call.start) : at <= d

Walking == pc = "walk" => call.start < at /\ Placed /\ Ahead

Visiting ==
  pc = "visit" => call.fn = "free_everything" /\ at \in used /\ call.start < at /\ Ahead

HeapInv == Layout /\ Typed /\ Walking /\ Visiting /\ DiesWithoutAnswer

\* Behind a chunk is a cell, and no chunk is in between.
LEMMA StepFacts ==
  ASSUME Layout, NEW c \in Chunks
  PROVE  /\ Behind(c) \in Cells /\ Behind(c) \in Addrs /\ c < Behind(c)
         /\ \A d \in Cells : c < d => Behind(c) <= d
         /\ chunk_in_use(c) <=> c \in used
<1>1. c \in Cells /\ Behind(c) \in Cells /\ (chunk_in_use(c) <=> c \in used)
  BY DEF Layout, Linked, Cells
<1>2. \A d \in Cells : c < d => Behind(c) <= d
  BY <1>1 DEF Layout, Apart
<1> QED BY <1>1, <1>2, CellFacts

LEMMA ReadableFacts ==
  ASSUME NEW a \in Nat, NEW b \in Addrs
  PROVE  (Readable(a) <=> a < END) /\ Readable(b)
<1>1. END \in Nat /\ b \in Nat /\ b < END
  BY AddrFacts
<1> QED BY <1>1 DEF Readable, distance_to_end_of_heap

\* A walk that can go on is at a chunk, or where one was.
LEMMA OnTheWay ==
  ASSUME HeapInv, pc = "walk"
  PROVE  /\ Readable(at)
         /\ at \in Chunks \/ Leftover(at) \/ at = top
         /\ at \in Chunks => Readable(Behind(at))
         /\ Leftover(at) => Readable(Behind(at))
         /\ at = top => ~Readable(Behind(at))
<1>1. Layout /\ Placed
  BY DEF HeapInv, Walking
<1>2. at \in Chunks \/ Leftover(at) \/ at = top
  BY <1>1 DEF Placed, Cells
<1>3. at \in Addrs
  BY <1>1, CellFacts DEF Placed, Leftover
<1>4. at \in Chunks => Behind(at) \in Addrs
  BY <1>1, StepFacts
<1>5. Leftover(at) => Behind(at) \in Addrs
  BY <1>1 DEF Leftover, Layout, Places
<1>6. at = top => ~Readable(Behind(at))
  <2>1. END \in Nat /\ Behind(top) = END
    BY <1>1, HeapAssumption DEF Layout, Ending
  <2> QED BY <2>1 DEF Readable, distance_to_end_of_heap
<1> QED BY <1>2, <1>3, <1>4, <1>5, <1>6, ReadableFacts, AddrFacts

\* A step of the walk that leaves the heap as it is.
LEMMA KeepHeap ==
  ASSUME HeapInv, UNCHANGED <<used, free, top, head>>,
         Typed', pc' \in {"walk", "visit"}, call'.start < at', Ahead',
         at' \in Cells,
         pc' = "visit" => call'.fn = "free_everything" /\ at' \in used
  PROVE  HeapInv'
<1>1. Layout'
  BY DEF HeapInv, Layout, Places, Words, Below, Linked, Apart, Ending, Merged, Foretold,
         Cells, Chunks, Behind, chunk_size, chunk_in_use
<1>2. Cells' = Cells
  BY DEF Cells, Chunks
<1> QED BY <1>1, <1>2 DEF HeapInv, Walking, Placed, Visiting, DiesWithoutAnswer

LEMMA GoOnKeepsInv ==
  ASSUME HeapInv, GoOn
  PROVE  /\ HeapInv' /\ at < at'
         /\ call.fn = "free_everything" => \A d \in used : d < at' => d < at
<1>1. /\ pc = "walk" /\ Readable(Behind(at)) /\ ~Wanted
      /\ at' = Behind(at)
      /\ UNCHANGED <<used, free, top, head, pc, call, stats>>
  BY DEF GoOn, heapVars
<1>2. Layout /\ Typed /\ call.start < at /\ Placed /\ Ahead /\ call.start \in Nat /\ call.fn \in Fns
  BY <1>1, AddrFacts DEF HeapInv, Walking, Typed
<1>3. Behind(at) \in Cells /\ Behind(at) \in Addrs /\ at < Behind(at) /\ at \in Nat /\ Behind(at) \in Nat
  BY <1>1, <1>2, OnTheWay, StepFacts, CellFacts, AddrFacts DEF Leftover, Cells, Chunks
<1>4. call'.start < at' /\ at' \in Cells /\ pc' = "walk" /\ UNCHANGED <<used, free, top, head>>
  BY <1>1, <1>2, <1>3
<1>8. Typed'
  BY <1>1, <1>2, <1>3 DEF Typed
<1>5. CASE at \in Chunks /\ call.fn = "free_everything"
  <2>1. at \notin used
    BY <1>1, <1>2, <1>5, StepFacts DEF Wanted
  <2>2. \A d \in used : d \in Cells /\ d \in Nat
    BY <1>2, CellFacts DEF Cells, Chunks
  <2>3. \A d \in used : at < d => Behind(at) <= d
    BY <2>2, <1>2, <1>5, StepFacts
  <2>4. \A d \in used : d < Behind(at) => d < at
    BY <2>1, <2>2, <2>3, <1>3
  <2>5. Behind(at) <= call.end
    BY <2>1, <2>2, <2>3, <1>2, <1>3, <1>5 DEF Ahead
  <2>6. Ahead'
    BY <2>4, <2>5, <1>1, <1>2, <1>5 DEF Ahead, chunk_size
  <2>7. HeapInv'
    BY <2>6, <1>4, <1>8, KeepHeap
  <2> QED BY <2>4, <2>7, <1>1, <1>3
<1>6. CASE Leftover(at) /\ call.fn = "free_everything"
  <2>1. \A d \in used : d \in Nat
    BY <1>2, CellFacts DEF Cells, Chunks
  <2>2. \A d \in used : d < Behind(at) => d < at
    BY <2>1, <1>3, <1>6 DEF Leftover
  <2>3. Behind(at) <= call.end
    BY <2>1, <2>2, <1>2, <1>3, <1>6 DEF Ahead
  <2>4. Ahead'
    BY <2>2, <2>3, <1>1, <1>2, <1>6 DEF Ahead, chunk_size
  <2>5. HeapInv'
    BY <2>4, <1>4, <1>8, KeepHeap
  <2> QED BY <2>2, <2>5, <1>1, <1>3
<1>7. CASE at \in Chunks /\ call.fn # "free_everything"
  <2>1. at \notin Sought(call.start)
    <3>1. chunk_in_use(at) <=> at \in used
      BY <1>2, <1>7, StepFacts
    <3>2. call.fn = "next_free_mem" => at \in used
      BY <3>1, <1>1 DEF Wanted, chunk_in_use
    <3>3. call.fn # "next_free_mem" => at \notin used
      BY <3>1, <1>1 DEF Wanted, chunk_in_use
    <3>4. at \in used => at \notin free
      BY <1>2 DEF Layout, Places
    <3> QED BY <3>2, <3>3, <3>4 DEF Sought
  <2>2. \A d \in Sought(call.start) : d \in Cells /\ d \in Nat /\ at <= d /\ d # at
    <3>1. \A d \in Sought(call.start) : d \in Cells /\ at <= d
      BY <1>2, <1>7 DEF Sought, Cells, Chunks, Ahead
    <3> QED BY <3>1, <2>1, <1>2, CellFacts
  <2>3. \A d \in Sought(call.start) : Behind(at) <= d
    BY <2>2, <1>2, <1>3, <1>7, StepFacts
  <2>4. Ahead'
    BY <2>3, <1>1, <1>7 DEF Ahead, Sought
  <2>5. HeapInv'
    BY <2>4, <1>4, <1>8, KeepHeap
  <2> QED BY <2>5, <1>1, <1>3, <1>7
<1>9. at # top
  BY <1>1, OnTheWay
<1> QED BY <1>2, <1>5, <1>6, <1>7, <1>9 DEF Placed, Cells

\* A walk finds what it looks for, and nothing nearer.
LEMMA FoundFacts ==
  ASSUME HeapInv, Found
  PROVE  /\ at \in Sought(call.start)
         /\ call.fn = "free_everything" => at \in used
         /\ IF call.fn = "free_everything"
            THEN \A c \in used : call.start < c /\ c < at => chunk_size(c) <= call.size
            ELSE at = Nearest(call.start)
<1>1. pc = "walk" /\ Readable(Behind(at)) /\ Wanted
  BY DEF Found
<1>2. Layout /\ Typed /\ call.start < at /\ Placed /\ Ahead /\ call.start \in Nat /\ call.fn \in Fns
  BY <1>1, AddrFacts DEF HeapInv, Walking, Typed
<1>3. at \in Chunks
  <2>1. at # top
    BY <1>1, OnTheWay
  <2>2. call.fn = "free_everything" => ~Leftover(at)
    BY <1>1 DEF Wanted, Leftover, chunk_in_use
  <2> QED BY <2>1, <2>2, <1>2 DEF Placed, Cells
<1>4. at \in Nat /\ (chunk_in_use(at) <=> at \in used)
  BY <1>2, <1>3, StepFacts, CellFacts DEF Cells
<1>5. call.fn = "next_free_mem" => at \in free
  BY <1>1, <1>3, <1>4 DEF Wanted, chunk_in_use, Chunks
<1>6. call.fn # "next_free_mem" => at \in used
  BY <1>1, <1>4 DEF Wanted, chunk_in_use
<1>7. at \in Sought(call.start)
  BY <1>2, <1>4, <1>5, <1>6 DEF Sought
<1>8. CASE call.fn = "free_everything"
  BY <1>2, <1>6, <1>7, <1>8 DEF Ahead
<1>9. CASE call.fn # "free_everything"
  <2>1. \A d \in Sought(call.start) : at <= d
    BY <1>2, <1>9 DEF Ahead
  <2>2. \A d \in Sought(call.start) : d \in Nat
    BY <1>2, CellFacts DEF Sought, Cells, Chunks
  <2>3. \A d \in Sought(call.start) : (\A e \in Sought(call.start) : d <= e) => d = at
    BY <2>1, <2>2, <1>4, <1>7
  <2>4. at = Nearest(call.start)
    BY <2>1, <2>3, <1>7 DEF Nearest
  <2> QED BY <2>4, <1>7, <1>9
<1> QED BY <1>8, <1>9

\* The heap is as it was.
LEMMA SameLayout ==
  ASSUME Layout, UNCHANGED heapVars
  PROVE  Layout'
BY DEF heapVars, Layout, Places, Words, Below, Linked, Apart, Ending, Merged, Foretold,
       Cells, Chunks, Behind, chunk_size, chunk_in_use

LEMMA FoundKeepsInv ==
  ASSUME HeapInv, Found
  PROVE  HeapInv'
<1>1. pc = "walk" /\ UNCHANGED heapVars /\ UNCHANGED stats
  BY DEF Found
<1>2. Layout /\ Typed /\ call.start < at /\ Ahead /\ Layout'
  BY <1>1, SameLayout DEF HeapInv, Walking
<1>3. CASE call.fn = "free_everything"
  <2>1. pc' = "visit" /\ call' = call /\ at' = at
    BY <1>3 DEF Found
  <2>2. at \in used
    BY <1>3, FoundFacts
  <2>3. Ahead'
    BY <2>1, <1>1, <1>2, <1>3 DEF Ahead, heapVars, chunk_size
  <2>4. Typed'
    BY <2>1, <1>1, <1>2 DEF Typed
  <2> QED BY <2>1, <2>2, <2>3, <2>4, <1>1, <1>2, <1>3
          DEF HeapInv, Walking, Visiting, DiesWithoutAnswer, heapVars
<1>4. CASE call.fn # "free_everything"
  <2>1. pc' = "idle" /\ call' = None /\ at' = 0
    BY <1>4 DEF Found
  <2>2. 0 \in Addrs
    BY HeapAssumption DEF Addrs, GRAIN
  <2>3. Typed'
    BY <2>1, <2>2, <1>1, <1>2 DEF Typed, Addrs
  <2> QED BY <2>1, <2>3, <1>2 DEF HeapInv, Walking, Visiting, DiesWithoutAnswer
<1> QED BY <1>3, <1>4

\* A walk dies at top, with nothing ahead of it.
LEMMA DiesKeepsInv ==
  ASSUME HeapInv, Dies
  PROVE  HeapInv'
<1>1. pc = "walk" /\ pc' = "segv" /\ UNCHANGED heapVars /\ UNCHANGED <<call, at, stats>>
  BY DEF Dies
<1>2. Layout /\ Typed /\ Ahead /\ Layout'
  BY <1>1, SameLayout DEF HeapInv, Walking
<1>3. at = top /\ top \in Nat
  BY <1>1, <1>2, OnTheWay, CellFacts DEF Dies, Cells
<1>4. \A d \in Chunks : d \in Nat /\ d < top
  BY <1>2, CellFacts DEF Layout, Below, Cells
<1>5. call.fn # "free_everything"
  BY <1>2, <1>3, <1>4 DEF Ahead, Chunks
<1>6. Sought(call.start) = {}
  BY <1>2, <1>3, <1>4, <1>5 DEF Ahead, Sought, Chunks
<1>7. DiesWithoutAnswer'
  BY <1>1, <1>5, <1>6 DEF DiesWithoutAnswer, Sought, heapVars
<1>8. Typed'
  BY <1>1, <1>2 DEF Typed
<1> QED BY <1>1, <1>2, <1>7, <1>8 DEF HeapInv, Walking, Visiting

LEMMA VisitAndKeepKeepsInv ==
  ASSUME HeapInv, VisitAndKeep
  PROVE  HeapInv' /\ at < at' /\ \A d \in used : d < at' => d < at \/ d = at
<1>1. /\ pc = "visit" /\ at # call.end /\ chunk_size(at) <= call.size /\ at' = Behind(at)
      /\ pc' = "walk" /\ UNCHANGED <<used, free, top, head>> /\ UNCHANGED <<call, stats>>
  BY DEF VisitAndKeep, heapVars
<1>2. /\ Layout /\ Typed /\ call.start < at /\ Ahead /\ at \in used
      /\ call.start \in Nat /\ call.fn = "free_everything"
  BY <1>1, AddrFacts DEF HeapInv, Visiting, Typed
<1>3. at \in Chunks /\ at \in Nat
  BY <1>2, CellFacts DEF Cells, Chunks
<1>4. Behind(at) \in Cells /\ Behind(at) \in Addrs /\ at < Behind(at) /\ Behind(at) \in Nat
  BY <1>2, <1>3, StepFacts, AddrFacts
<1>5. call'.start < at' /\ at' \in Cells
  BY <1>1, <1>2, <1>3, <1>4
<1>6. Typed'
  BY <1>1, <1>2, <1>4 DEF Typed
<1>7. \A d \in used : d \in Nat /\ (at < d => Behind(at) <= d)
  <2>1. \A d \in used : d \in Cells
    BY DEF Cells, Chunks
  <2> QED BY <2>1, <1>2, <1>3, StepFacts, CellFacts
<1>8. Behind(at) <= call.end
  <2>1. call.end \in used /\ at <= call.end
    BY <1>2 DEF Ahead
  <2>2. at < call.end
    BY <2>1, <1>1, <1>3, <1>7
  <2> QED BY <2>1, <2>2, <1>7
<1>9. \A d \in used : d < Behind(at) => d < at \/ d = at
  BY <1>3, <1>4, <1>7
<1>10. Ahead'
  BY <1>1, <1>2, <1>8, <1>9 DEF Ahead, chunk_size
<1>11. HeapInv'
  BY <1>1, <1>5, <1>6, <1>10, KeepHeap
<1> QED BY <1>1, <1>4, <1>9, <1>11

LEMMA ReturnKeepsInv ==
  ASSUME HeapInv, Return
  PROVE  HeapInv'
<1>1. /\ pc' = "idle" /\ call' = None /\ at' = 0 /\ UNCHANGED heapVars /\ UNCHANGED stats
  BY DEF Return
<1>2. Layout' /\ Typed
  BY <1>1, SameLayout DEF HeapInv
<1>3. 0 \in Addrs
  BY HeapAssumption DEF Addrs, GRAIN
<1> QED BY <1>1, <1>2, <1>3 DEF HeapInv, Typed, Walking, Visiting, DiesWithoutAnswer

\* A chunk is freed under the walk.
LEMMA VisitAndFreeKeepsInv ==
  ASSUME HeapInv, VisitAndFree
  PROVE  /\ HeapInv' /\ used' = used \ {at} /\ at < at'
         /\ \A d \in used' : (d < at' => d < at) /\ chunk_size(d)' = chunk_size(d)
<1> DEFINE next == Behind(at)
           low == Low(at)
           high == High(at)
           B(d) == d + (head'[d] - (head'[d] % 8))
<1>1. /\ pc = "visit" /\ at # call.end /\ Release(at) /\ at' = B(at)
      /\ stats' = [freed |-> stats.freed + 1, bytes |-> stats.bytes + chunk_size(at)]
      /\ pc' = "walk" /\ call' = call
  BY DEF VisitAndFree
<1>2. /\ Layout /\ Typed /\ call.start < at /\ Ahead /\ at \in used
      /\ call.start \in Nat /\ call.fn = "free_everything"
      /\ call.end \in used /\ at <= call.end
  BY <1>1, AddrFacts DEF HeapInv, Visiting, Typed, Ahead
<1>3. at \in Chunks /\ at \in Cells /\ at \in Nat /\ chunk_size(at) \in Nat
  BY <1>2, CellFacts DEF Cells, Chunks
<1>4. \A d \in used : d \in Cells /\ d \in Nat /\ (at < d => next <= d)
  <2>1. \A d \in used : d \in Cells
    BY DEF Cells, Chunks
  <2> QED BY <2>1, <1>2, <1>3, StepFacts, CellFacts
<1>18. call.end \in Nat /\ at < call.end
  <2>1. at # call.end
    BY DEF VisitAndFree
  <2>2. call.end \in Nat
    BY <1>2, <1>4
  <2> QED BY <2>1, <2>2, <1>2, <1>3
<1>5. next \in Cells /\ next \in Nat /\ at < next /\ next <= call.end
  <2>1. next \in Cells /\ at < next
    BY <1>2, <1>3, StepFacts
  <2>2. next \in Nat
    BY <2>1, <1>2, CellFacts
  <2>3. next <= call.end
    BY <1>2, <1>4, <1>18
  <2> QED BY <2>1, <2>2, <2>3
<1>6. next # top
  <2>1. call.end < top /\ top \in Nat
    BY <1>2, CellFacts DEF Layout, Below, Cells, Chunks
  <2> QED BY <2>1, <1>2, <1>4, <1>5
<1>7. /\ Layout' /\ used' = used \ {at}
      /\ high \in used' /\ head'[high] % 2 = 0
      /\ (next \in free /\ high = Behind(next)) \/ high = next
      /\ B(low) = high
      /\ \A d \in Cells \ {low, high} : head'[d] = head[d]
      /\ head'[high] - (head'[high] % 8) = chunk_size(high)
  <2>1. /\ Layout' /\ used' = used \ {at}
        /\ high \in used' /\ head'[high] % 2 = 0
        /\ (next \in free /\ high = Behind(next)) \/ high = next
        /\ head'[low] - (head'[low] % 8) = high - low
        /\ \A d \in Cells \ {low, high} : head'[d] = head[d]
        /\ head'[high] - (head'[high] % 8) = chunk_size(high)
    BY <1>1, <1>2, <1>6, ReleaseFacts
  <2>2. low \in Nat /\ high \in Nat
    BY <2>1, <1>2, <1>4, LowFacts, AddrFacts
  <2> HIDE DEF low, high
  <2> QED BY <2>1, <2>2
<1>8. /\ low \in Cells /\ low \in Nat /\ low <= at /\ (low = at \/ low \in free)
  BY <1>2, LowFacts, AddrFacts
<1> HIDE DEF next, low, high
<1>9. /\ high \in used /\ high \in Cells /\ high \in Nat /\ next <= high /\ at < high /\ high <= call.end
      /\ \A d \in used : at < d => high <= d
  <2>1. high \in used /\ high \in Cells /\ high \in Nat
    BY <1>4, <1>7
  <2>2. CASE high = next
    BY <2>1, <2>2, <1>4, <1>5
  <2>3. CASE next \in free /\ high = Behind(next)
    <3>1. next \in Chunks /\ next \notin used
      BY <2>3, <1>2 DEF Chunks, Layout, Places
    <3>2. next < high /\ \A d \in Cells : next < d => high <= d
      BY <3>1, <2>3, <1>2, StepFacts
    <3>3. \A d \in used : at < d => high <= d
      BY <3>1, <3>2, <1>4, <1>5
    <3>4. high <= call.end
      BY <3>3, <1>2, <1>18
    <3> QED BY <3>2, <3>3, <3>4, <2>1, <1>3, <1>5
  <2> QED BY <2>2, <2>3, <1>7
<1>10. /\ \A d \in Cells \ {low, high} : chunk_size(d)' = chunk_size(d)
       /\ \A d \in Cells \ {low, high} : B(d) = Behind(d)
  BY <1>7 DEF chunk_size, Behind
<1>11. at' = high \/ (at' = next /\ next \in free /\ high = Behind(next))
  <2>1. CASE low = at
    BY <2>1, <1>1, <1>7
  <2>2. CASE low # at
    <3>1. B(at) = Behind(at)
      BY <2>2, <1>3, <1>9, <1>10
    <3>2. at' = next
      BY <3>1, <1>1 DEF next
    <3> QED BY <3>2, <1>7
  <2> QED BY <2>1, <2>2
<1>12. at' \in Nat /\ at' \in Addrs /\ at < at' /\ at' <= call.end /\ at' <= high
  BY <1>2, <1>5, <1>9, <1>11, CellFacts
<1>13. \A d \in used' : (d < at' => d < at) /\ chunk_size(d)' = chunk_size(d)
  <2> SUFFICES ASSUME NEW d \in used'
               PROVE  (d < at' => d < at) /\ chunk_size(d)' = chunk_size(d)
    OBVIOUS
  <2>1. d \in used /\ d # at /\ d \in Cells /\ d \in Nat
    BY <1>4, <1>7
  <2>2. d < at' => d < at
    BY <2>1, <1>3, <1>9, <1>12
  <2>3. d # low
    BY <2>1, <1>2, <1>8 DEF Layout, Places
  <2>4. CASE d = high
    BY <2>2, <2>4, <1>7 DEF chunk_size
  <2>5. CASE d # high
    BY <2>1, <2>2, <2>3, <2>5, <1>10
  <2> QED BY <2>4, <2>5
<1>14. Ahead'
  <2>1. call.end \in used'
    BY <1>1, <1>2, <1>7
  <2>2. \A d \in used' : call.start < d /\ d < at' => chunk_size(d)' <= call.size
    BY <1>2, <1>7, <1>13 DEF Ahead
  <2> QED BY <2>1, <2>2, <1>1, <1>2, <1>12 DEF Ahead
<1>15. Placed'
  <2>1. CASE at' = high
    BY <2>1, <1>7 DEF Placed, Cells, Chunks
  <2>2. CASE at' = next /\ next \in free /\ high = Behind(next)
    <3>1. next # low /\ next # high
      <4>1. Behind(next) > next
        BY <1>2, <1>5, CellFacts
      <4>2. next # low
        BY <1>3, <1>5, <1>8
      <4> QED BY <4>1, <4>2, <2>2, <1>5, <1>9
    <3>2. B(next) = high
      BY <3>1, <2>2, <1>5, <1>10
    <3>3. \A d \in used' : ~(next <= d /\ d < high)
      BY <1>3, <1>4, <1>5, <1>7, <1>9
    <3>4. Behind(at)' = high
      BY <3>2, <2>2 DEF Behind, chunk_size
    <3>5. ~chunk_in_use(at)'
      BY <3>4, <1>7 DEF chunk_in_use
    <3>6. next < high
      BY <3>1, <1>5, <1>9
    <3>7. Leftover(at)'
      BY <3>3, <3>4, <3>5, <3>6, <2>2, <1>7, <1>12 DEF Leftover
    <3> QED BY <3>7, <1>1, <1>2 DEF Placed
  <2> QED BY <2>1, <2>2, <1>11
<1>16. call'.start < at'
  BY <1>1, <1>2, <1>3, <1>12
<1>17. Typed'
  BY <1>1, <1>2, <1>3, <1>12 DEF Typed
<1>19. HeapInv'
  BY <1>1, <1>7, <1>14, <1>15, <1>16, <1>17
     DEF HeapInv, Walking, Visiting, DiesWithoutAnswer
<1> QED BY <1>7, <1>12, <1>13, <1>19

\* A call sets out from a chunk.
LEMMA CallKeepsInv ==
  ASSUME HeapInv, NEW fn \in Fns, NEW ptr, NEW end, NEW size \in Int, Call(fn, ptr, end, size),
         \/ fn # "free_everything" /\ end = 0
         \/ fn = "free_everything" /\ ptr < end /\ end \in used
  PROVE  HeapInv'
<1>1. /\ ptr \in Chunks /\ at' = Behind(ptr) /\ pc' = "walk"
      /\ call' = [fn |-> fn, start |-> ptr, end |-> end, size |-> size, sizes |-> Sizes]
      /\ stats' = [freed |-> 0, bytes |-> 0] /\ UNCHANGED <<used, free, top, head>>
  BY DEF Call, heapVars
<1>2. Layout
  BY DEF HeapInv
<1>3. /\ call'.fn = fn /\ call'.start = ptr /\ call'.end = end /\ call'.size = size
      /\ stats'.freed = 0 /\ stats'.bytes = 0
  BY <1>1
<1>4. ptr \in Addrs /\ ptr \in Nat
  BY <1>1, <1>2, CellFacts DEF Cells
<1>5. at' \in Cells /\ at' \in Addrs /\ ptr < at' /\ at' \in Nat
  BY <1>1, <1>2, StepFacts, AddrFacts
<1>6. \A d \in Chunks : d \in Nat /\ (ptr < d => at' <= d)
  <2>1. \A d \in Chunks : d \in Cells /\ d \in Nat
    BY <1>2, CellFacts DEF Cells
  <2> QED BY <2>1, <1>1, <1>2, StepFacts
<1>7. Ahead'
  <2>1. CASE fn = "free_everything"
    <3>1. \A d \in used' : ~(ptr < d /\ d < at')
      BY <1>1, <1>5, <1>6 DEF Chunks
    <3>2. end \in used' /\ at' <= end
      BY <2>1, <1>1, <1>6 DEF Chunks
    <3> QED BY <3>1, <3>2, <2>1, <1>3 DEF Ahead
  <2>2. CASE fn # "free_everything"
    <3>1. \A d \in Sought(call.start)' : d \in Chunks /\ ptr < d
      BY <1>1, <1>3, <1>4, <1>6 DEF Sought, Chunks
    <3> QED BY <3>1, <2>2, <1>3, <1>6 DEF Ahead
  <2> QED BY <2>1, <2>2
<1>8. Typed'
  <2>1. end \in Addrs
    <3>1. 0 \in Addrs
      BY HeapAssumption DEF Addrs, GRAIN
    <3> QED BY <3>1, <1>2 DEF Layout, Places
  <2> QED BY <2>1, <1>1, <1>3, <1>4, <1>5 DEF Typed
<1> QED BY <1>1, <1>3, <1>5, <1>7, <1>8, KeepHeap

\* Between calls the heap may change.
LEMMA ProgramKeepsInv ==
  ASSUME HeapInv, (\E n \in SIZES : MallocFree(n) \/ MallocTop(n)) \/ (\E c \in used : Free(c))
  PROVE  HeapInv'
<1>1. pc = "idle" /\ UNCHANGED <<pc, call, at, stats>>
  BY DEF MallocFree, MallocTop, Free
<1>2. Layout'
  BY MallocKeepsLayout, ReleaseFacts DEF HeapInv, Free
<1> QED BY <1>1, <1>2 DEF HeapInv, Typed, Walking, Visiting, DiesWithoutAnswer

LEMMA InitInv == Init => HeapInv
<1> SUFFICES ASSUME Init PROVE HeapInv
  OBVIOUS
<1>1. 0 \in Addrs
  BY HeapAssumption DEF Addrs, GRAIN
<1> QED BY <1>1, InitLayout DEF Init, HeapInv, Typed, Walking, Visiting, DiesWithoutAnswer

LEMMA NextInv == HeapInv /\ [Next]_vars => HeapInv'
<1> SUFFICES ASSUME HeapInv, [Next]_vars PROVE HeapInv'
  OBVIOUS
<1>1. CASE UNCHANGED vars
  <2>1. UNCHANGED heapVars /\ UNCHANGED <<pc, call, at, stats>>
    BY <1>1 DEF vars, heapVars
  <2>2. Layout'
    BY <2>1, SameLayout DEF HeapInv
  <2> QED BY <2>1, <2>2
          DEF HeapInv, heapVars, Typed, Walking, Visiting, DiesWithoutAnswer, Placed, Ahead,
              Sought, Leftover, Cells, Chunks, Behind, chunk_size, chunk_in_use
<1>2. CASE (\E n \in SIZES : MallocFree(n) \/ MallocTop(n)) \/ (\E c \in used : Free(c))
  BY <1>2, ProgramKeepsInv
<1>3. CASE \E ptr \in Chunks : next_used_mem(ptr) \/ next_free_mem(ptr)
  BY <1>3, CallKeepsInv DEF next_used_mem, next_free_mem, Fns
<1>4. CASE \E start \in Chunks, end \in used, size \in LIMITS : free_everything(start, end, size)
  BY <1>4, CallKeepsInv, HeapAssumption DEF free_everything, Fns
<1>5. CASE Walk
  BY <1>5, GoOnKeepsInv, FoundKeepsInv, DiesKeepsInv, VisitAndFreeKeepsInv,
     VisitAndKeepKeepsInv, ReturnKeepsInv DEF Walk
<1>6. CASE pc = "segv" /\ UNCHANGED vars
  BY <1>1, <1>6
<1> QED BY <1>1, <1>2, <1>3, <1>4, <1>5, <1>6 DEF Next

LEMMA SpecInv == Spec => []HeapInv
BY InitInv, NextInv, PTL DEF Spec

\* Every variable keeps its type: no walk leaves the heap, whatever has been
\* allocated and freed before (hw3.c:66-146).
THEOREM Spec_TypeOK == Spec => []TypeOK
<1>1. HeapInv => TypeOK
  BY DEF HeapInv, Layout, Places, Typed, TypeOK, Fns
<1> QED BY <1>1, SpecInv, PTL

\* The chunks fill the heap without gap or overlap, neighbours are told apart
\* rightly by the header behind them, and no two free chunks touch: what the
\* walk takes for granted when it adds a size to an address (hw3.c:31-45).
THEOREM Spec_Layout == Spec => []Layout
<1>1. HeapInv => Layout
  BY DEF HeapInv
<1> QED BY <1>1, SpecInv, PTL

\* A walk that dies had nothing to find, and free_everything never dies
\* (hw3.c:77, 100, 137).
THEOREM Spec_DiesWithoutAnswer == Spec => []DiesWithoutAnswer
<1>1. HeapInv => DiesWithoutAnswer
  BY DEF HeapInv
<1> QED BY <1>1, SpecInv, PTL

\* What a walk finds is the nearest chunk of the kind asked for, and
\* free_everything comes past no chunk that it should have freed, although it
\* goes on from headers left over from chunks it has freed (hw3.c:76-81, 99-104,
\* 137-144).
THEOREM Spec_FindsNearest == Spec => FindsNearest
<1>1. HeapInv => (Found => /\ at \in Sought(call.start)
                           /\ IF call.fn = "free_everything"
                              THEN \A c \in used : call.start < c /\ c < at
                                                     => chunk_size(c) <= call.size
                              ELSE at = Nearest(call.start))
  BY FoundFacts
<1> QED BY <1>1, SpecInv, PTL DEF FindsNearest

-----------------------------------------------------------------------------
(* The sum of f over a set, as FiniteSetsExt computes it: one element after *)
(* the other is taken out.                                                 *)

Total(f, S) == MapThenSumSet(LAMBDA c : f[c], S)

First(T) == CHOOSE x \in T : TRUE
Summand(f, g, T) == IF T = {} THEN 0 ELSE f[First(T)] + g[T \ {First(T)}]
Sums(f, S, g) == g = [T \in SUBSET S |-> Summand(f, g, T)]

\* Of a set of subsets of a finite set, some member has no smaller one in it.
LEMMA MinimalSet ==
  ASSUME NEW S, IsFiniteSet(S), NEW B \in SUBSET (SUBSET S), B # {}
  PROVE  \E T \in B : \A x \in T : T \ {x} \notin B
<1>1. IsWellFoundedOn(StrictSubsetOrdering(S), SUBSET S)
  BY FS_FiniteSubsetsOfFinite, FS_StrictSubsetOrderingWellFounded
<1>2. PICK T \in B : \A U \in B : <<U, T>> \notin StrictSubsetOrdering(S)
  BY <1>1, WFMin
<1>3. ASSUME NEW x \in T, T \ {x} \in B PROVE FALSE
  <2>1. T \ {x} # T /\ T \ {x} \subseteq T
    BY <1>3
  <2> QED BY <2>1, <1>2, <1>3 DEF StrictSubsetOrdering
<1> QED BY <1>3

LEMMA FirstIn ==
  ASSUME NEW T, T # {}
  PROVE  First(T) \in T
BY DEF First

\* Two such functions agree where both are defined.
LEMMA SumsAgree ==
  ASSUME NEW S, IsFiniteSet(S), NEW f, NEW R \in SUBSET S, NEW g, Sums(f, S, g),
         NEW h, Sums(f, R, h)
  PROVE  \A T \in SUBSET R : g[T] = h[T]
<1> DEFINE B == {T \in SUBSET R : g[T] # h[T]}
<1>1. SUFFICES ASSUME B # {} PROVE FALSE
  OBVIOUS
<1>2. PICK T \in B : \A x \in T : T \ {x} \notin B
  <2>1. B \in SUBSET (SUBSET S)
    OBVIOUS
  <2> HIDE DEF B
  <2> QED BY <2>1, <1>1, MinimalSet
<1>3. g[T] = Summand(f, g, T) /\ h[T] = Summand(f, h, T)
  BY DEF Sums
<1>4. CASE T = {}
  BY <1>2, <1>3, <1>4 DEF Summand
<1>5. CASE T # {}
  <2>1. First(T) \in T
    BY <1>5, FirstIn
  <2>2. g[T \ {First(T)}] = h[T \ {First(T)}]
    BY <1>2, <2>1
  <2> QED BY <1>2, <1>3, <1>5, <2>2 DEF Summand
<1> QED BY <1>4, <1>5

\* There is one.
LEMMA SumsExist ==
  ASSUME NEW S, IsFiniteSet(S), NEW f, \A c \in S : f[c] \in Nat
  PROVE  \E g \in [SUBSET S -> Nat] : Sums(f, S, g)
<1> DEFINE Good(T) == \E g \in [SUBSET T -> Nat] : Sums(f, T, g)
           B == {T \in SUBSET S : ~Good(T)}
           G(T) == CHOOSE g \in [SUBSET T -> Nat] : Sums(f, T, g)
<1>1. SUFFICES ASSUME B # {} PROVE FALSE
  OBVIOUS
<1>2. PICK T \in B : \A x \in T : T \ {x} \notin B
  <2>1. B \in SUBSET (SUBSET S)
    OBVIOUS
  <2> HIDE DEF B
  <2> QED BY <2>1, <1>1, MinimalSet
<1> DEFINE Out(U) == CHOOSE x \in T : x \notin U
           Value(U) == IF U = T THEN IF T = {} THEN 0
                                     ELSE f[First(T)] + G(T \ {First(T)})[T \ {First(T)}]
                       ELSE G(T \ {Out(U)})[U]
           h == [U \in SUBSET T |-> Value(U)]
<1>3. T \subseteq S /\ IsFiniteSet(T)
  BY FS_Subset
<1>4. ASSUME NEW x \in T
      PROVE  G(T \ {x}) \in [SUBSET (T \ {x}) -> Nat] /\ Sums(f, T \ {x}, G(T \ {x}))
  <2>1. Good(T \ {x})
    BY <1>2, <1>3
  <2> QED BY <2>1
<1> HIDE DEF G, Good, B
<1>5. ASSUME NEW U \in SUBSET T, U # T
      PROVE  Out(U) \in T /\ Out(U) \notin U
  <2>1. \E x \in T : x \notin U
    BY <1>5
  <2> QED BY <2>1
<1> HIDE DEF Out
<1>6. ASSUME NEW U \in SUBSET T, U # T, NEW x \in T, x \notin U
      PROVE  G(T \ {Out(U)})[U] = G(T \ {x})[U]
  <2> DEFINE a == G(T \ {Out(U)})
             b == G(T \ {x})
             A == {V \in SUBSET U : a[V] # b[V]}
  <2>1. SUFFICES ASSUME A # {} PROVE FALSE
    OBVIOUS
  <2>2. Sums(f, T \ {Out(U)}, a) /\ Sums(f, T \ {x}, b)
        /\ U \subseteq T \ {Out(U)} /\ U \subseteq T \ {x}
    BY <1>4, <1>5, <1>6
  <2> HIDE DEF a, b
  <2>3. PICK V \in A : \A y \in V : V \ {y} \notin A
    <3>1. A \in SUBSET (SUBSET S)
      BY <1>3
    <3> HIDE DEF A
    <3> QED BY <3>1, <2>1, MinimalSet
  <2>4. a[V] = Summand(f, a, V) /\ b[V] = Summand(f, b, V)
    BY <2>2 DEF Sums
  <2>5. CASE V = {}
    BY <2>3, <2>4, <2>5 DEF Summand
  <2>6. CASE V # {}
    <3>1. First(V) \in V
      BY <2>6, FirstIn
    <3>2. a[V \ {First(V)}] = b[V \ {First(V)}]
      BY <2>3, <3>1
    <3> QED BY <2>3, <2>4, <2>6, <3>2 DEF Summand
  <2> QED BY <2>5, <2>6
<1>7. ASSUME NEW U \in SUBSET T PROVE h[U] \in Nat /\ h[U] = Summand(f, h, U)
  <2>1. CASE U = T /\ T = {}
    BY <2>1 DEF Summand
  <2>2. CASE U = T /\ T # {}
    <3> DEFINE x == First(T)
               R == T \ {x}
    <3>1. x \in T /\ R \in SUBSET T /\ R # T /\ x \notin R
      BY <2>2, FirstIn
    <3>2. h[T] = f[x] + G(R)[R]
      BY <2>2
    <3>3. h[R] = G(T \ {Out(R)})[R]
      BY <3>1
    <3>4. h[R] = G(R)[R]
      <4> HIDE DEF x, h
      <4> QED BY <3>1, <3>3, <1>6
    <3>5. G(R)[R] \in Nat /\ f[x] \in Nat
      BY <3>1, <1>3, <1>4
    <3>6. Summand(f, h, T) = f[x] + h[R]
      BY <2>2 DEF Summand
    <3> HIDE DEF x, h
    <3> QED BY <3>2, <3>4, <3>5, <3>6, <2>2
  <2>3. CASE U # T
    <3> DEFINE a == G(T \ {Out(U)})
    <3>1. Out(U) \in T /\ Out(U) \notin U
      BY <2>3, <1>5
    <3>2. h[U] = a[U]
      BY <2>3
    <3>3. a \in [SUBSET (T \ {Out(U)}) -> Nat] /\ Sums(f, T \ {Out(U)}, a)
          /\ U \in SUBSET (T \ {Out(U)})
      BY <3>1, <1>4
    <3>4. a[U] = Summand(f, a, U) /\ a[U] \in Nat
      <4> HIDE DEF a
      <4> QED BY <3>3 DEF Sums
    <3>5. CASE U = {}
      <4> HIDE DEF a, h
      <4> QED BY <3>2, <3>4, <3>5 DEF Summand
    <3>6. CASE U # {}
      <4> DEFINE R == U \ {First(U)}
      <4>1. First(U) \in U /\ R \in SUBSET T /\ R # T /\ Out(U) \notin R
        BY <3>1, <3>6, FirstIn
      <4>2. h[R] = G(T \ {Out(R)})[R]
        BY <4>1
      <4>3. h[R] = a[R]
        <5> HIDE DEF R, h
        <5> QED BY <4>1, <4>2, <3>1, <1>6
      <4> HIDE DEF a, h
      <4> QED BY <4>3, <3>2, <3>4, <3>6 DEF Summand
    <3> QED BY <3>5, <3>6
  <2> QED BY <2>1, <2>2, <2>3
<1>8. h \in [SUBSET T -> Nat] /\ Sums(f, T, h)
  <2>1. h = [U \in SUBSET T |-> h[U]]
    OBVIOUS
  <2> HIDE DEF h
  <2>2. h \in [SUBSET T -> Nat]
    BY <2>1, <1>7
  <2>3. h = [U \in SUBSET T |-> Summand(f, h, U)]
    BY <2>1, <1>7
  <2> QED BY <2>2, <2>3 DEF Sums
<1>9. Good(T)
  <2> HIDE DEF h
  <2> QED BY <1>8 DEF Good
<1> QED BY <1>9 DEF B

LEMMA TotalIs ==
  ASSUME NEW S, IsFiniteSet(S), NEW f, NEW g, Sums(f, S, g)
  PROVE  Total(f, S) = g[S]
<1> DEFINE Good(h) == h = [T \in SUBSET S |-> IF T = {} THEN 0
                                    ELSE LET x == CHOOSE y \in T : TRUE IN f[x] + h[T \ {x}]]
           iter == CHOOSE h : Good(h)
<1>1. Total(f, S) = iter[S]
  BY DEF Total, MapThenSumSet, MapThenFoldSet
<1>2. ASSUME NEW h PROVE Good(h) <=> Sums(f, S, h)
  BY DEF Sums, Summand, First
<1> HIDE DEF Good
<1>3. Sums(f, S, iter)
  BY <1>2
<1> HIDE DEF iter
<1> QED BY <1>1, <1>3, SumsAgree

\* A set's sum is that of the rest and any one of its elements.
LEMMA TotalWithout ==
  ASSUME NEW S, IsFiniteSet(S), NEW f, \A c \in S : f[c] \in Nat, NEW x \in S
  PROVE  Total(f, S) = Total(f, S \ {x}) + f[x]
<1>1. PICK g \in [SUBSET S -> Nat] : Sums(f, S, g)
  BY SumsExist
<1>2. ASSUME NEW T \in SUBSET S PROVE Total(f, T) = g[T]
  <2>1. IsFiniteSet(T) /\ \A c \in T : f[c] \in Nat
    BY FS_Subset
  <2>2. PICK h \in [SUBSET T -> Nat] : Sums(f, T, h)
    BY <2>1, SumsExist
  <2> QED BY <1>1, <2>1, <2>2, TotalIs, SumsAgree
<1> DEFINE B == {T \in SUBSET S : \E y \in T : g[T] # g[T \ {y}] + f[y]}
<1>3. ASSUME B # {} PROVE FALSE
  <2>1. PICK T \in B : \A y \in T : T \ {y} \notin B
    <3>1. B \in SUBSET (SUBSET S)
      OBVIOUS
    <3> HIDE DEF B
    <3> QED BY <3>1, <1>3, MinimalSet
  <2>2. PICK y \in T : g[T] # g[T \ {y}] + f[y]
    OBVIOUS
  <2> DEFINE z == First(T)
  <2>3. z \in T
    BY <2>2, FirstIn
  <2>4. g[T] = f[z] + g[T \ {z}]
    BY <1>1, <2>2 DEF Sums, Summand
  <2>5. g[T] \in Nat /\ g[T \ {z}] \in Nat /\ g[T \ {y}] \in Nat /\ f[z] \in Nat
        /\ f[y] \in Nat /\ g[(T \ {z}) \ {y}] \in Nat
    BY <1>1, <2>3
  <2>6. y # z
    <3>1. ASSUME y = z PROVE g[T] = g[T \ {y}] + f[y]
      <4>1. g[T] = f[y] + g[T \ {y}]
        BY <2>4, <3>1
      <4> HIDE DEF z
      <4> QED BY <4>1, <2>5
    <3> QED BY <2>2, <3>1
  <2> HIDE DEF z
  <2>7. g[T \ {z}] = g[(T \ {z}) \ {y}] + f[y]
    BY <2>1, <2>3, <2>6
  <2>8. g[T \ {y}] = g[(T \ {y}) \ {z}] + f[z]
    BY <2>1, <2>2, <2>3, <2>6
  <2>9. (T \ {y}) \ {z} = (T \ {z}) \ {y}
    OBVIOUS
  <2>10. g[T \ {y}] = g[(T \ {z}) \ {y}] + f[z]
    BY <2>8, <2>9
  <2> HIDE DEF z
  <2> QED BY <2>2, <2>4, <2>5, <2>7, <2>10
<1>4. g[S] = g[S \ {x}] + f[x]
  BY <1>3
<1> QED BY <1>2, <1>4

LEMMA TotalEmpty ==
  ASSUME NEW f
  PROVE  Total(f, {}) = 0
<1>1. PICK g \in [SUBSET {} -> Nat] : Sums(f, {}, g)
  BY FS_EmptySet, SumsExist
<1>2. g[{}] = 0
  BY <1>1 DEF Sums, Summand
<1> QED BY <1>1, <1>2, FS_EmptySet, TotalIs

LEMMA TotalNat ==
  ASSUME NEW S, IsFiniteSet(S), NEW f, \A c \in S : f[c] \in Nat
  PROVE  Total(f, S) \in Nat
<1>1. PICK g \in [SUBSET S -> Nat] : Sums(f, S, g)
  BY SumsExist
<1>2. g[S] \in Nat
  BY <1>1
<1> QED BY <1>1, <1>2, TotalIs

-----------------------------------------------------------------------------
(* What free_everything has freed when it returns, whatever merges under   *)
(* the walk.                                                               *)

\* What has been freed so far is what lies behind the walk and should go; what
\* lies ahead is as it was.
Freed ==
  pc \in {"walk", "visit"} /\ call.fn = "free_everything" =>
    /\ DOMAIN call.sizes \subseteq Addrs
    /\ used = DOMAIN call.sizes \ Gone(at)
    /\ \A c \in used : at <= c => call.sizes[c] = chunk_size(c)
    /\ stats.freed = Cardinality(Gone(at))
    /\ \A c \in DOMAIN call.sizes : call.sizes[c] \in Nat
    /\ stats.bytes = Total(call.sizes, Gone(at))

FreedInv == HeapInv /\ Freed

\* A set of addresses is finite.
LEMMA GoneFinite ==
  ASSUME DOMAIN call.sizes \subseteq Addrs, NEW a
  PROVE  IsFiniteSet(Gone(a))
<1>1. IsFiniteSet(0 .. END - 1)
  BY HeapAssumption, FS_Interval
<1>2. Gone(a) \in SUBSET (0 .. END - 1)
  BY DEF Gone, Addrs
<1> QED BY <1>1, <1>2, FS_Subset

LEMMA InitFreed == Init => Freed
BY DEF Init, Freed

\* A call sets out with nothing freed.
LEMMA CallFreed ==
  ASSUME HeapInv, NEW fn \in Fns, NEW ptr, NEW end, NEW size, Call(fn, ptr, end, size)
  PROVE  Freed'
<1>1. /\ ptr \in Chunks /\ at' = Behind(ptr) /\ pc' = "walk"
      /\ call' = [fn |-> fn, start |-> ptr, end |-> end, size |-> size, sizes |-> Sizes]
      /\ stats' = [freed |-> 0, bytes |-> 0] /\ UNCHANGED <<used, free, top, head>>
  BY DEF Call, heapVars
<1>2. Layout
  BY DEF HeapInv
<1>3. call'.start = ptr /\ call'.sizes = Sizes /\ stats'.freed = 0 /\ stats'.bytes = 0
  BY <1>1
<1>4. DOMAIN Sizes = used /\ \A c \in used : Sizes[c] = chunk_size(c)
  BY DEF Sizes
<1>5. \A c \in used : c \in Cells /\ c \in Nat /\ (ptr < c => at' <= c)
  <2>1. \A c \in used : c \in Cells
    BY DEF Cells, Chunks
  <2> QED BY <2>1, <1>1, <1>2, StepFacts, CellFacts
<1>6. Gone(at)' = {}
  <2>1. at' \in Nat
    BY <1>1, <1>2, StepFacts, AddrFacts
  <2> QED BY <2>1, <1>3, <1>4, <1>5 DEF Gone
<1>7. Cardinality(Gone(at)') = 0
  BY <1>6, FS_EmptySet
<1>8. DOMAIN call'.sizes \subseteq Addrs
  BY <1>2, <1>3, <1>4 DEF Layout, Places
<1>9. \A c \in used' : call'.sizes[c] = chunk_size(c)'
  BY <1>1, <1>3, <1>4 DEF chunk_size
<1>10. stats'.bytes = Total(call'.sizes, Gone(at)')
  BY <1>3, <1>6, TotalEmpty
<1>11. \A c \in DOMAIN call'.sizes : call'.sizes[c] \in Nat
  <2>1. \A c \in used : chunk_size(c) \in Nat
    BY <1>2, <1>5, CellFacts
  <2> QED BY <2>1, <1>3, <1>4
<1> QED BY <1>1, <1>3, <1>4, <1>6, <1>7, <1>8, <1>9, <1>10, <1>11 DEF Freed

\* A walk that comes past nothing it should free.
LEMMA PassFreed ==
  ASSUME HeapInv, Freed, pc \in {"walk", "visit"}, call.fn = "free_everything",
         UNCHANGED <<used, free, top, head, call, stats>>, at' \in Nat, at \in Nat, at <= at',
         \A d \in used : d < at' => d < at \/ (d = at /\ ~(chunk_size(d) > call.size))
  PROVE  Freed'
<1>1. /\ DOMAIN call.sizes \subseteq Addrs
      /\ used = DOMAIN call.sizes \ Gone(at)
      /\ \A c \in used : at <= c => call.sizes[c] = chunk_size(c)
      /\ stats.freed = Cardinality(Gone(at))
      /\ \A c \in DOMAIN call.sizes : call.sizes[c] \in Nat
      /\ stats.bytes = Total(call.sizes, Gone(at))
  BY DEF Freed
<1>2. \A c \in DOMAIN call.sizes : c \in Nat
  BY <1>1, AddrFacts
<1>3. Gone(at') = Gone(at)
  <2>1. ASSUME NEW c \in Gone(at') PROVE c \in Gone(at)
    <3>1. c \in DOMAIN call.sizes /\ c < at' /\ call.start < c /\ call.sizes[c] > call.size
      BY DEF Gone
    <3>2. CASE c \in used
      <4>1. c = at => call.sizes[c] = chunk_size(c)
        BY <3>2, <1>1
      <4> QED BY <4>1, <3>1, <3>2 DEF Gone
    <3> QED BY <3>1, <3>2, <1>1
  <2>2. ASSUME NEW c \in Gone(at) PROVE c \in Gone(at')
    BY <1>2 DEF Gone
  <2> QED BY <2>1, <2>2
<1>4. Gone(at)' = Gone(at')
  BY DEF Gone
<1>5. \A c \in used' : at' <= c => call'.sizes[c] = chunk_size(c)'
  <2> SUFFICES ASSUME NEW c \in used, at' <= c PROVE call.sizes[c] = chunk_size(c)'
    OBVIOUS
  <2>1. at <= c
    BY <1>1, <1>2
  <2> QED BY <2>1, <1>1 DEF chunk_size
<1> QED BY <1>1, <1>3, <1>4, <1>5 DEF Freed

LEMMA VisitAndFreeFreed ==
  ASSUME FreedInv, VisitAndFree
  PROVE  Freed'
<1>1. /\ pc = "visit" /\ chunk_size(at) > call.size /\ call' = call
      /\ stats' = [freed |-> stats.freed + 1, bytes |-> stats.bytes + chunk_size(at)]
  BY DEF VisitAndFree
<1>2. call.fn = "free_everything" /\ at \in used /\ call.start < at
  BY <1>1 DEF FreedInv, HeapInv, Visiting
<1>3. /\ DOMAIN call.sizes \subseteq Addrs
      /\ used = DOMAIN call.sizes \ Gone(at)
      /\ \A c \in used : at <= c => call.sizes[c] = chunk_size(c)
      /\ stats.freed = Cardinality(Gone(at))
      /\ \A c \in DOMAIN call.sizes : call.sizes[c] \in Nat
      /\ stats.bytes = Total(call.sizes, Gone(at))
  BY <1>1, <1>2 DEF FreedInv, Freed
<1>4. HeapInv
  BY DEF FreedInv
<1>5. /\ HeapInv' /\ used' = used \ {at} /\ at < at'
      /\ \A d \in used' : (d < at' => d < at) /\ chunk_size(d)' = chunk_size(d)
  BY <1>4, VisitAndFreeKeepsInv
<1>6. \A c \in DOMAIN call.sizes : c \in Nat
  BY <1>3, AddrFacts
<1>7. at' \in Nat /\ at \in Nat
  <2>1. at' \in Addrs \cup {END}
    BY <1>5 DEF HeapInv, Typed
  <2> QED BY <2>1, <1>2, <1>3, <1>6, HeapAssumption, AddrFacts
<1>8. Gone(at') = Gone(at) \cup {at}
  <2>1. ASSUME NEW c \in Gone(at') PROVE c \in Gone(at) \cup {at}
    <3>1. c \in DOMAIN call.sizes /\ c < at' /\ call.start < c /\ call.sizes[c] > call.size
      BY DEF Gone
    <3>2. CASE c \in used /\ c # at
      BY <3>1, <3>2, <1>5 DEF Gone
    <3> QED BY <3>1, <3>2, <1>3
  <2>2. ASSUME NEW c \in Gone(at) PROVE c \in Gone(at')
    BY <1>5, <1>6, <1>7 DEF Gone
  <2>3. at \in Gone(at')
    <3>1. at \in DOMAIN call.sizes /\ call.sizes[at] = chunk_size(at)
      BY <1>2, <1>3, <1>7
    <3> QED BY <3>1, <1>1, <1>2, <1>5 DEF Gone
  <2> QED BY <2>1, <2>2, <2>3
<1>9. Gone(at)' = Gone(at')
  BY <1>1 DEF Gone
<1>10. used' = DOMAIN call'.sizes \ Gone(at)'
  BY <1>1, <1>3, <1>5, <1>8, <1>9
<1>11. stats'.freed = Cardinality(Gone(at)')
  <2>1. at \notin Gone(at)
    BY <1>7 DEF Gone
  <2>2. Cardinality(Gone(at) \cup {at}) = Cardinality(Gone(at)) + 1
    BY <2>1, <1>3, GoneFinite, FS_AddElement
  <2>3. stats'.freed = stats.freed + 1
    BY <1>1
  <2> QED BY <2>2, <2>3, <1>3, <1>8, <1>9
<1>12. \A c \in used' : at' <= c => call'.sizes[c] = chunk_size(c)'
  <2> SUFFICES ASSUME NEW c \in used', at' <= c PROVE call.sizes[c] = chunk_size(c)'
    BY <1>1
  <2>1. c \in used /\ at <= c
    BY <1>3, <1>5, <1>6, <1>7
  <2> QED BY <2>1, <1>3, <1>5
<1>13. stats'.bytes = Total(call'.sizes, Gone(at)')
  <2>1. at \notin Gone(at) /\ call.sizes[at] = chunk_size(at)
    BY <1>2, <1>3, <1>7 DEF Gone
  <2>2. /\ IsFiniteSet(Gone(at) \cup {at}) /\ (Gone(at) \cup {at}) \ {at} = Gone(at)
        /\ \A c \in Gone(at) \cup {at} : call.sizes[c] \in Nat
    <3>1. IsFiniteSet(Gone(at))
      BY <1>3, GoneFinite
    <3>2. Gone(at) \subseteq DOMAIN call.sizes /\ at \in DOMAIN call.sizes
      BY <1>2, <1>3 DEF Gone
    <3> QED BY <3>1, <3>2, <2>1, <1>3, FS_AddElement
  <2>3. Total(call.sizes, Gone(at) \cup {at}) = Total(call.sizes, Gone(at)) + chunk_size(at)
    BY <2>1, <2>2, TotalWithout
  <2>4. stats'.bytes = stats.bytes + chunk_size(at) /\ call'.sizes = call.sizes
    BY <1>1
  <2> QED BY <2>3, <2>4, <1>3, <1>8, <1>9
<1> QED BY <1>1, <1>3, <1>10, <1>11, <1>12, <1>13 DEF Freed

LEMMA NextFreed == FreedInv /\ [Next]_vars => FreedInv'
<1> SUFFICES ASSUME FreedInv, [Next]_vars PROVE FreedInv'
  OBVIOUS
<1>1. HeapInv /\ HeapInv'
  BY NextInv DEF FreedInv
<1>2. at \in Nat /\ at' \in Nat
  <2>1. at \in Addrs \cup {END} /\ at' \in Addrs \cup {END}
    BY <1>1 DEF HeapInv, Typed
  <2> QED BY <2>1, AddrFacts, HeapAssumption
<1>3. CASE UNCHANGED vars
  <2>1. UNCHANGED <<used, head, pc, call, at, stats>>
    BY <1>3 DEF vars
  <2>2. Freed'
    BY <2>1 DEF FreedInv, Freed, Gone, chunk_size
  <2> QED BY <2>2, <1>1 DEF FreedInv
<1>4. CASE (\E n \in SIZES : MallocFree(n) \/ MallocTop(n)) \/ (\E c \in used : Free(c))
  <2>1. pc' = "idle"
    BY <1>4 DEF MallocFree, MallocTop, Free
  <2> QED BY <2>1, <1>1 DEF FreedInv, Freed
<1>5. CASE \E ptr \in Chunks : next_used_mem(ptr) \/ next_free_mem(ptr)
  BY <1>1, <1>5, CallFreed DEF FreedInv, next_used_mem, next_free_mem, Fns
<1>6. CASE \E start \in Chunks, end \in used, size \in LIMITS : free_everything(start, end, size)
  BY <1>1, <1>6, CallFreed DEF FreedInv, free_everything, Fns
<1>7. CASE GoOn
  <2>1. pc = "walk" /\ pc' = "walk" /\ at' = Behind(at) /\ UNCHANGED <<used, free, top, head, call, stats>>
    BY <1>7 DEF GoOn, heapVars
  <2>2. CASE call.fn = "free_everything"
    <3>1. at < at' /\ \A d \in used : d < at' => d < at
      BY <1>1, <1>7, <2>2, GoOnKeepsInv
    <3> QED BY <3>1, <2>1, <2>2, <1>1, <1>2, PassFreed DEF FreedInv
  <2> QED BY <2>1, <2>2, <1>1 DEF FreedInv, Freed
<1>8. CASE Found
  <2>1. pc = "walk" /\ UNCHANGED <<used, free, top, head, stats>>
    BY <1>8 DEF Found, heapVars
  <2>2. CASE call.fn = "free_everything"
    <3>1. call' = call /\ at' = at
      BY <1>8, <2>2 DEF Found
    <3>2. \A d \in used : d < at' => d < at
      BY <3>1
    <3>3. at <= at'
      BY <3>1, <1>2
    <3> QED BY <3>1, <3>2, <3>3, <2>1, <2>2, <1>1, <1>2, PassFreed DEF FreedInv
  <2>3. CASE call.fn # "free_everything"
    <3>1. pc' = "idle"
      BY <1>8, <2>3 DEF Found
    <3> QED BY <3>1, <1>1 DEF FreedInv, Freed
  <2> QED BY <2>2, <2>3
<1>9. CASE Dies \/ Return
  <2>1. pc' \in {"segv", "idle"}
    BY <1>9 DEF Dies, Return
  <2> QED BY <2>1, <1>1 DEF FreedInv, Freed
<1>10. CASE VisitAndFree
  BY <1>1, <1>10, VisitAndFreeFreed DEF FreedInv
<1>11. CASE VisitAndKeep
  <2>1. pc = "visit" /\ chunk_size(at) <= call.size /\ UNCHANGED <<used, free, top, head, call, stats>>
    BY <1>11 DEF VisitAndKeep, heapVars
  <2>2. call.fn = "free_everything" /\ at \in used /\ call.size \in Int
    BY <2>1, <1>1 DEF HeapInv, Visiting, Typed
  <2>3. at < at' /\ \A d \in used : d < at' => d < at \/ d = at
    BY <1>1, <1>11, VisitAndKeepKeepsInv
  <2>4. ~(chunk_size(at) > call.size)
    <3>1. chunk_size(at) \in Nat
      BY <1>1, <2>2, CellFacts DEF HeapInv, Cells, Chunks
    <3> QED BY <3>1, <2>1, <2>2
  <2>5. \A d \in used : d < at' => d < at \/ (d = at /\ ~(chunk_size(d) > call.size))
    BY <2>3, <2>4
  <2>6. HeapInv /\ Freed /\ pc \in {"walk", "visit"} /\ at <= at'
    BY <2>1, <2>3, <1>2 DEF FreedInv
  <2>7. Freed'
    BY <2>1, <2>2, <2>5, <2>6, <1>2, PassFreed
  <2> QED BY <2>7, <1>1 DEF FreedInv
<1> QED BY <1>3, <1>4, <1>5, <1>6, <1>7, <1>8, <1>9, <1>10, <1>11 DEF Next, Walk

LEMMA SpecFreed == Spec => []FreedInv
<1>1. Init => FreedInv
  BY InitInv, InitFreed DEF FreedInv
<1> QED BY <1>1, NextFreed, PTL DEF Spec

\* When free_everything returns, of the chunks that were in use when it was
\* called those strictly between start and end and larger than size are free,
\* and no other; and it says how many (hw3.c:132-142).
THEOREM Spec_FreesExactly == Spec => FreesExactly
<1>1. FreedInv => (Return => /\ used = DOMAIN call.sizes \ Gone(call.end)
                             /\ stats.freed = Cardinality(Gone(call.end)))
  <2> SUFFICES ASSUME FreedInv, Return
               PROVE  /\ used = DOMAIN call.sizes \ Gone(call.end)
                      /\ stats.freed = Cardinality(Gone(call.end))
    OBVIOUS
  <2>1. pc = "visit" /\ at = call.end
    BY DEF Return
  <2>2. call.fn = "free_everything"
    BY <2>1 DEF FreedInv, HeapInv, Visiting
  <2> QED BY <2>1, <2>2 DEF FreedInv, Freed
<1> QED BY <1>1, SpecFreed, PTL DEF FreesExactly

\* And it says how many bytes they had before any of them was merged, in
\* whatever order they are added up (hw3.c:136-142).
THEOREM Spec_CountsBytes == Spec => CountsBytes
<1>1. FreedInv => (Return => stats.bytes
                    = MapThenSumSet(LAMBDA c : call.sizes[c], Gone(call.end)))
  <2> SUFFICES ASSUME FreedInv, Return
               PROVE  stats.bytes = Total(call.sizes, Gone(call.end))
    BY DEF Total
  <2>1. pc = "visit" /\ at = call.end
    BY DEF Return
  <2>2. call.fn = "free_everything"
    BY <2>1 DEF FreedInv, HeapInv, Visiting
  <2> QED BY <2>1, <2>2 DEF FreedInv, Freed
<1> QED BY <1>1, SpecFreed, PTL DEF CountsBytes

=============================================================================
