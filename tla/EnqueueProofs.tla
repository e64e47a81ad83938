---------------------------- MODULE EnqueueProofs ----------------------------
(***************************************************************************)
(* Theorems about Enqueue: what a key says of the payload it was derived   *)
(* from, and what the server may therefore make of equal keys.             *)
(***************************************************************************)
EXTENDS Enqueue, OrderLemmas

-----------------------------------------------------------------------------
(* Paths. *)

\* A prefix, step by step.
LEMMA PrefixOf ==
  ASSUME NEW s \in Path, NEW p \in Path
  PROVE  IsPrefix(s, p) <=> Len(s) <= Len(p) /\ \A i \in 1..Len(s) : s[i] = p[i]
<1>1. CASE Len(s) <= Len(p)
  <2>1. /\ Len(s) \in Nat /\ Len(p) \in Nat /\ \A i \in 1..Len(s) : i \in 1..Len(p)
        /\ \A i \in 1..Len(p) : p[i] \in STRING
        /\ \A i \in 1..Len(s) : s[i] \in STRING
    BY <1>1, ElementOfSeq, LenProperties DEF Path
  <2>2. /\ SubSeq(p, 1, Len(s)) \in Path /\ Len(SubSeq(p, 1, Len(s))) = Len(s)
        /\ \A i \in 1..Len(s) : SubSeq(p, 1, Len(s))[i] = p[i]
    BY <1>1, Prefix DEF Path
  <2>3. SubSeq(s, 1, Len(s)) = s
    BY SubSeqFull DEF Path
  <2>4. (\A i \in 1..Len(s) : s[i] = p[i]) => SubSeq(p, 1, Len(s)) = s
    BY <2>2, SeqEqual DEF Path
  <2> QED
    BY <1>1, <2>2, <2>3, <2>4 DEF IsPrefix
<1> QED
  BY <1>1 DEF IsPrefix

\* A path that another starts with, and the rest.
LEMMA Split ==
  ASSUME NEW s \in Path, NEW p \in Path, IsPrefix(s, p)
  PROVE  /\ SubSeq(p, Len(s) + 1, Len(p)) \in Path
         /\ s \o SubSeq(p, Len(s) + 1, Len(p)) = p
<1>1. Len(s) \in Nat /\ Len(p) \in Nat /\ Len(s) <= Len(p) /\ SubSeq(p, 1, Len(s)) = s
  BY LenProperties, SubSeqFull DEF Path, IsPrefix
<1>2. SubSeq(p, Len(s) + 1, Len(p)) \in Path
  BY <1>1, SubSeqProperties, ElementOfSeq DEF Path
<1>3. SubSeq(p, 1, Len(s)) \o SubSeq(p, Len(s) + 1, Len(p)) = SubSeq(p, 1, Len(p))
  <2>1. p \in Seq(STRING) /\ 1 \in 1..Len(p) + 1 /\ Len(s) \in 1 - 1..Len(p) /\ Len(p) \in Len(s)..Len(p)
    BY <1>1 DEF Path
  <2> QED
    BY <2>1, ConcatAdjacentSubSeq
<1> QED
  BY <1>1, <1>2, <1>3, SubSeqFull DEF Path

LEMMA Joined ==
  ASSUME NEW s \in Path, NEW q \in Path
  PROVE  /\ s \o q \in Path /\ IsPrefix(s, s \o q)
         /\ SubSeq(s \o q, Len(s) + 1, Len(s \o q)) = q
<1>1. /\ s \o q \in Path /\ Len(s \o q) = Len(s) + Len(q) /\ Len(s) \in Nat /\ Len(q) \in Nat
      /\ \A i \in 1..Len(s) + Len(q) : (s \o q)[i] = IF i <= Len(s) THEN s[i] ELSE q[i - Len(s)]
  BY ConcatProperties, LenProperties DEF Path
<1>2. IsPrefix(s, s \o q)
  <2>1. Len(s) <= Len(s \o q) /\ \A i \in 1..Len(s) : s[i] = (s \o q)[i]
    BY <1>1
  <2> QED
    BY <1>1, <2>1, PrefixOf
<1>3. /\ SubSeq(s \o q, Len(s) + 1, Len(s \o q)) \in Path
      /\ s \o SubSeq(s \o q, Len(s) + 1, Len(s \o q)) = s \o q
  BY <1>1, <1>2, Split
<1> QED
  BY <1>1, <1>2, <1>3, ConcatSimplifications DEF Path

\* Whatever is at a path has something at each prefix of it.
LEMMA Enclosed ==
  ASSUME NEW v, Json(v), NEW s \in Path, NEW p \in DOMAIN v, IsPrefix(s, p)
  PROVE  s \in DOMAIN v
<1>1. p \in Path /\ Len(s) \in Nat /\ Len(p) \in Nat /\ Len(s) <= Len(p)
  BY LenProperties DEF Json, Path, IsPrefix
<1>2. SubSeq(p, 1, Len(s)) = s
  BY SubSeqFull DEF IsPrefix, Path
<1>3. Len(s) \in 0..Len(p)
  BY <1>1
<1>4. SubSeq(p, 1, Len(s)) \in DOMAIN v
  BY <1>3 DEF Json
<1> QED
  BY <1>2, <1>4

\* The value at a path.
LEMMA WalkAt ==
  ASSUME NEW v, DOMAIN v \subseteq Path, NEW s \in Path
  PROVE  /\ DOMAIN walk(v, s) = {q \in Path : s \o q \in DOMAIN v}
         /\ \A q \in DOMAIN walk(v, s) : walk(v, s)[q] = v[s \o q]
<1>1. DOMAIN walk(v, s) = {SubSeq(p, Len(s) + 1, Len(p)) : p \in Under(v, s)}
  BY DEF walk, Below
<1>2. ASSUME NEW q \in DOMAIN walk(v, s) PROVE q \in Path /\ s \o q \in DOMAIN v
  BY <1>1, <1>2, Split DEF Under
<1>3. ASSUME NEW q \in Path, s \o q \in DOMAIN v PROVE q \in DOMAIN walk(v, s)
  BY <1>1, <1>3, Joined DEF Under
<1>4. \A q \in DOMAIN walk(v, s) : walk(v, s)[q] = v[s \o q]
  BY DEF walk, Below
<1> QED
  BY <1>2, <1>3, <1>4

\* Two values have the same at a path just if they have the same below it.
LEMMA WalkSame ==
  ASSUME NEW v, NEW w, DOMAIN v \subseteq Path, DOMAIN w \subseteq Path, NEW s \in Path
  PROVE  walk(v, s) = walk(w, s) <=>
           \A p \in Path : IsPrefix(s, p) =>
             /\ p \in DOMAIN v <=> p \in DOMAIN w
             /\ p \in DOMAIN v => v[p] = w[p]
<1>a. /\ \A q \in Path : q \in DOMAIN walk(v, s) <=> s \o q \in DOMAIN v
      /\ \A q \in DOMAIN walk(v, s) : q \in Path /\ walk(v, s)[q] = v[s \o q]
  BY WalkAt
<1>b. /\ \A q \in Path : q \in DOMAIN walk(w, s) <=> s \o q \in DOMAIN w
      /\ \A q \in DOMAIN walk(w, s) : q \in Path /\ walk(w, s)[q] = w[s \o q]
  BY WalkAt
<1>1. ASSUME walk(v, s) = walk(w, s), NEW p \in Path, IsPrefix(s, p)
      PROVE  /\ p \in DOMAIN v <=> p \in DOMAIN w
             /\ p \in DOMAIN v => v[p] = w[p]
  <2>1. PICK q \in Path : s \o q = p
    BY <1>1, Split
  <2> QED
    BY <1>1, <2>1, <1>a, <1>b
<1>2. ASSUME \A p \in Path : IsPrefix(s, p) =>
               /\ p \in DOMAIN v <=> p \in DOMAIN w
               /\ p \in DOMAIN v => v[p] = w[p]
      PROVE  walk(v, s) = walk(w, s)
  <2>1. \A q \in Path : s \o q \in Path /\ IsPrefix(s, s \o q)
    BY Joined
  <2>2. DOMAIN walk(v, s) = DOMAIN walk(w, s)
    BY <1>2, <2>1, <1>a, <1>b
  <2>3. \A q \in DOMAIN walk(v, s) : walk(v, s)[q] = walk(w, s)[q]
    BY <1>2, <2>1, <2>2, <1>a, <1>b
  <2>4. /\ walk(v, s) = [q \in DOMAIN walk(v, s) |-> walk(v, s)[q]]
        /\ walk(w, s) = [q \in DOMAIN walk(w, s) |-> walk(w, s)[q]]
    BY DEF walk, Below
  <2> QED
    BY <2>2, <2>3, <2>4
<1> QED
  BY <1>1, <1>2

-----------------------------------------------------------------------------
(* Picking. *)

\* The containers setPath adds.
Above(target, s) == {SubSeq(s, 1, n) : n \in 0..Len(s) - 1} \ DOMAIN target

\* A part of one value is put into another, and the rest of that is kept.
PutAt(v, s, target, t) ==
  /\ DOMAIN t = (DOMAIN target \ Under(target, s)) \cup Under(v, s) \cup Above(target, s)
  /\ DOMAIN t \subseteq Path /\ Above(target, s) \subseteq DOMAIN v
  /\ \A p \in Under(v, s) : t[p] = v[p]
  /\ \A p \in DOMAIN target \ Under(target, s) : t[p] = target[p]

LEMMA SetPathAt ==
  ASSUME NEW v, Json(v), NEW s \in DOMAIN v, NEW target, DOMAIN target \subseteq Path,
         NEW t, t = setPath(target, s, walk(v, s))
  PROVE  PutAt(v, s, target, t)
<1> DEFINE w == walk(v, s)
           new == {s \o q : q \in DOMAIN w}
           kept == DOMAIN target \ Under(target, s)
           placed == Placed(target, s, w)
<1>1. s \in Path /\ DOMAIN v \subseteq Path
  BY DEF Json
<1>a. /\ \A q \in Path : q \in DOMAIN w <=> s \o q \in DOMAIN v
      /\ \A q \in DOMAIN w : q \in Path /\ w[q] = v[s \o q]
  BY <1>1, WalkAt
<1>b. \A q \in Path : IsPrefix(s, s \o q) /\ SubSeq(s \o q, Len(s) + 1, Len(s \o q)) = q
  BY <1>1, Joined
<1> HIDE DEF w
<1>2. new = Under(v, s)
  <2>1. \A q \in DOMAIN w : q \in Path /\ s \o q \in DOMAIN v /\ IsPrefix(s, s \o q)
    BY <1>a, <1>b
  <2>2. ASSUME NEW p \in Under(v, s) PROVE p \in new
    <3>1. PICK q \in Path : s \o q = p
      BY <1>1, Split DEF Under
    <3>2. q \in DOMAIN w
      BY <3>1, <1>a DEF Under
    <3> QED
      BY <3>1, <3>2
  <2> QED
    BY <2>1, <2>2 DEF Under
<1>3. /\ DOMAIN placed = kept \cup new
      /\ \A p \in new : placed[p] = w[SubSeq(p, Len(s) + 1, Len(p))]
      /\ \A p \in kept \ new : placed[p] = target[p]
  BY DEF Placed
<1>4. \A p \in new : placed[p] = v[p]
  <2> TAKE p \in new
  <2>1. PICK q \in DOMAIN w : p = s \o q
    OBVIOUS
  <2>2. q \in Path /\ w[q] = v[p] /\ SubSeq(p, Len(s) + 1, Len(p)) = q
    BY <2>1, <1>a, <1>b
  <2> QED
    BY <1>3, <2>2
<1>5. kept \cap new = {}
  BY <1>1, <1>2 DEF Under
<1>6. /\ DOMAIN t = DOMAIN placed \cup Above(target, s)
      /\ \A p \in DOMAIN placed \ Above(target, s) : t[p] = placed[p]
  BY DEF setPath, Above, w
<1>7. Above(target, s) \subseteq DOMAIN v
  <2>1. Len(s) \in Nat
    BY <1>1, LenProperties DEF Path
  <2>2. \A n \in 0..Len(s) - 1 : n \in 0..Len(s)
    BY <2>1
  <2>3. \A n \in 0..Len(s) : SubSeq(s, 1, n) \in DOMAIN v
    BY DEF Json
  <2> QED
    BY <2>2, <2>3 DEF Above
<1>8. Above(target, s) \cap Under(v, s) = {}
  <2> SUFFICES ASSUME NEW n \in 0..Len(s) - 1, IsPrefix(s, SubSeq(s, 1, n)) PROVE FALSE
    BY DEF Above, Under
  <2>1. Len(s) \in Nat /\ Len(SubSeq(s, 1, n)) = n
    BY <1>1, Prefix, LenProperties DEF Path
  <2> QED
    BY <2>1 DEF IsPrefix
<1>9. Above(target, s) \cap kept = {}
  BY DEF Above
<1>10. DOMAIN t \subseteq Path
  BY <1>1, <1>2, <1>3, <1>6, <1>7 DEF Under
<1> HIDE DEF placed
<1>11. /\ \A p \in Under(v, s) : t[p] = v[p]
       /\ \A p \in kept : t[p] = target[p]
  BY <1>2, <1>3, <1>4, <1>5, <1>6, <1>8, <1>9
<1>12. DOMAIN t = kept \cup Under(v, s) \cup Above(target, s)
  BY <1>2, <1>3, <1>6
<1> QED
  BY <1>7, <1>10, <1>11, <1>12 DEF PutAt

\* The loop of pickPaths, turn by turn: its function exists for each length.
LEMMA PickingDef ==
  ASSUME NEW v, NEW paths, Len(paths) \in Nat
  PROVE  /\ Picking(v, paths)[0] = Without(v, DOMAIN v)
         /\ \A n \in 1..Len(paths) :
              Picking(v, paths)[n] =
                IF Under(v, paths[n]) = {} THEN Picking(v, paths)[n - 1]
                ELSE setPath(Picking(v, paths)[n - 1], paths[n], walk(v, paths[n]))
<1> DEFINE N == Len(paths)
           turn(f, n) == IF n = 0 THEN Without(v, DOMAIN v)
                         ELSE IF Under(v, paths[n]) = {} THEN f[n - 1]
                         ELSE setPath(f[n - 1], paths[n], walk(v, paths[n]))
           Runs(m) == \E f : f = [n \in 0..m |-> turn(f, n)]
           Bad == {m \in Nat : ~Runs(m)}
<1>1. ASSUME NEW m \in Nat, m # 0, Runs(m - 1) PROVE Runs(m)
  <2>1. PICK f : f = [n \in 0..m - 1 |-> turn(f, n)]
    BY <1>1
  <2> DEFINE g == [n \in 0..m |-> IF n = m THEN turn(f, m) ELSE f[n]]
  <2>2. \A n \in 0..m - 1 : g[n] = f[n]
    BY <1>1
  <2>3. ASSUME NEW n \in 0..m PROVE g[n] = turn(g, n)
    <3>1. n # 0 => n - 1 \in 0..m - 1
      BY <1>1
    <3>2. turn(g, n) = turn(f, n)
      BY <2>2, <3>1
    <3>3. CASE n = m
      BY <3>2, <3>3
    <3>4. CASE n # m
      <4>1. n \in 0..m - 1
        BY <3>4, <1>1
      <4> QED
        BY <2>1, <2>2, <3>2, <4>1
    <3> QED
      BY <3>3, <3>4
  <2>4. g = [n \in 0..m |-> turn(g, n)]
    BY <2>3
  <2> QED
    BY <2>4
<1>2. Runs(0)
  <2> DEFINE g == [n \in 0..0 |-> Without(v, DOMAIN v)]
  <2>1. g = [n \in 0..0 |-> turn(g, n)]
    OBVIOUS
  <2> QED
    BY <2>1
<1>3. Bad = {}
  <2> HIDE DEF Runs
  <2> SUFFICES ASSUME Bad # {} PROVE FALSE
    OBVIOUS
  <2>1. PICK m \in Bad : \A k \in Bad : m <= k
    BY LeastExists
  <2>2. m # 0 /\ m - 1 \in Nat /\ m - 1 \notin Bad
    BY <1>2, <2>1
  <2> QED
    BY <1>1, <2>1, <2>2
<1>4. \E f : f = [n \in 0..N |-> turn(f, n)]
  BY <1>3
<1>5. Picking(v, paths) = [n \in 0..N |-> turn(Picking(v, paths), n)]
  BY <1>4 DEF Picking
<1>6. \A n \in 0..N : Picking(v, paths)[n] = turn(Picking(v, paths), n)
  BY <1>5
<1>7. 0 \in 0..N /\ \A n \in 1..N : n \in 0..N /\ n # 0
  OBVIOUS
<1> QED
  BY <1>6, <1>7

\* The target so far has, of the value, what is at the paths so far and perhaps
\* containers around it.
PickedOK(v, paths, n, t) ==
  /\ DOMAIN t \subseteq DOMAIN v
  /\ \A i \in 1..n : \A p \in Path : IsPrefix(paths[i], p) =>
       /\ p \in DOMAIN t <=> p \in DOMAIN v
       /\ p \in DOMAIN v => t[p] = v[p]

LEMMA PickStep ==
  ASSUME NEW v, Json(v), NEW paths \in Seq(Path), NEW n \in 1..Len(paths),
         PickedOK(v, paths, n - 1, Picking(v, paths)[n - 1])
  PROVE  PickedOK(v, paths, n, Picking(v, paths)[n])
<1> DEFINE s == paths[n]
           old == Picking(v, paths)[n - 1]
           t == Picking(v, paths)[n]
<1>1. /\ Len(paths) \in Nat /\ n \in Nat /\ n # 0 /\ n \in 0..Len(paths)
      /\ \A i \in 1..n : i \in 1..n - 1 \/ i = n
      /\ \A i \in 1..Len(paths) : paths[i] \in Path
  BY LenProperties, ElementOfSeq
<1>2. t = IF Under(v, s) = {} THEN old ELSE setPath(old, s, walk(v, s))
  BY <1>1, PickingDef
<1>3. DOMAIN v \subseteq Path /\ s \in Path /\ DOMAIN old \subseteq DOMAIN v
  BY <1>1 DEF Json, PickedOK
<1>4. \A i \in 1..n - 1 : \A p \in Path : IsPrefix(paths[i], p) =>
        /\ p \in DOMAIN old <=> p \in DOMAIN v
        /\ p \in DOMAIN v => old[p] = v[p]
  BY DEF PickedOK
<1> HIDE DEF s, old, t
<1>5. CASE Under(v, s) = {}
  <2>1. t = old
    BY <1>2, <1>5
  <2>2. \A p \in Path : IsPrefix(s, p) => p \notin DOMAIN v /\ p \notin DOMAIN old
    BY <1>3, <1>5 DEF Under
  <2>3. \A i \in 1..n : \A p \in Path : IsPrefix(paths[i], p) =>
          /\ p \in DOMAIN t <=> p \in DOMAIN v
          /\ p \in DOMAIN v => t[p] = v[p]
    BY <1>1, <1>4, <2>1, <2>2 DEF s
  <2> QED
    BY <1>3, <2>1, <2>3 DEF PickedOK, t
<1>6. CASE Under(v, s) # {}
  <2>1. s \in DOMAIN v
    BY <1>3, <1>6, Enclosed DEF Under
  <2>a. DOMAIN old \subseteq Path /\ t = setPath(old, s, walk(v, s))
    BY <1>2, <1>3, <1>6
  <2>b. PutAt(v, s, old, t)
    BY <2>1, <2>a, SetPathAt
  <2>2. /\ DOMAIN t = (DOMAIN old \ Under(old, s)) \cup Under(v, s) \cup Above(old, s)
        /\ Above(old, s) \subseteq DOMAIN v
        /\ \A p \in Under(v, s) : t[p] = v[p]
        /\ \A p \in DOMAIN old \ Under(old, s) : t[p] = old[p]
    BY <2>b DEF PutAt
  <2>3. DOMAIN t \subseteq DOMAIN v
    BY <1>3, <2>2 DEF Under
  <2>4. \A p \in Above(old, s) : p \notin DOMAIN old
    BY DEF Above
  <2>5. ASSUME NEW i \in 1..n, NEW p \in Path, IsPrefix(paths[i], p)
        PROVE  /\ p \in DOMAIN t <=> p \in DOMAIN v
               /\ p \in DOMAIN v => t[p] = v[p]
    <3>1. CASE IsPrefix(s, p)
      BY <2>2, <2>3, <3>1 DEF Under
    <3>2. CASE ~IsPrefix(s, p)
      <4>1. i \in 1..n - 1
        BY <1>1, <2>5, <3>2 DEF s
      <4>2. /\ p \in DOMAIN old <=> p \in DOMAIN v
            /\ p \in DOMAIN v => old[p] = v[p]
        BY <1>4, <2>5, <4>1
      <4> QED
        BY <2>2, <2>3, <2>4, <3>2, <4>2 DEF Under
    <3> QED
      BY <3>1, <3>2
  <2> QED
    BY <2>3, <2>5 DEF PickedOK, t
<1> QED
  BY <1>5, <1>6

LEMMA PickLoop ==
  ASSUME NEW v, Json(v), NEW paths \in Seq(Path)
  PROVE  \A n \in 0..Len(paths) : PickedOK(v, paths, n, Picking(v, paths)[n])
<1> DEFINE Right(n) == PickedOK(v, paths, n, Picking(v, paths)[n])
           Bad == {n \in 0..Len(paths) : ~Right(n)}
<1>1. Len(paths) \in Nat
  BY LenProperties
<1>2. Right(0)
  <2>1. DOMAIN Picking(v, paths)[0] = {}
    BY <1>1, PickingDef DEF Without
  <2> QED
    BY <2>1 DEF PickedOK
<1>3. \A n \in 1..Len(paths) : Right(n - 1) => Right(n)
  BY PickStep
<1> HIDE DEF Right
<1>4. Bad = {}
  <2> SUFFICES ASSUME Bad # {} PROVE FALSE
    OBVIOUS
  <2>a. Bad \in SUBSET Nat
    BY <1>1
  <2>1. PICK n \in Bad : \A k \in Bad : n <= k
    BY <2>a, LeastExists
  <2>2. n \in 1..Len(paths) /\ n - 1 \in 0..Len(paths) /\ n - 1 \notin Bad
    BY <1>1, <1>2, <2>1
  <2> QED
    BY <1>3, <2>1, <2>2
<1> QED
  BY <1>4 DEF Right

\* What pickPaths keeps: at each of the paths what the payload has there.
LEMMA PickKeeps ==
  ASSUME NEW v, Json(v), NEW paths \in Seq(Path), NEW i \in 1..Len(paths)
  PROVE  /\ DOMAIN pickPaths(v, paths) \subseteq Path
         /\ walk(pickPaths(v, paths), paths[i]) = walk(v, paths[i])
<1> DEFINE s == paths[i]
           t == Picking(v, paths)[Len(paths)]
<1>1. /\ Len(paths) \in Nat /\ Len(paths) \in 0..Len(paths) /\ s \in Path
      /\ Range(paths) = {paths[j] : j \in 1..Len(paths)}
      /\ DOMAIN v \subseteq Path
  BY LenProperties, ElementOfSeq, RangeEquality DEF Json
<1>2. PickedOK(v, paths, Len(paths), t)
  BY <1>1, PickLoop
<1>3. CASE <<>> \in Range(paths)
  BY <1>1, <1>3 DEF pickPaths
<1>4. CASE <<>> \notin Range(paths)
  <2>1. s # <<>>
    BY <1>1, <1>4
  <2>2. /\ DOMAIN t \subseteq Path
        /\ \A p \in Path : IsPrefix(s, p) =>
             /\ p \in DOMAIN t <=> p \in DOMAIN v
             /\ p \in DOMAIN t => t[p] = v[p]
    BY <1>1, <1>2 DEF PickedOK
  <2> HIDE DEF s, t
  <2>3. CASE DOMAIN t # {}
    <3>1. pickPaths(v, paths) = t
      BY <1>4, <2>3 DEF pickPaths, t
    <3>2. walk(t, s) = walk(v, s)
      BY <1>1, <2>2, WalkSame
    <3> QED
      BY <2>2, <3>1, <3>2 DEF s
  <2>4. CASE DOMAIN t = {}
    <3> DEFINE r == [p \in {<<>>} |-> "{}"]
    <3>1. pickPaths(v, paths) = r
      BY <1>4, <2>4 DEF pickPaths, t
    <3>2. DOMAIN r = {<<>>} /\ <<>> \in Path
      BY EmptySeq DEF Path
    <3>3. ~IsPrefix(s, <<>>)
      <4>1. Len(s) \in Nat \ {0} /\ Len(<<>>) = 0
        BY <1>1, <2>1, EmptySeq DEF Path
      <4> QED
        BY <4>1 DEF IsPrefix
    <3>4. \A p \in Path : IsPrefix(s, p) => p \notin DOMAIN r /\ p \notin DOMAIN v
      BY <2>2, <2>4, <3>2, <3>3
    <3>5. walk(r, s) = walk(v, s)
      BY <1>1, <3>2, <3>4, WalkSame
    <3> QED
      BY <3>1, <3>2, <3>5 DEF s
  <2> QED
    BY <2>3, <2>4
<1> QED
  BY <1>3, <1>4

\* What pickPaths makes depends on nothing but what it picks.
LEMMA PickLoopSame ==
  ASSUME NEW v, Json(v), NEW w, Json(w), NEW paths \in Seq(Path),
         \A i \in 1..Len(paths) : walk(v, paths[i]) = walk(w, paths[i])
  PROVE  \A n \in 0..Len(paths) : Picking(v, paths)[n] = Picking(w, paths)[n]
<1> DEFINE Bad == {n \in 0..Len(paths) : Picking(v, paths)[n] # Picking(w, paths)[n]}
<1>1. /\ Len(paths) \in Nat /\ Bad \in SUBSET Nat
      /\ \A i \in 1..Len(paths) : paths[i] \in Path
      /\ DOMAIN v \subseteq Path /\ DOMAIN w \subseteq Path
  BY LenProperties, ElementOfSeq DEF Json
<1>2. 0 \notin Bad
  <2>1. Without(v, DOMAIN v) = Without(w, DOMAIN w)
    BY DEF Without
  <2> QED
    BY <1>1, <2>1, PickingDef
<1>3. ASSUME NEW n \in 1..Len(paths), n - 1 \notin Bad PROVE n \notin Bad
  <2>1. n \in 0..Len(paths) /\ n - 1 \in 0..Len(paths)
    BY <1>1
  <2>2. Picking(v, paths)[n - 1] = Picking(w, paths)[n - 1]
    BY <1>3, <2>1
  <2>3. Under(v, paths[n]) = {} <=> Under(w, paths[n]) = {}
    <3>1. \A p \in Path : IsPrefix(paths[n], p) => (p \in DOMAIN v <=> p \in DOMAIN w)
      BY <1>1, <1>3, WalkSame
    <3> QED
      BY <1>1, <3>1 DEF Under
  <2>4. Picking(v, paths)[n] = Picking(w, paths)[n]
    <3>1. Picking(v, paths)[n] = IF Under(v, paths[n]) = {} THEN Picking(v, paths)[n - 1]
            ELSE setPath(Picking(v, paths)[n - 1], paths[n], walk(v, paths[n]))
      BY <1>1, PickingDef
    <3>2. Picking(w, paths)[n] = IF Under(w, paths[n]) = {} THEN Picking(w, paths)[n - 1]
            ELSE setPath(Picking(w, paths)[n - 1], paths[n], walk(w, paths[n]))
      BY <1>1, PickingDef
    <3> QED
      BY <2>2, <2>3, <3>1, <3>2
  <2> QED
    BY <2>4
<1>4. Bad = {}
  <2> SUFFICES ASSUME Bad # {} PROVE FALSE
    OBVIOUS
  <2>1. PICK n \in Bad : \A k \in Bad : n <= k
    BY <1>1, LeastExists
  <2> HIDE DEF Bad
  <2>2. n \in 0..Len(paths) /\ n # 0
    BY <1>2, <2>1 DEF Bad
  <2>3. n \in 1..Len(paths) /\ n - 1 \notin Bad
    BY <1>1, <2>1, <2>2
  <2> QED
    BY <1>3, <2>1, <2>3
<1> QED
  BY <1>4

LEMMA PickAgree ==
  ASSUME NEW v, Json(v), NEW w, Json(w), NEW paths \in Seq(Path)
  PROVE  pickPaths(v, paths) = pickPaths(w, paths) <=>
           \A s \in Range(paths) : walk(v, s) = walk(w, s)
<1>1. /\ Len(paths) \in Nat /\ Range(paths) = {paths[i] : i \in 1..Len(paths)}
      /\ Len(paths) \in 0..Len(paths)
  BY LenProperties, RangeEquality
<1>2. ASSUME pickPaths(v, paths) = pickPaths(w, paths), NEW s \in Range(paths)
      PROVE  walk(v, s) = walk(w, s)
  <2>1. PICK i \in 1..Len(paths) : s = paths[i]
    BY <1>1
  <2>2. walk(pickPaths(v, paths), paths[i]) = walk(v, paths[i])
    BY PickKeeps
  <2>3. walk(pickPaths(w, paths), paths[i]) = walk(w, paths[i])
    BY PickKeeps
  <2> QED
    BY <1>2, <2>1, <2>2, <2>3
<1>3. ASSUME \A s \in Range(paths) : walk(v, s) = walk(w, s)
      PROVE  pickPaths(v, paths) = pickPaths(w, paths)
  <2>1. Picking(v, paths)[Len(paths)] = Picking(w, paths)[Len(paths)]
    <3>1. \A i \in 1..Len(paths) : walk(v, paths[i]) = walk(w, paths[i])
      BY <1>1, <1>3
    <3> QED
      BY <1>1, <3>1, PickLoopSame
  <2>2. <<>> \in Range(paths) => v = w
    <3> SUFFICES ASSUME walk(v, <<>>) = walk(w, <<>>) PROVE v = w
      BY <1>3
    <3>1. <<>> \in Path /\ DOMAIN v \subseteq Path /\ DOMAIN w \subseteq Path
      BY EmptySeq DEF Path, Json
    <3>2. \A p \in Path : IsPrefix(<<>>, p)
      <4>1. \A p \in Path : Len(<<>>) <= Len(p) /\ \A i \in 1..Len(<<>>) : <<>>[i] = p[i]
        BY EmptySeq, LenProperties DEF Path
      <4> QED
        BY <3>1, <4>1, PrefixOf
    <3>3. \A p \in Path : (p \in DOMAIN v <=> p \in DOMAIN w) /\ (p \in DOMAIN v => v[p] = w[p])
      BY <3>1, <3>2, WalkSame
    <3> QED
      BY <3>1, <3>3 DEF Json
  <2> QED
    BY <2>1, <2>2 DEF pickPaths
<1> QED
  BY <1>2, <1>3

-----------------------------------------------------------------------------
(* Leaving out. *)

LEMMA DeletingDef ==
  ASSUME NEW v, NEW paths, Len(paths) \in Nat
  PROVE  /\ Deleting(v, paths)[0] = v
         /\ \A n \in 1..Len(paths) :
              Deleting(v, paths)[n] = deletePath(Deleting(v, paths)[n - 1], paths[n])
<1> DEFINE N == Len(paths)
           turn(f, n) == IF n = 0 THEN v ELSE deletePath(f[n - 1], paths[n])
           Runs(m) == \E f : f = [n \in 0..m |-> turn(f, n)]
           Bad == {m \in Nat : ~Runs(m)}
<1>1. ASSUME NEW m \in Nat, m # 0, Runs(m - 1) PROVE Runs(m)
  <2>1. PICK f : f = [n \in 0..m - 1 |-> turn(f, n)]
    BY <1>1
  <2> DEFINE g == [n \in 0..m |-> IF n = m THEN turn(f, m) ELSE f[n]]
  <2>2. \A n \in 0..m - 1 : g[n] = f[n]
    BY <1>1
  <2>3. ASSUME NEW n \in 0..m PROVE g[n] = turn(g, n)
    <3>1. n # 0 => n - 1 \in 0..m - 1
      BY <1>1
    <3>2. turn(g, n) = turn(f, n)
      BY <2>2, <3>1
    <3>3. CASE n = m
      BY <3>2, <3>3
    <3>4. CASE n # m
      <4>1. n \in 0..m - 1
        BY <3>4, <1>1
      <4> QED
        BY <2>1, <2>2, <3>2, <4>1
    <3> QED
      BY <3>3, <3>4
  <2>4. g = [n \in 0..m |-> turn(g, n)]
    BY <2>3
  <2> QED
    BY <2>4
<1>2. Runs(0)
  <2> DEFINE g == [n \in 0..0 |-> v]
  <2>1. g = [n \in 0..0 |-> turn(g, n)]
    OBVIOUS
  <2> QED
    BY <2>1
<1>3. Bad = {}
  <2> HIDE DEF Runs
  <2> SUFFICES ASSUME Bad # {} PROVE FALSE
    OBVIOUS
  <2>1. PICK m \in Bad : \A k \in Bad : m <= k
    BY LeastExists
  <2>2. m # 0 /\ m - 1 \in Nat /\ m - 1 \notin Bad
    BY <1>2, <2>1
  <2> QED
    BY <1>1, <2>1, <2>2
<1>4. \E f : f = [n \in 0..N |-> turn(f, n)]
  BY <1>3
<1>5. Deleting(v, paths) = [n \in 0..N |-> turn(Deleting(v, paths), n)]
  BY <1>4 DEF Deleting
<1>6. \A n \in 0..N : Deleting(v, paths)[n] = turn(Deleting(v, paths), n)
  BY <1>5
<1>7. 0 \in 0..N /\ \A n \in 1..N : n \in 0..N /\ n # 0
  OBVIOUS
<1> QED
  BY <1>6, <1>7

\* A value without what is at the first n paths.
Pruned(v, paths, n) == {p \in DOMAIN v : \A i \in 1..n : ~IsPrefix(paths[i], p)}
Null == [p \in {<<>>} |-> "null"]

\* What is left of a value when no path to leave out is an array element; the
\* root leaves null.
Left(v, paths, n) ==
  IF \E i \in 1..n : paths[i] = <<>> THEN Null ELSE [p \in Pruned(v, paths, n) |-> v[p]]

LEMMA DeleteStep ==
  ASSUME NEW v, Json(v), NEW paths \in Seq(Path), NEW n \in 1..Len(paths),
         paths[n] # <<>> => ~IsIndex(Last(paths[n]))
  PROVE  deletePath(Left(v, paths, n - 1), paths[n]) = Left(v, paths, n)
<1> DEFINE s == paths[n]
           old == Left(v, paths, n - 1)
<1>1. /\ Len(paths) \in Nat /\ s \in Path
      /\ n \in 1..n /\ \A i \in 1..n : i \in 1..n - 1 \/ i = n
      /\ \A i \in 1..n - 1 : i \in 1..n
  BY LenProperties, ElementOfSeq
<1>2. CASE s = <<>>
  <2>1. deletePath(old, s) = Null
    BY <1>2 DEF deletePath, Null
  <2> QED
    BY <1>1, <1>2, <2>1 DEF Left
<1>3. CASE s # <<>>
  <2>1. deletePath(old, s) = [p \in DOMAIN old \ Under(old, s) |-> old[p]]
    BY <1>3 DEF deletePath, Without
  <2>2. CASE \E i \in 1..n - 1 : paths[i] = <<>>
    <3>1. old = Null /\ Left(v, paths, n) = Null
      BY <1>1, <2>2 DEF Left
    <3>2. ~IsPrefix(s, <<>>)
      <4>1. Len(s) \in Nat \ {0} /\ Len(<<>>) = 0
        BY <1>1, <1>3, EmptySeq DEF Path
      <4> QED
        BY <4>1 DEF IsPrefix
    <3>3. DOMAIN Null \ Under(Null, s) = DOMAIN Null
      BY <3>2 DEF Under, Null
    <3>4. deletePath(old, s) = [p \in DOMAIN Null |-> Null[p]]
      BY <2>1, <3>1, <3>3
    <3> QED
      BY <3>1, <3>4 DEF Null
  <2>3. CASE ~\E i \in 1..n - 1 : paths[i] = <<>>
    <3>1. old = [p \in Pruned(v, paths, n - 1) |-> v[p]]
      BY <2>3 DEF Left
    <3>2. Left(v, paths, n) = [p \in Pruned(v, paths, n) |-> v[p]]
      BY <1>1, <1>3, <2>3 DEF Left
    <3>3. DOMAIN old \ Under(old, s) = Pruned(v, paths, n)
      BY <1>1, <3>1 DEF Under, Pruned
    <3>4. \A p \in Pruned(v, paths, n) : p \in Pruned(v, paths, n - 1)
      BY <1>1 DEF Pruned
    <3> QED
      BY <2>1, <3>1, <3>2, <3>3, <3>4
  <2> QED
    BY <2>2, <2>3
<1> QED
  BY <1>2, <1>3

LEMMA DeleteLoop ==
  ASSUME NEW v, Json(v), NEW paths \in Seq(Path), NEW m \in 0..Len(paths),
         \A i \in 1..m : paths[i] # <<>> => ~IsIndex(Last(paths[i]))
  PROVE  Deleting(v, paths)[m] = Left(v, paths, m)
<1> DEFINE Bad == {n \in 0..m : Deleting(v, paths)[n] # Left(v, paths, n)}
<1>1. Len(paths) \in Nat /\ Bad \in SUBSET Nat /\ m \in Nat /\ \A n \in 0..m : n \in 0..Len(paths)
  BY LenProperties
<1>2. 0 \notin Bad
  <2>1. Pruned(v, paths, 0) = DOMAIN v
    <3>1. 1..0 = {}
      OBVIOUS
    <3> QED
      BY <3>1 DEF Pruned
  <2>2. Left(v, paths, 0) = [p \in DOMAIN v |-> v[p]]
    BY <2>1 DEF Left
  <2>3. Left(v, paths, 0) = v
    BY <2>2 DEF Json
  <2> QED
    BY <1>1, <2>3, DeletingDef
<1>3. ASSUME NEW n \in 1..m, n - 1 \notin Bad PROVE n \notin Bad
  <2>1. n \in 0..m /\ n - 1 \in 0..m /\ n \in 1..Len(paths) /\ n \in 0..Len(paths) /\ n - 1 \in 0..Len(paths)
    BY <1>1
  <2>2. Deleting(v, paths)[n - 1] = Left(v, paths, n - 1)
    BY <1>3, <2>1
  <2>3. deletePath(Left(v, paths, n - 1), paths[n]) = Left(v, paths, n)
    BY <2>1, DeleteStep, <1>1
  <2> QED
    BY <2>1, <2>2, <2>3, DeletingDef
<1>4. Bad = {}
  <2> SUFFICES ASSUME Bad # {} PROVE FALSE
    OBVIOUS
  <2>1. PICK n \in Bad : \A k \in Bad : n <= k
    BY <1>1, LeastExists
  <2> HIDE DEF Bad
  <2>2. n \in 0..m /\ n # 0
    BY <1>2, <2>1 DEF Bad
  <2>3. n \in 1..m /\ n - 1 \notin Bad
    BY <1>1, <2>1, <2>2
  <2> QED
    BY <1>3, <2>1, <2>3
<1> QED
  BY <1>1, <1>4

\* The paths of a value that a policy does not leave out.
Outside(u, paths) == {p \in DOMAIN u : \A s \in Range(paths) : ~IsPrefix(s, p)}

AgreeOutside(v, w, paths) ==
  Outside(v, paths) = Outside(w, paths) /\ \A p \in Outside(v, paths) : v[p] = w[p]

\* Paths that end in keys leave the same of two values just if these agree in
\* all that is not left out.
LEMMA DeleteAgree ==
  ASSUME NEW v, Json(v), NEW w, Json(w), NEW paths \in Seq(Path),
         \A i \in 1..Len(paths) : paths[i] # <<>> => ~IsIndex(Last(paths[i]))
  PROVE  Deleting(v, paths)[Len(paths)] = Deleting(w, paths)[Len(paths)] <=> AgreeOutside(v, w, paths)
<1> DEFINE N == Len(paths)
<1>1. /\ N \in Nat /\ Range(paths) = {paths[i] : i \in 1..N}
      /\ \A i \in 1..N : paths[i] \in Path
      /\ DOMAIN v \subseteq Path /\ DOMAIN w \subseteq Path
  BY LenProperties, RangeEquality, ElementOfSeq DEF Json
<1>2. /\ Deleting(v, paths)[N] = Left(v, paths, N)
      /\ Deleting(w, paths)[N] = Left(w, paths, N)
  BY <1>1, DeleteLoop
<1>3. Pruned(v, paths, N) = Outside(v, paths) /\ Pruned(w, paths, N) = Outside(w, paths)
  BY <1>1 DEF Pruned, Outside
<1>4. CASE \E i \in 1..N : paths[i] = <<>>
  <2>1. Left(v, paths, N) = Null /\ Left(w, paths, N) = Null
    BY <1>4 DEF Left
  <2>2. \A p \in Path : IsPrefix(<<>>, p)
    <3>1. <<>> \in Path /\ \A p \in Path : Len(<<>>) <= Len(p) /\ \A i \in 1..Len(<<>>) : <<>>[i] = p[i]
      BY EmptySeq, LenProperties DEF Path
    <3> QED
      BY <3>1, PrefixOf
  <2>3. Outside(v, paths) = {} /\ Outside(w, paths) = {}
    BY <1>1, <1>4, <2>2 DEF Outside
  <2> QED
    BY <1>2, <2>1, <2>3 DEF AgreeOutside
<1>5. CASE ~\E i \in 1..N : paths[i] = <<>>
  <2> DEFINE l == [p \in Outside(v, paths) |-> v[p]]
             r == [p \in Outside(w, paths) |-> w[p]]
  <2>1. Left(v, paths, N) = l /\ Left(w, paths, N) = r
    BY <1>3, <1>5 DEF Left
  <2>2. DOMAIN l = Outside(v, paths) /\ DOMAIN r = Outside(w, paths)
    OBVIOUS
  <2>3. l = r <=> AgreeOutside(v, w, paths)
    BY <2>2 DEF AgreeOutside
  <2> QED
    BY <1>2, <2>1, <2>3
<1> QED
  BY <1>4, <1>5

-----------------------------------------------------------------------------
(* Leaving out one element of an array. *)

LEMMA Places ==
  /\ DOMAIN Index = 1..Len(Index) /\ Len(Index) \in Nat
  /\ \A i \in DOMAIN Index : Index[i] \in STRING /\ IsIndex(Index[i]) /\ PlaceOf(Index[i]) = i
  /\ \A x : IsIndex(x) => PlaceOf(x) \in DOMAIN Index /\ Index[PlaceOf(x)] = x
<1>1. /\ DOMAIN Index = 1..Len(Index) /\ Len(Index) \in Nat
      /\ \A i \in DOMAIN Index : Index[i] \in STRING
      /\ Range(Index) = {Index[i] : i \in DOMAIN Index}
  BY IndexAssumption, LenProperties, ElementOfSeq, RangeEquality DEF Path
<1>2. ASSUME NEW x, IsIndex(x) PROVE PlaceOf(x) \in DOMAIN Index /\ Index[PlaceOf(x)] = x
  <2>1. \E i \in DOMAIN Index : Index[i] = x
    BY <1>1, <1>2 DEF IsIndex
  <2> QED
    BY <2>1 DEF PlaceOf
<1>3. ASSUME NEW i \in DOMAIN Index PROVE IsIndex(Index[i]) /\ PlaceOf(Index[i]) = i
  <2>1. IsIndex(Index[i])
    BY <1>1 DEF IsIndex
  <2>2. PlaceOf(Index[i]) \in DOMAIN Index /\ Index[PlaceOf(Index[i])] = Index[i]
    BY <2>1, <1>2
  <2> QED
    BY <2>1, <2>2, IndexAssumption DEF IsInjective
<1> QED
  BY <1>1, <1>2, <1>3

\* The element at a path and those after it, and the moves of deletePath.
From(s, p) ==
  /\ Len(s) <= Len(p) /\ \A i \in 1..Len(s) - 1 : s[i] = p[i]
  /\ IsIndex(p[Len(s)]) /\ PlaceOf(p[Len(s)]) >= PlaceOf(s[Len(s)])
Up(s, p) == [p EXCEPT ![Len(s)] = Index[PlaceOf(@) - 1]]
Down(s, p) == [p EXCEPT ![Len(s)] = Index[PlaceOf(@) + 1]]
LastPlace(s, p) == PlaceOf(p[Len(s)]) = Len(Index)

LEMMA FrontOf ==
  ASSUME NEW s \in Path, s # <<>>, NEW p \in Path
  PROVE  /\ Len(s) \in Nat \ {0} /\ Len(p) \in Nat /\ Last(s) = s[Len(s)] /\ s[Len(s)] \in STRING
         /\ Front(s) \in Path /\ Len(Front(s)) = Len(s) - 1
         /\ IsPrefix(Front(s), p) <=> Len(s) - 1 <= Len(p) /\ \A i \in 1..Len(s) - 1 : s[i] = p[i]
<1>1. Len(s) \in Nat \ {0} /\ Len(p) \in Nat /\ Len(s) - 1 \in 0..Len(s) /\ Len(s) \in 1..Len(s)
  BY EmptySeq, LenProperties DEF Path
<1>2. /\ SubSeq(s, 1, Len(s) - 1) \in Path /\ Len(SubSeq(s, 1, Len(s) - 1)) = Len(s) - 1
      /\ \A i \in 1..Len(s) - 1 : SubSeq(s, 1, Len(s) - 1)[i] = s[i]
  BY <1>1, Prefix DEF Path
<1>3. s[Len(s)] \in STRING
  BY <1>1, ElementOfSeq DEF Path
<1>4. Front(s) = SubSeq(s, 1, Len(s) - 1)
  BY DEF Front
<1> QED
  BY <1>1, <1>2, <1>3, <1>4, PrefixOf DEF Last

\* Up and down are each other's inverse, on what comes after the element.
LEMMA Moves ==
  ASSUME NEW s \in Path, s # <<>>, IsIndex(Last(s)), NEW p \in Path, From(s, p)
  PROVE  /\ IsPrefix(s, p) <=> PlaceOf(p[Len(s)]) = PlaceOf(s[Len(s)])
         /\ PlaceOf(p[Len(s)]) \in 1..Len(Index) /\ PlaceOf(s[Len(s)]) \in 1..Len(Index)
         /\ ~LastPlace(s, p) =>
              /\ Down(s, p) \in Path /\ From(s, Down(s, p)) /\ ~IsPrefix(s, Down(s, p))
              /\ PlaceOf(Down(s, p)[Len(s)]) = PlaceOf(p[Len(s)]) + 1
              /\ Up(s, Down(s, p)) = p
         /\ ~IsPrefix(s, p) =>
              /\ Up(s, p) \in Path /\ From(s, Up(s, p)) /\ ~LastPlace(s, Up(s, p))
              /\ PlaceOf(Up(s, p)[Len(s)]) = PlaceOf(p[Len(s)]) - 1
              /\ Down(s, Up(s, p)) = p
<1> DEFINE L == Len(s)
           k == PlaceOf(p[L])
           b == PlaceOf(s[L])
<1>1. /\ L \in Nat \ {0} /\ Len(p) \in Nat /\ L <= Len(p) /\ L \in 1..Len(p) /\ DOMAIN p = 1..Len(p)
      /\ \A i \in 1..Len(p) : p[i] \in STRING
      /\ \A i \in 1..L - 1 : s[i] = p[i] /\ i \in 1..Len(p) /\ i # L
      /\ \A i \in 1..L : i \in 1..L - 1 \/ i = L
      /\ \A i \in 1..L - 1 : i \in 1..L
      /\ L \in 1..L /\ Last(s) = s[L]
  BY FrontOf, ElementOfSeq, LenProperties DEF From, Path
<1>2. /\ k \in 1..Len(Index) /\ b \in 1..Len(Index) /\ Len(Index) \in Nat /\ k >= b
      /\ Index[k] = p[L] /\ Index[b] = s[L]
  BY <1>1, Places DEF From
<1>3. IsPrefix(s, p) <=> k = b
  <2>1. IsPrefix(s, p) <=> p[L] = s[L]
    BY <1>1, PrefixOf
  <2> QED
    BY <2>1, <1>2
<1>4. ASSUME NEW m \in 1..Len(Index), m >= b, NEW q, q = [p EXCEPT ![L] = Index[m]]
      PROVE  /\ q \in Path /\ From(s, q) /\ PlaceOf(q[L]) = m /\ (IsPrefix(s, q) <=> m = b)
             /\ [q EXCEPT ![L] = p[L]] = p
  <2>1. Index[m] \in STRING /\ IsIndex(Index[m]) /\ PlaceOf(Index[m]) = m
    BY Places
  <2>2. q \in Path /\ Len(q) = Len(p) /\ \A j \in 1..Len(p) : q[j] = IF j = L THEN Index[m] ELSE p[j]
    BY <1>1, <1>4, <2>1, ExceptSeq DEF Path
  <2>3. q[L] = Index[m] /\ \A i \in 1..L - 1 : s[i] = q[i]
    BY <1>1, <2>2
  <2>4. [q EXCEPT ![L] = p[L]] = p
    <3>1. p[L] \in STRING /\ L \in 1..Len(q)
      BY <1>1, <2>2
    <3> DEFINE r == [q EXCEPT ![L] = p[L]]
    <3>2. r \in Seq(STRING) /\ Len(r) = Len(q) /\ \A j \in 1..Len(q) : r[j] = IF j = L THEN p[L] ELSE q[j]
      BY <2>2, <3>1, ExceptSeq DEF Path
    <3> HIDE DEF r
    <3>3. \A j \in 1..Len(p) : r[j] = p[j]
      BY <2>2, <3>2
    <3>4. r = p
      BY <2>2, <3>2, <3>3, SeqEqual DEF Path
    <3> QED
      BY <3>4 DEF r
  <2>5. From(s, q) /\ PlaceOf(q[L]) = m
    BY <1>1, <2>1, <2>2, <2>3, <1>4 DEF From
  <2>6. IsPrefix(s, q) <=> q[L] = s[L]
    BY <1>1, <2>2, <2>3, PrefixOf
  <2>7. q[L] = s[L] <=> m = b
    BY <1>2, <2>1, <2>3
  <2> QED
    BY <2>2, <2>4, <2>5, <2>6, <2>7
<1>5. ASSUME k # Len(Index)
      PROVE  /\ Down(s, p) \in Path /\ From(s, Down(s, p)) /\ ~IsPrefix(s, Down(s, p))
             /\ PlaceOf(Down(s, p)[L]) = k + 1
             /\ Up(s, Down(s, p)) = p
  <2>1. k + 1 \in 1..Len(Index) /\ k + 1 >= b /\ k + 1 # b /\ (k + 1) - 1 = k
    BY <1>2, <1>5
  <2>2. Down(s, p) = [p EXCEPT ![L] = Index[k + 1]]
    BY DEF Down
  <2>3. PlaceOf(Down(s, p)[L]) = k + 1 /\ [Down(s, p) EXCEPT ![L] = p[L]] = p
    BY <1>4, <2>1, <2>2
  <2>4. Up(s, Down(s, p)) = [Down(s, p) EXCEPT ![L] = Index[k]]
    BY <2>1, <2>3 DEF Up
  <2> QED
    BY <1>2, <1>4, <2>1, <2>2, <2>3, <2>4
<1>6. ASSUME k # b
      PROVE  /\ Up(s, p) \in Path /\ From(s, Up(s, p))
             /\ PlaceOf(Up(s, p)[L]) = k - 1
             /\ Down(s, Up(s, p)) = p
  <2>1. k - 1 \in 1..Len(Index) /\ k - 1 >= b /\ (k - 1) + 1 = k
    BY <1>2, <1>6
  <2>2. Up(s, p) = [p EXCEPT ![L] = Index[k - 1]]
    BY DEF Up
  <2>3. PlaceOf(Up(s, p)[L]) = k - 1 /\ [Up(s, p) EXCEPT ![L] = p[L]] = p
    BY <1>4, <2>1, <2>2
  <2>4. Down(s, Up(s, p)) = [Up(s, p) EXCEPT ![L] = Index[k]]
    BY <2>1, <2>3 DEF Down
  <2> QED
    BY <1>2, <1>4, <2>1, <2>2, <2>3, <2>4
<1>7. k # b => k - 1 # Len(Index)
  BY <1>2
<1> QED
  BY <1>2, <1>3, <1>5, <1>6, <1>7 DEF LastPlace

\* What is left when the element at a path is spliced out.
Kept(v, s) ==
  {p \in DOMAIN v : ~From(s, p)}
    \cup {p \in Path : From(s, p) /\ ~LastPlace(s, p) /\ Down(s, p) \in DOMAIN v}
Spliced(v, s) == [p \in Kept(v, s) |-> IF From(s, p) THEN v[Down(s, p)] ELSE v[p]]

\* The step of a path that is in the array is an index, as all siblings are.
LEMMA Siblings ==
  ASSUME NEW v, Json(v), NEW s \in DOMAIN v, s # <<>>, IsIndex(Last(s)), NEW p \in DOMAIN v,
         IsPrefix(Front(s), p), Len(p) >= Len(s)
  PROVE  IsIndex(p[Len(s)])
<1> DEFINE t == SubSeq(p, 1, Len(s))
<1>1. s \in Path /\ p \in Path
  BY DEF Json
<1>2. /\ Len(s) \in Nat \ {0} /\ Len(p) \in Nat /\ Len(s) \in 0..Len(p) /\ Len(s) \in 1..Len(s)
      /\ \A i \in 1..Len(s) - 1 : s[i] = p[i] /\ i \in 1..Len(s)
      /\ Front(s) \in Path /\ Len(Front(s)) = Len(s) - 1
  BY <1>1, FrontOf
<1>3. t \in Path /\ Len(t) = Len(s) /\ \A i \in 1..Len(s) : t[i] = p[i]
  BY <1>1, <1>2, Prefix DEF Path
<1>4. t \in DOMAIN v
  BY <1>2 DEF Json
<1> HIDE DEF t
<1>5. t # <<>>
  BY <1>2, <1>3, EmptySeq DEF Path
<1>6. /\ Front(t) \in Path /\ Len(Front(t)) = Len(s) - 1 /\ Last(t) = p[Len(s)]
  BY <1>2, <1>3, <1>5, FrontOf
<1>7. \A i \in 1..Len(s) - 1 : Front(t)[i] = Front(s)[i]
  <2>1. \A i \in 1..Len(s) - 1 : SubSeq(t, 1, Len(t) - 1)[i] = t[i] /\ SubSeq(s, 1, Len(s) - 1)[i] = s[i]
    <3>1. Len(s) - 1 \in 0..Len(s) /\ Len(t) - 1 = Len(s) - 1 /\ Len(s) - 1 \in 0..Len(t)
      BY <1>2, <1>3
    <3> QED
      BY <1>1, <1>3, <3>1, Prefix DEF Path
  <2> QED
    BY <1>2, <1>3, <2>1 DEF Front
<1>8. Front(t) = Front(s)
  BY <1>2, <1>6, <1>7, SeqEqual DEF Path
<1> QED
  BY <1>4, <1>5, <1>6, <1>8 DEF Json

\* Without holes, an array that has nothing at a place has nothing after it.
LEMMA NoneAfter ==
  ASSUME NEW v, Json(v), Hashable(v), NEW s \in Path, s # <<>>, IsIndex(Last(s)),
         NEW p \in DOMAIN v, From(s, p)
  PROVE  s \in DOMAIN v
<1> DEFINE t == SubSeq(p, 1, Len(s))
<1>1. p \in Path
  BY DEF Json
<1>2. /\ Len(s) \in Nat \ {0} /\ Len(p) \in Nat /\ Len(s) \in 0..Len(p) /\ Len(s) \in 1..Len(s)
      /\ \A i \in 1..Len(s) - 1 : s[i] = p[i] /\ i \in 1..Len(s)
      /\ Front(s) \in Path /\ Len(Front(s)) = Len(s) - 1 /\ Last(s) = s[Len(s)]
      /\ Len(s) - 1 \in 0..Len(s)
  BY <1>1, FrontOf DEF From
<1>3. t \in Path /\ Len(t) = Len(s) /\ \A i \in 1..Len(s) : t[i] = p[i]
  BY <1>1, <1>2, Prefix DEF Path
<1>4. t \in DOMAIN v
  BY <1>2 DEF Json
<1> HIDE DEF t
<1>5. t # <<>>
  BY <1>2, <1>3, EmptySeq DEF Path
<1>6. /\ Front(t) \in Path /\ Len(Front(t)) = Len(s) - 1 /\ Last(t) = p[Len(s)]
  BY <1>2, <1>3, <1>5, FrontOf
<1>7. \A i \in 1..Len(s) - 1 : Front(t)[i] = s[i]
  <2>1. \A i \in 1..Len(s) - 1 : SubSeq(t, 1, Len(t) - 1)[i] = t[i]
    <3>1. Len(t) - 1 = Len(s) - 1 /\ Len(s) - 1 \in 0..Len(t)
      BY <1>2, <1>3
    <3> QED
      BY <1>1, <1>3, <3>1, Prefix DEF Path
  <2> QED
    BY <1>2, <1>3, <2>1 DEF Front
<1>8. /\ PlaceOf(s[Len(s)]) \in 1..PlaceOf(p[Len(s)]) /\ Index[PlaceOf(s[Len(s)])] = s[Len(s)]
      /\ IsIndex(p[Len(s)])
  BY <1>2, Places DEF From
<1>9. Append(Front(t), s[Len(s)]) \in DOMAIN v
  BY <1>4, <1>5, <1>6, <1>8 DEF Hashable
<1>10. Append(Front(t), s[Len(s)]) = s
  <2> DEFINE a == Append(Front(t), s[Len(s)])
  <2>1. s[Len(s)] \in STRING /\ Front(t) \in Seq(STRING) /\ s \in Seq(STRING)
    BY <1>2, <1>6, ElementOfSeq DEF Path
  <2>2. a \in Seq(STRING) /\ Len(a) = Len(Front(t)) + 1 /\ a[Len(Front(t)) + 1] = s[Len(s)]
        /\ \A i \in 1..Len(Front(t)) : a[i] = Front(t)[i]
    BY <2>1, AppendProperties
  <2>3. \A i \in 1..Len(s) : i = Len(s) \/ i \in 1..Len(s) - 1
    BY <1>2
  <2>4. Len(a) = Len(s) /\ \A i \in 1..Len(s) : a[i] = s[i]
    BY <1>2, <1>6, <1>7, <2>2, <2>3
  <2> HIDE DEF a
  <2>5. a = s
    BY <2>1, <2>2, <2>4, SeqEqual
  <2> QED
    BY <2>5 DEF a
<1> QED
  BY <1>9, <1>10

\* What a path starts with comes from it.
LEMMA PrefixFrom ==
  ASSUME NEW s \in Path, s # <<>>, IsIndex(Last(s)), NEW p \in Path, IsPrefix(s, p)
  PROVE  From(s, p)
<1>1. /\ Len(s) \in Nat \ {0} /\ Len(p) \in Nat /\ Last(s) = s[Len(s)] /\ Len(s) \in 1..Len(s)
      /\ \A i \in 1..Len(s) - 1 : i \in 1..Len(s)
      /\ Len(s) <= Len(p) /\ \A i \in 1..Len(s) : s[i] = p[i]
  BY FrontOf, PrefixOf
<1>2. p[Len(s)] = s[Len(s)] /\ PlaceOf(s[Len(s)]) \in 1..Len(Index)
  BY <1>1, Places
<1> QED
  BY <1>1, <1>2, Places DEF From

\* deletePath, of an element.
LEMMA SpliceAt ==
  ASSUME NEW v, Json(v), Hashable(v), NEW s \in Path, s # <<>>, IsIndex(Last(s))
  PROVE  deletePath(v, s) = Spliced(v, s)
<1>1. DOMAIN v \subseteq Path /\ v = [p \in DOMAIN v |-> v[p]]
  BY DEF Json
<1>2. \A p \in DOMAIN v : p \in Under(v, s) <=> From(s, p) /\ IsPrefix(s, p)
  BY <1>1, PrefixFrom DEF Under
<1>3. CASE Under(v, s) = {}
  <2>1. \A p \in DOMAIN v : ~From(s, p)
    <3> SUFFICES ASSUME NEW p \in DOMAIN v, From(s, p) PROVE FALSE
      OBVIOUS
    <3>1. s \in DOMAIN v
      BY NoneAfter
    <3>2. IsPrefix(s, s)
      BY PrefixOf
    <3> QED
      BY <1>3, <3>1, <3>2 DEF Under
  <2>2. \A p \in Path : From(s, p) /\ ~LastPlace(s, p) => From(s, Down(s, p))
    BY Moves
  <2>3. Kept(v, s) = DOMAIN v
    BY <2>1, <2>2 DEF Kept
  <2>4. Spliced(v, s) = v
    BY <1>1, <2>1, <2>3 DEF Spliced
  <2>5. deletePath(v, s) = [p \in DOMAIN v \ Under(v, s) |-> v[p]]
    BY <1>3 DEF deletePath, Without
  <2> QED
    BY <1>1, <1>3, <2>4, <2>5
<1>4. CASE Under(v, s) # {}
  <2> DEFINE left == Without(v, Under(v, s))
             Later(p) == /\ Len(p) >= Len(s) /\ IsPrefix(Front(s), p)
                         /\ PlaceOf(p[Len(s)]) > PlaceOf(Last(s))
             moved == {p \in DOMAIN left : Later(p)}
             ends == {Up(s, p) : p \in moved}
             r == [p \in (DOMAIN left \ moved) \cup ends |->
                     IF p \in ends THEN left[Down(s, p)] ELSE left[p]]
  <2>1. deletePath(v, s) = r
    BY <1>4 DEF deletePath, Up, Down
  <2>2. s \in DOMAIN v
    BY <1>1, <1>4, Enclosed DEF Under
  <2>3. DOMAIN left = DOMAIN v \ Under(v, s) /\ \A p \in DOMAIN left : left[p] = v[p]
    BY DEF Without
  <2> HIDE DEF left
  <2>4. ASSUME NEW p \in DOMAIN left PROVE Later(p) <=> From(s, p)
    <3>1. p \in DOMAIN v /\ p \in Path /\ ~IsPrefix(s, p)
      BY <1>1, <2>3 DEF Under
    <3>2. /\ Len(s) \in Nat \ {0} /\ Len(p) \in Nat /\ Last(s) = s[Len(s)]
          /\ IsPrefix(Front(s), p) <=> Len(s) - 1 <= Len(p) /\ \A i \in 1..Len(s) - 1 : s[i] = p[i]
      BY <3>1, FrontOf
    <3>3. ASSUME Later(p) PROVE From(s, p)
      <4>1. IsIndex(p[Len(s)])
        BY <2>2, <3>1, <3>3, Siblings
      <4>2. PlaceOf(p[Len(s)]) \in 1..Len(Index) /\ PlaceOf(s[Len(s)]) \in 1..Len(Index) /\ Len(Index) \in Nat
        BY <3>2, <4>1, Places
      <4> QED
        BY <3>2, <3>3, <4>1, <4>2 DEF From
    <3>4. ASSUME From(s, p) PROVE Later(p)
      <4>1. /\ PlaceOf(p[Len(s)]) \in 1..Len(Index) /\ PlaceOf(s[Len(s)]) \in 1..Len(Index)
            /\ PlaceOf(p[Len(s)]) # PlaceOf(s[Len(s)])
        BY <3>1, <3>4, Moves
      <4>2. PlaceOf(p[Len(s)]) > PlaceOf(s[Len(s)]) /\ Len(s) - 1 <= Len(p) /\ Len(p) >= Len(s)
        BY <3>2, <3>4, <4>1, Places DEF From
      <4> QED
        BY <3>2, <3>4, <4>2 DEF From
    <3> QED
      BY <3>3, <3>4
  <2>5. moved = {p \in DOMAIN v : From(s, p) /\ ~IsPrefix(s, p)}
    BY <1>2, <2>3, <2>4
  <2>6. /\ DOMAIN left \ moved = {p \in DOMAIN v : ~From(s, p)}
        /\ moved \subseteq DOMAIN left
    BY <1>2, <2>3, <2>4
  <2> HIDE DEF moved
  <2>7. \A t \in ends : /\ t \in Path /\ From(s, t) /\ ~LastPlace(s, t) /\ Down(s, t) \in moved
    BY <1>1, <2>5, Moves
  <2>8. ASSUME NEW t \in Path, From(s, t), ~LastPlace(s, t), Down(s, t) \in DOMAIN v PROVE t \in ends
    BY <2>5, <2>8, Moves
  <2> HIDE DEF ends
  <2>9. (DOMAIN left \ moved) \cup ends = Kept(v, s)
    BY <2>5, <2>6, <2>7, <2>8 DEF Kept
  <2>10. ASSUME NEW p \in Kept(v, s)
         PROVE  /\ p \in ends <=> From(s, p)
                /\ p \in ends => Down(s, p) \in DOMAIN left
                /\ p \notin ends => p \in DOMAIN left
    <3>1. p \in ends \/ p \in DOMAIN left \ moved
      BY <2>9
    <3>2. p \in ends => From(s, p) /\ Down(s, p) \in moved
      BY <2>7
    <3> QED
      BY <2>6, <3>1, <3>2
  <2>11. r = Spliced(v, s)
    BY <2>3, <2>9, <2>10 DEF Spliced
  <2> QED
    BY <2>1, <2>11
<1> QED
  BY <1>3, <1>4

\* One direction of what follows.
LEMMA SpliceWithin ==
  ASSUME NEW v, DOMAIN v \subseteq Path, NEW w, DOMAIN w \subseteq Path,
         NEW s \in Path, s # <<>>, IsIndex(Last(s)),
         \A p \in DOMAIN v : ~IsPrefix(s, p) => p \in DOMAIN w /\ v[p] = w[p],
         NEW p \in Kept(v, s)
  PROVE  p \in Kept(w, s) /\ Spliced(v, s)[p] = Spliced(w, s)[p]
<1>1. CASE From(s, p)
  <2>1. p \in Path /\ ~LastPlace(s, p) /\ Down(s, p) \in DOMAIN v /\ ~IsPrefix(s, Down(s, p))
    BY <1>1, Moves DEF Kept
  <2> QED
    BY <1>1, <2>1 DEF Kept, Spliced
<1>2. CASE ~From(s, p)
  <2>1. p \in DOMAIN v /\ ~IsPrefix(s, p)
    BY <1>2, PrefixFrom DEF Kept
  <2> QED
    BY <1>2, <2>1 DEF Kept, Spliced
<1> QED
  BY <1>1, <1>2

\* Two values with an element spliced out are equal just if they agree in all
\* but the element.
LEMMA SpliceAgree ==
  ASSUME NEW v, Json(v), Hashable(v), NEW w, Json(w), Hashable(w),
         NEW s \in Path, s # <<>>, IsIndex(Last(s))
  PROVE  deletePath(v, s) = deletePath(w, s) <=> AgreeOutside(v, w, <<s>>)
<1>1. deletePath(v, s) = Spliced(v, s) /\ deletePath(w, s) = Spliced(w, s)
  BY SpliceAt
<1>2. DOMAIN v \subseteq Path /\ DOMAIN w \subseteq Path
  BY DEF Json
<1>3. \A x : x \in Range(<<s>>) <=> x = s
  BY DEF Range
<1>4. /\ Outside(v, <<s>>) = {p \in DOMAIN v : ~IsPrefix(s, p)}
      /\ Outside(w, <<s>>) = {p \in DOMAIN w : ~IsPrefix(s, p)}
  BY <1>3 DEF Outside
<1>5. ASSUME AgreeOutside(v, w, <<s>>) PROVE Spliced(v, s) = Spliced(w, s)
  <2>1. /\ \A p \in DOMAIN v : ~IsPrefix(s, p) => p \in DOMAIN w /\ v[p] = w[p]
        /\ \A p \in DOMAIN w : ~IsPrefix(s, p) => p \in DOMAIN v /\ w[p] = v[p]
    BY <1>4, <1>5 DEF AgreeOutside
  <2>2. \A p \in Kept(v, s) : p \in Kept(w, s) /\ Spliced(v, s)[p] = Spliced(w, s)[p]
    BY <1>2, <2>1, SpliceWithin
  <2>3. \A p \in Kept(w, s) : p \in Kept(v, s)
    BY <1>2, <2>1, SpliceWithin
  <2>4. /\ Spliced(v, s) = [p \in Kept(v, s) |-> Spliced(v, s)[p]]
        /\ Spliced(w, s) = [p \in Kept(w, s) |-> Spliced(w, s)[p]]
    BY DEF Spliced
  <2>5. Kept(v, s) = Kept(w, s)
    BY <2>2, <2>3
  <2> QED
    BY <2>2, <2>4, <2>5
<1>6. ASSUME Spliced(v, s) = Spliced(w, s), NEW p \in Path, ~IsPrefix(s, p)
      PROVE  (p \in DOMAIN v <=> p \in DOMAIN w) /\ (p \in DOMAIN v => v[p] = w[p])
  <2>1. Kept(v, s) = Kept(w, s) /\ \A t \in Kept(v, s) : Spliced(v, s)[t] = Spliced(w, s)[t]
    BY <1>6 DEF Spliced
  <2>2. CASE From(s, p)
    <3>1. PICK t \in Path : From(s, t) /\ ~LastPlace(s, t) /\ Down(s, t) = p
      BY <1>6, <2>2, Moves
    <3>2. t \in Kept(v, s) <=> p \in DOMAIN v
      BY <3>1 DEF Kept
    <3>3. t \in Kept(w, s) <=> p \in DOMAIN w
      BY <3>1 DEF Kept
    <3>4. t \in Kept(v, s) => Spliced(v, s)[t] = v[p]
      BY <3>1 DEF Spliced
    <3>5. t \in Kept(w, s) => Spliced(w, s)[t] = w[p]
      BY <3>1 DEF Spliced
    <3> QED
      BY <2>1, <3>2, <3>3, <3>4, <3>5
  <2>3. CASE ~From(s, p)
    <3>1. (p \in Kept(v, s) <=> p \in DOMAIN v) /\ (p \in Kept(w, s) <=> p \in DOMAIN w)
      BY <2>3 DEF Kept
    <3>2. /\ p \in Kept(v, s) => Spliced(v, s)[p] = v[p]
          /\ p \in Kept(w, s) => Spliced(w, s)[p] = w[p]
      BY <2>3 DEF Spliced
    <3> QED
      BY <2>1, <3>1, <3>2
  <2> QED
    BY <2>2, <2>3
<1>7. ASSUME Spliced(v, s) = Spliced(w, s) PROVE AgreeOutside(v, w, <<s>>)
  BY <1>2, <1>4, <1>6, <1>7 DEF AgreeOutside
<1> QED
  BY <1>1, <1>5, <1>7

\* Leaving out keys leaves a JSON value, and no holes.
LEMMA PrunedIs ==
  ASSUME NEW v, Json(v), Hashable(v), NEW paths \in Seq(Path), NEW m \in 0..Len(paths),
         \A i \in 1..m : paths[i] # <<>> /\ ~IsIndex(Last(paths[i])),
         NEW u, u = [p \in Pruned(v, paths, m) |-> v[p]]
  PROVE  Json(u) /\ Hashable(u) /\ DOMAIN u = Pruned(v, paths, m)
<1>1. /\ DOMAIN u = Pruned(v, paths, m) /\ DOMAIN u \subseteq DOMAIN v /\ DOMAIN v \subseteq Path
      /\ \A p \in DOMAIN u : \A i \in 1..m : ~IsPrefix(paths[i], p)
      /\ \A p \in DOMAIN v : (\A i \in 1..m : ~IsPrefix(paths[i], p)) => p \in DOMAIN u
  BY DEF Pruned, Json
<1>2. \A i \in 1..m : paths[i] \in Path /\ Len(paths[i]) \in Nat \ {0}
  <2>1. \A i \in 1..m : i \in 1..Len(paths)
    BY LenProperties
  <2> QED
    BY <2>1, ElementOfSeq, EmptySeq, LenProperties DEF Path
<1>3. <<>> \in DOMAIN u
  <2>1. <<>> \in DOMAIN v /\ <<>> \in Path /\ Len(<<>>) = 0
    BY EmptySeq DEF Json, Path
  <2>2. \A i \in 1..m : ~IsPrefix(paths[i], <<>>)
    BY <1>2, <2>1, PrefixOf
  <2> QED
    BY <1>1, <2>1, <2>2
<1>4. ASSUME NEW p \in DOMAIN u, NEW n \in 0..Len(p) PROVE SubSeq(p, 1, n) \in DOMAIN u
  <2> DEFINE t == SubSeq(p, 1, n)
  <2>1. p \in Path /\ Len(p) \in Nat /\ t \in DOMAIN v
    BY <1>1, LenProperties DEF Json, Path
  <2>2. t \in Path /\ Len(t) = n /\ \A i \in 1..n : t[i] = p[i]
    BY <2>1, Prefix DEF Path
  <2> HIDE DEF t
  <2>3. ASSUME NEW i \in 1..m, IsPrefix(paths[i], t) PROVE FALSE
    <3>1. Len(paths[i]) <= n /\ \A k \in 1..Len(paths[i]) : paths[i][k] = t[k]
      BY <1>2, <2>2, <2>3, PrefixOf
    <3>2. Len(paths[i]) <= Len(p) /\ \A k \in 1..Len(paths[i]) : k \in 1..n
      BY <1>2, <2>1, <3>1
    <3>3. IsPrefix(paths[i], p)
      BY <1>2, <2>1, <2>2, <3>1, <3>2, PrefixOf
    <3> QED
      BY <1>1, <3>3
  <2>4. t \in DOMAIN u
    BY <1>1, <2>1, <2>3
  <2> QED
    BY <2>4 DEF t
<1>5. Json(u)
  <2>1. \A p, q \in DOMAIN u \ {<<>>} : Front(p) = Front(q) => (IsIndex(Last(p)) <=> IsIndex(Last(q)))
    BY <1>1 DEF Json
  <2>2. u = [p \in DOMAIN u |-> u[p]]
    OBVIOUS
  <2>3. \A p \in DOMAIN u : \A n \in 0..Len(p) : SubSeq(p, 1, n) \in DOMAIN u
    BY <1>4
  <2>4. DOMAIN u \subseteq Path
    BY <1>1
  <2> QED
    BY <1>3, <2>1, <2>2, <2>3, <2>4 DEF Json
<1>6. ASSUME NEW p \in DOMAIN u, p # <<>>, IsIndex(Last(p)), NEW i \in 1..PlaceOf(Last(p))
      PROVE  Append(Front(p), Index[i]) \in DOMAIN u
  <2> DEFINE a == Append(Front(p), Index[i])
  <2>1. p \in Path /\ a \in DOMAIN v
    BY <1>1, <1>6 DEF Hashable
  <2>2. /\ Len(p) \in Nat \ {0} /\ Front(p) \in Path /\ Len(Front(p)) = Len(p) - 1
        /\ \A k \in 1..Len(p) - 1 : Front(p)[k] = p[k]
    <3>1. /\ Len(p) \in Nat \ {0} /\ Front(p) \in Path /\ Len(Front(p)) = Len(p) - 1 /\ Len(p) - 1 \in 0..Len(p)
      BY <1>6, <2>1, FrontOf
    <3>2. \A k \in 1..Len(p) - 1 : SubSeq(p, 1, Len(p) - 1)[k] = p[k]
      BY <2>1, <3>1, Prefix DEF Path
    <3> QED
      BY <3>1, <3>2 DEF Front
  <2>3. PlaceOf(Last(p)) \in DOMAIN Index /\ DOMAIN Index = 1..Len(Index) /\ Len(Index) \in Nat
    BY <1>6, Places
  <2>4. i \in DOMAIN Index
    BY <2>3
  <2>5. Index[i] \in STRING /\ IsIndex(Index[i])
    BY <2>4, Places
  <2>6. a \in Path /\ Len(a) = Len(p) /\ a[Len(p)] = Index[i] /\ \A k \in 1..Len(p) - 1 : a[k] = p[k]
    <3>1. /\ a \in Seq(STRING) /\ Len(a) = Len(Front(p)) + 1 /\ a[Len(Front(p)) + 1] = Index[i]
          /\ \A k \in 1..Len(Front(p)) : a[k] = Front(p)[k]
      BY <2>2, <2>5, AppendProperties DEF Path
    <3> HIDE DEF a
    <3> QED
      BY <2>2, <3>1 DEF Path
  <2> HIDE DEF a
  <2>7. ASSUME NEW j \in 1..m, IsPrefix(paths[j], a) PROVE FALSE
    <3> DEFINE s == paths[j]
    <3>1. s \in Path /\ Len(s) \in Nat \ {0} /\ s # <<>> /\ ~IsIndex(Last(s)) /\ Last(s) = s[Len(s)]
      BY <1>2 DEF Last
    <3> HIDE DEF s
    <3>2. Len(s) <= Len(p) /\ \A k \in 1..Len(s) : s[k] = a[k]
      BY <2>6, <2>7, <3>1, PrefixOf DEF s
    <3>3. CASE Len(s) = Len(p)
      BY <2>5, <2>6, <3>1, <3>2, <3>3
    <3>4. CASE Len(s) # Len(p)
      <4>1. Len(s) <= Len(p) /\ \A k \in 1..Len(s) : k \in 1..Len(p) - 1
        BY <2>2, <3>1, <3>2, <3>4
      <4>2. IsPrefix(s, p)
        BY <2>1, <2>6, <3>1, <3>2, <4>1, PrefixOf
      <4> QED
        BY <1>1, <4>2 DEF s
    <3> QED
      BY <3>3, <3>4
  <2>8. a \in DOMAIN u
    BY <1>1, <2>1, <2>7
  <2> QED
    BY <2>8 DEF a
<1>7. Hashable(u)
  BY <1>6 DEF Hashable
<1> QED
  BY <1>1, <1>5, <1>7

\* A policy of which only the last path to leave out may be an array element:
\* the elements after one that is spliced out have other paths afterwards.
Steady(policy) ==
  policy.mode = "except" =>
    \A i \in 1..Len(policy.paths) - 1 : policy.paths[i] # <<>> => ~IsIndex(Last(policy.paths[i]))

LEMMA LeaveOutAgree ==
  ASSUME NEW v, Json(v), Hashable(v), NEW w, Json(w), Hashable(w), NEW paths \in Seq(Path),
         \A i \in 1..Len(paths) - 1 : paths[i] # <<>> => ~IsIndex(Last(paths[i]))
  PROVE  Deleting(v, paths)[Len(paths)] = Deleting(w, paths)[Len(paths)] <=> AgreeOutside(v, w, paths)
<1> DEFINE N == Len(paths)
           s == paths[N]
           m == N - 1
<1>1. CASE \A i \in 1..N : paths[i] # <<>> => ~IsIndex(Last(paths[i]))
  BY <1>1, DeleteAgree
<1>2. CASE N # 0 /\ s # <<>> /\ IsIndex(Last(s))
  <2>1. /\ N \in Nat \ {0} /\ m \in 0..Len(paths) /\ N \in 1..Len(paths) /\ N \in 0..Len(paths) /\ m = N - 1
        /\ Range(paths) = {paths[i] : i \in 1..N} /\ \A i \in 1..N : paths[i] \in Path
        /\ \A i \in 1..N : i \in 1..m \/ i = N
        /\ \A i \in 1..m : i \in 1..N
        /\ s \in Path /\ DOMAIN v \subseteq Path /\ DOMAIN w \subseteq Path
    BY <1>2, LenProperties, RangeEquality, ElementOfSeq DEF Json
  <2>2. /\ Deleting(v, paths)[N] = deletePath(Left(v, paths, m), s)
        /\ Deleting(w, paths)[N] = deletePath(Left(w, paths, m), s)
    BY <2>1, DeletingDef, DeleteLoop
  <2>3. CASE \E i \in 1..m : paths[i] = <<>>
    <3>1. Left(v, paths, m) = Null /\ Left(w, paths, m) = Null
      BY <2>3 DEF Left
    <3>2. \A p \in Path : IsPrefix(<<>>, p)
      <4>1. <<>> \in Path /\ \A p \in Path : Len(<<>>) <= Len(p) /\ \A i \in 1..Len(<<>>) : <<>>[i] = p[i]
        BY EmptySeq, LenProperties DEF Path
      <4> QED
        BY <4>1, PrefixOf
    <3>3. Outside(v, paths) = {} /\ Outside(w, paths) = {}
      BY <2>1, <2>3, <3>2 DEF Outside
    <3> QED
      BY <2>2, <3>1, <3>3 DEF AgreeOutside
  <2>4. CASE ~\E i \in 1..m : paths[i] = <<>>
    <3>1. PICK x : x = [p \in Pruned(v, paths, m) |-> v[p]]
      OBVIOUS
    <3>2. PICK y : y = [p \in Pruned(w, paths, m) |-> w[p]]
      OBVIOUS
    <3>3. Left(v, paths, m) = x /\ Left(w, paths, m) = y
      BY <2>4, <3>1, <3>2 DEF Left
    <3>4. \A i \in 1..m : paths[i] # <<>> /\ ~IsIndex(Last(paths[i]))
      BY <2>1, <2>4
    <3>5. Json(x) /\ Hashable(x) /\ DOMAIN x = Pruned(v, paths, m)
      BY <2>1, <3>1, <3>4, PrunedIs
    <3>6. Json(y) /\ Hashable(y) /\ DOMAIN y = Pruned(w, paths, m)
      BY <2>1, <3>2, <3>4, PrunedIs
    <3>7. deletePath(x, s) = deletePath(y, s) <=> AgreeOutside(x, y, <<s>>)
      BY <1>2, <2>1, <3>5, <3>6, SpliceAgree
    <3>8. /\ Outside(x, <<s>>) = Outside(v, paths) /\ Outside(y, <<s>>) = Outside(w, paths)
      <4>1. \A z : z \in Range(<<s>>) <=> z = s
        BY DEF Range
      <4>2. /\ Outside(x, <<s>>) = {p \in Pruned(v, paths, m) : ~IsPrefix(s, p)}
            /\ Outside(y, <<s>>) = {p \in Pruned(w, paths, m) : ~IsPrefix(s, p)}
        BY <3>5, <3>6, <4>1 DEF Outside
      <4>3. \A p : (\A i \in 1..N : ~IsPrefix(paths[i], p))
                     <=> ~IsPrefix(s, p) /\ \A i \in 1..m : ~IsPrefix(paths[i], p)
        BY <2>1
      <4>4. \A p : (\A z \in Range(paths) : ~IsPrefix(z, p)) <=> \A i \in 1..N : ~IsPrefix(paths[i], p)
        BY <2>1
      <4> HIDE DEF N, s, m
      <4> QED
        BY <4>2, <4>3, <4>4 DEF Outside, Pruned
    <3>9. (\A p \in Outside(v, paths) : x[p] = v[p]) /\ \A p \in Outside(w, paths) : y[p] = w[p]
      BY <3>1, <3>2, <3>5, <3>6, <3>8 DEF Outside
    <3>10. AgreeOutside(x, y, <<s>>) <=> AgreeOutside(v, w, paths)
      BY <3>8, <3>9 DEF AgreeOutside
    <3> QED
      BY <2>2, <3>3, <3>7, <3>10
  <2> QED
    BY <2>3, <2>4
<1>3. (\A i \in 1..N : paths[i] # <<>> => ~IsIndex(Last(paths[i]))) \/ (N # 0 /\ s # <<>> /\ IsIndex(Last(s)))
  <2>1. N \in Nat /\ \A i \in 1..N : i \in 1..N - 1 \/ i = N
    BY LenProperties
  <2> QED
    BY <2>1
<1> QED
  BY <1>1, <1>2, <1>3

\* Two payloads give one key part just if they agree in what the policy selects.
LEMMA HashAgree ==
  ASSUME NEW policy \in Policies, Steady(policy),
         NEW v, Json(v), Hashable(v), NEW w, Json(w), Hashable(w)
  PROVE  deriveHashable(v, policy) = deriveHashable(w, policy) <=> Agree(v, w, policy)
<1>1. policy.paths \in Seq(Path) /\ policy.mode \in {"only", "except", "all"}
  BY DEF Policies
<1>2. CASE policy.mode = "only"
  BY <1>1, <1>2, PickAgree DEF deriveHashable, Agree
<1>3. CASE policy.mode = "except"
  <2>1. /\ deriveHashable(v, policy) = Deleting(v, policy.paths)[Len(policy.paths)]
        /\ deriveHashable(w, policy) = Deleting(w, policy.paths)[Len(policy.paths)]
    BY <1>3 DEF deriveHashable
  <2>2. Agree(v, w, policy) <=> AgreeOutside(v, w, policy.paths)
    BY <1>3 DEF Agree, AgreeOutside, Outside
  <2> QED
    BY <1>1, <1>3, <2>1, <2>2, LeaveOutAgree DEF Steady
<1>4. CASE policy.mode = "all"
  BY <1>4 DEF deriveHashable, Agree
<1> QED
  BY <1>1, <1>2, <1>3, <1>4

-----------------------------------------------------------------------------
(* What the server makes of an input. *)

\* t is s and one item more.
Longer(s, x, t) ==
  /\ Len(s) \in Nat /\ DOMAIN s = 1..Len(s)
  /\ t \in Seq(Range(t)) /\ Len(t) = Len(s) + 1 /\ DOMAIN t = 1..Len(s) + 1
  /\ t[Len(s) + 1] = x /\ \A i \in DOMAIN s : t[i] = s[i]

LEMMA AppendAt ==
  ASSUME NEW s, s \in Seq(Range(s)), NEW x, NEW t, t = Append(s, x)
  PROVE  Longer(s, x, t)
<1>1. s \in Seq(Range(s) \cup {x})
  BY SeqMonotonic
<1>2. /\ t \in Seq(Range(s) \cup {x}) /\ Len(t) = Len(s) + 1
      /\ \A i \in 1..Len(s) : t[i] = s[i]
      /\ t[Len(s) + 1] = x
  BY <1>1, AppendProperties
<1>3. DOMAIN t = 1..Len(t) /\ DOMAIN s = 1..Len(s) /\ Len(s) \in Nat
  BY <1>1, <1>2, LenProperties
<1>4. t \in Seq(Range(t))
  BY <1>2, SeqOfRange
<1> QED
  BY <1>2, <1>3, <1>4 DEF Longer

LEMMA Rewritten ==
  ASSUME NEW s, s \in Seq(Range(s)), NEW t, t = [i \in DOMAIN s |-> t[i]]
  PROVE  t \in Seq(Range(t)) /\ Len(t) = Len(s) /\ DOMAIN t = DOMAIN s
<1>1. Len(s) \in Nat /\ DOMAIN s = 1..Len(s)
  BY LenProperties
<1>2. t \in [1..Len(s) -> Range(t)]
  BY <1>1 DEF Range
<1>3. t \in Seq(Range(t))
  BY <1>1, <1>2, SeqDef
<1> QED
  BY <1>1, <1>2, <1>3, LenProperties

Dups(now, input) ==
  {i \in Queued(now.jobs) : resolveInput(input).key # {} /\ now.jobs[i].key = resolveInput(input).key}
Open(now, input) ==
  {i \in Queued(now.jobs) : /\ resolveInput(input).batchKey # {}
                            /\ now.jobs[i].batchKey = resolveInput(input).batchKey /\ ~now.jobs[i].sealed}
Folds(now, input) == {i \in Open(now, input) : Fits(now.jobs[i].payload, resolveInput(input).payload, now.jobs[i].batch)}

\* The input has been noted, for job i.
Recorded(now, input, i, how, next) ==
  /\ next.accepted \in Seq(Range(next.accepted)) /\ DOMAIN next.accepted = 1..Len(now.accepted) + 1
  /\ \A k \in DOMAIN now.accepted : next.accepted[k] = now.accepted[k]
  /\ next.accepted[Len(now.accepted) + 1] = [input |-> input, job |-> i, how |-> how]

\* A job after a request: its payload and whether it is sealed may be others.
Kin(j, k) ==
  /\ IsJob(k) /\ k.type = j.type /\ k.key = j.key /\ k.batchKey = j.batchKey /\ k.batch = j.batch
  /\ k.state = j.state /\ k.by = j.by

Duplicate(now, input, i, next) ==
  /\ i \in Dups(now, input) /\ Recorded(now, input, i, "duplicate", next)
  /\ next.jobs = now.jobs

Folding(now, input, i, next) ==
  /\ i \in Folds(now, input) /\ Dups(now, input) = {} /\ Recorded(now, input, i, "folded", next)
  /\ next.jobs \in Seq(Range(next.jobs)) /\ DOMAIN next.jobs = DOMAIN now.jobs
  /\ \A j \in DOMAIN now.jobs \ {i} : next.jobs[j] = now.jobs[j]
  /\ Kin(now.jobs[i], next.jobs[i]) /\ next.jobs[i].sealed = now.jobs[i].sealed
  /\ next.jobs[i].payload = Fold(now.jobs[i].payload, resolveInput(input).payload, now.jobs[i].batch)

Creating(now, input, i, next) ==
  /\ i = Len(now.jobs) + 1 /\ Dups(now, input) = {} /\ Folds(now, input) = {}
  /\ Recorded(now, input, i, "created", next)
  /\ next.jobs \in Seq(Range(next.jobs)) /\ DOMAIN next.jobs = 1..Len(now.jobs) + 1
  /\ \A j \in DOMAIN now.jobs :
       /\ Kin(now.jobs[j], next.jobs[j]) /\ next.jobs[j].payload = now.jobs[j].payload
       /\ next.jobs[j].sealed <=> now.jobs[j].sealed \/ j \in Open(now, input)
  /\ IsJob(next.jobs[i]) /\ next.jobs[i].type = resolveInput(input).type
  /\ next.jobs[i].payload = resolveInput(input).payload
  /\ next.jobs[i].key = resolveInput(input).key /\ next.jobs[i].batchKey = resolveInput(input).batchKey
  /\ next.jobs[i].batch = resolveInput(input).batch /\ next.jobs[i].state = "queued" /\ ~next.jobs[i].sealed

LEMMA Outcomes ==
  ASSUME NEW now, now = [jobs |-> now.jobs, accepted |-> now.accepted],
         now.jobs \in Seq(Range(now.jobs)), \A i \in DOMAIN now.jobs : IsJob(now.jobs[i]),
         now.accepted \in Seq(Range(now.accepted)),
         NEW input, NEW next, next = Accept(now, input)
  PROVE  /\ next = [jobs |-> next.jobs, accepted |-> next.accepted]
         /\ \E i \in 1..Len(now.jobs) + 1 : \/ Duplicate(now, input, i, next)
                                            \/ Folding(now, input, i, next)
                                            \/ Creating(now, input, i, next)
<1> DEFINE Noted(i, how) == Append(now.accepted, [input |-> input, job |-> i, how |-> how])
           opts == resolveInput(input)
           job == [type |-> opts.type, queue |-> opts.queue, payload |-> opts.payload,
                   key |-> opts.key, batchKey |-> opts.batchKey, batch |-> opts.batch,
                   sealed |-> FALSE, state |-> "queued", by |-> Unset]
<1>1. /\ Len(now.jobs) \in Nat /\ DOMAIN now.jobs = 1..Len(now.jobs)
      /\ \A i \in DOMAIN now.jobs : i \in 1..Len(now.jobs) + 1
      /\ Len(now.jobs) + 1 \in 1..Len(now.jobs) + 1
  BY LenProperties
<1>2. /\ Dups(now, input) \subseteq DOMAIN now.jobs /\ Folds(now, input) \subseteq Open(now, input)
      /\ Open(now, input) \subseteq DOMAIN now.jobs
  BY DEF Dups, Open, Folds, Queued
<1>3. ASSUME NEW i, NEW how, next.accepted = Noted(i, how) PROVE Recorded(now, input, i, how, next)
  <2>1. PICK x : x = [input |-> input, job |-> i, how |-> how]
    OBVIOUS
  <2>2. PICK t : t = Append(now.accepted, x)
    OBVIOUS
  <2>3. Longer(now.accepted, x, t)
    BY <2>2, AppendAt
  <2>4. next.accepted = t
    BY <1>3, <2>1, <2>2
  <2> QED
    BY <2>1, <2>3, <2>4 DEF Recorded, Longer
<1>4. CASE Dups(now, input) # {}
  <2>1. PICK i \in Dups(now, input) : next = [now EXCEPT !.accepted = Noted(i, "duplicate")]
    BY <1>4 DEF Accept, Dups
  <2>2. next = [jobs |-> now.jobs, accepted |-> Noted(i, "duplicate")]
    BY <2>1
  <2>3. next.jobs = now.jobs /\ next.accepted = Noted(i, "duplicate")
    BY <2>2
  <2> QED
    BY <1>1, <1>2, <1>3, <2>1, <2>2, <2>3 DEF Duplicate
<1>5. CASE Dups(now, input) = {} /\ Folds(now, input) # {}
  <2>1. PICK i \in Folds(now, input) :
          next = [jobs |-> [now.jobs EXCEPT ![i].payload = Fold(@, resolveInput(input).payload, now.jobs[i].batch)],
                  accepted |-> Noted(i, "folded")]
    BY <1>5 DEF Accept, Dups, Open, Folds
  <2>2. /\ next.jobs = [now.jobs EXCEPT ![i].payload = Fold(@, resolveInput(input).payload, now.jobs[i].batch)]
        /\ next.accepted = Noted(i, "folded")
    BY <2>1
  <2>3. i \in DOMAIN now.jobs
    BY <1>2
  <2>4. /\ next.jobs = [j \in DOMAIN now.jobs |-> next.jobs[j]]
        /\ \A j \in DOMAIN now.jobs \ {i} : next.jobs[j] = now.jobs[j]
        /\ next.jobs[i] = [now.jobs[i] EXCEPT !.payload = Fold(@, resolveInput(input).payload, now.jobs[i].batch)]
    BY <2>2, <2>3
  <2>5. next.jobs \in Seq(Range(next.jobs)) /\ DOMAIN next.jobs = DOMAIN now.jobs
    BY <2>4, Rewritten
  <2>6. PICK j : j = now.jobs[i]
    OBVIOUS
  <2>7. PICK f : f = Fold(j.payload, resolveInput(input).payload, j.batch)
    OBVIOUS
  <2>8. next.jobs[i] = [type |-> j.type, queue |-> j.queue, payload |-> f, key |-> j.key,
          batchKey |-> j.batchKey, batch |-> j.batch, sealed |-> j.sealed, state |-> j.state, by |-> j.by]
    BY <2>3, <2>4, <2>6, <2>7 DEF IsJob
  <2>9. j.sealed \in BOOLEAN /\ j.state \in {"queued", "done"}
    BY <2>3, <2>6 DEF IsJob
  <2>10. Kin(j, next.jobs[i]) /\ next.jobs[i].sealed = j.sealed /\ next.jobs[i].payload = f
    BY <2>8, <2>9 DEF Kin, IsJob
  <2>11. Folding(now, input, i, next)
    BY <1>3, <1>5, <2>2, <2>4, <2>5, <2>6, <2>7, <2>10 DEF Folding
  <2> QED
    BY <1>1, <2>1, <2>2, <2>3, <2>11
<1>6. CASE Dups(now, input) = {} /\ Folds(now, input) = {}
  <2> DEFINE kept == [i \in DOMAIN now.jobs |-> [now.jobs[i] EXCEPT !.sealed = @ \/ i \in Open(now, input)]]
             n == Len(now.jobs) + 1
  <2>1. next = [jobs |-> Append(kept, job), accepted |-> Noted(n, "created")]
    BY <1>6 DEF Accept, Dups, Open, Folds
  <2>2. next.jobs = Append(kept, job) /\ next.accepted = Noted(n, "created")
    BY <2>1
  <2>3. kept = [i \in DOMAIN now.jobs |-> kept[i]]
    OBVIOUS
  <2>4. kept \in Seq(Range(kept)) /\ Len(kept) = Len(now.jobs) /\ DOMAIN kept = DOMAIN now.jobs
    BY <2>3, Rewritten, Zenon
  <2>5. ASSUME NEW i \in DOMAIN now.jobs
        PROVE  /\ Kin(now.jobs[i], kept[i]) /\ kept[i].payload = now.jobs[i].payload
               /\ kept[i].sealed <=> now.jobs[i].sealed \/ i \in Open(now, input)
    <3>1. PICK j : j = now.jobs[i]
      OBVIOUS
    <3>2. PICK b \in BOOLEAN : b <=> j.sealed \/ i \in Open(now, input)
      OBVIOUS
    <3>3. IsJob(j)
      BY <3>1
    <3>4. kept[i] = [j EXCEPT !.sealed = b]
      <4>1. (j.sealed \/ i \in Open(now, input)) = b
        BY <3>2, <3>3 DEF IsJob
      <4> QED
        BY <3>1, <4>1
    <3>5. kept[i] = [type |-> j.type, queue |-> j.queue, payload |-> j.payload, key |-> j.key,
            batchKey |-> j.batchKey, batch |-> j.batch, sealed |-> b, state |-> j.state, by |-> j.by]
      BY <3>3, <3>4 DEF IsJob
    <3>6. j.state \in {"queued", "done"}
      BY <3>3 DEF IsJob
    <3> HIDE DEF kept
    <3> QED
      BY <3>1, <3>2, <3>5, <3>6 DEF Kin, IsJob
  <2> HIDE DEF kept
  <2>6. /\ next.jobs \in Seq(Range(next.jobs)) /\ DOMAIN next.jobs = 1..n /\ next.jobs[n] = job
        /\ \A i \in DOMAIN now.jobs : next.jobs[i] = kept[i]
    <3>1. PICK t : t = Append(kept, job)
      OBVIOUS
    <3> HIDE DEF job
    <3>2. Longer(kept, job, t)
      BY <2>4, <3>1, AppendAt
    <3>3. next.jobs = t
      BY <2>2, <3>1
    <3> QED
      BY <2>4, <3>2, <3>3 DEF Longer
  <2>7. /\ IsJob(job) /\ job.type = resolveInput(input).type /\ job.payload = resolveInput(input).payload
        /\ job.key = resolveInput(input).key /\ job.batchKey = resolveInput(input).batchKey
        /\ job.batch = resolveInput(input).batch /\ job.state = "queued" /\ ~job.sealed
    BY DEF IsJob
  <2> HIDE DEF job
  <2>8. Creating(now, input, n, next)
    BY <1>3, <1>6, <2>2, <2>5, <2>6, <2>7 DEF Creating
  <2> QED
    BY <1>1, <2>1, <2>2, <2>8
<1> QED
  BY <1>4, <1>5, <1>6

\* The inputs a job is made of, after another input.
LEMMA MineAfter ==
  ASSUME NEW now, Typed(now), NEW input, NEW i, NEW how, NEW next, Recorded(now, input, i, how, next), NEW j
  PROVE  Mine(next, j) = Mine(now, j) \cup IF j = i /\ how # "duplicate" THEN {Len(now.accepted) + 1} ELSE {}
<1> DEFINE m == Len(now.accepted) + 1
<1>1. /\ Len(now.accepted) \in Nat /\ DOMAIN now.accepted = 1..Len(now.accepted)
      /\ DOMAIN next.accepted = 1..m
      /\ \A k \in DOMAIN now.accepted : next.accepted[k] = now.accepted[k]
      /\ next.accepted[m] = [input |-> input, job |-> i, how |-> how]
  BY LenProperties DEF Typed, Recorded
<1>2. m \in DOMAIN next.accepted /\ \A k \in DOMAIN next.accepted : k \in DOMAIN now.accepted \/ k = m
  BY <1>1
<1>3. \A k \in DOMAIN now.accepted : k \in DOMAIN next.accepted
  BY <1>1
<1>4. next.accepted[m].job = i /\ next.accepted[m].how = how
  BY <1>1
<1> HIDE DEF m
<1>5. ASSUME NEW k \in DOMAIN now.accepted PROVE k \in Mine(next, j) <=> k \in Mine(now, j)
  BY <1>1, <1>3 DEF Mine
<1>6. m \in Mine(next, j) <=> j = i /\ how # "duplicate"
  BY <1>2, <1>4 DEF Mine
<1>7. Mine(next, j) \subseteq DOMAIN next.accepted /\ Mine(now, j) \subseteq DOMAIN now.accepted
  BY DEF Mine
<1> QED
  BY <1>2, <1>3, <1>5, <1>6, <1>7 DEF m

Outcome(now, input, i, next) ==
  Duplicate(now, input, i, next) \/ Folding(now, input, i, next) \/ Creating(now, input, i, next)

\* Every job stays, and one more there may be.
LEMMA JobsGrow ==
  ASSUME NEW now, Typed(now), NEW input, NEW i, NEW next, Outcome(now, input, i, next)
  PROVE  /\ next.jobs \in Seq(Range(next.jobs)) /\ i \in DOMAIN next.jobs
         /\ \E how \in {"created", "folded", "duplicate"} : Recorded(now, input, i, how, next)
         /\ \A j \in DOMAIN now.jobs : /\ j \in DOMAIN next.jobs /\ Kin(now.jobs[j], next.jobs[j])
                                       /\ now.jobs[j].sealed => next.jobs[j].sealed
         /\ \A j \in DOMAIN next.jobs : j \in DOMAIN now.jobs \/ (j = i /\ Creating(now, input, i, next))
<1>1. Len(now.jobs) \in Nat /\ DOMAIN now.jobs = 1..Len(now.jobs) /\ now.jobs \in Seq(Range(now.jobs))
  BY LenProperties DEF Typed
<1>2. \A j \in DOMAIN now.jobs : Kin(now.jobs[j], now.jobs[j])
  BY DEF Typed, Kin
<1>3. CASE Duplicate(now, input, i, next)
  BY <1>1, <1>2, <1>3 DEF Duplicate, Dups, Queued
<1>4. CASE Folding(now, input, i, next)
  <2>1. i \in DOMAIN now.jobs
    BY <1>4 DEF Folding, Folds, Open, Queued
  <2> QED
    BY <1>1, <1>2, <1>4, <2>1 DEF Folding
<1>5. CASE Creating(now, input, i, next)
  <2>1. DOMAIN next.jobs = 1..Len(now.jobs) + 1 /\ i = Len(now.jobs) + 1
    BY <1>5 DEF Creating
  <2>2. \A j \in DOMAIN next.jobs : j \in DOMAIN now.jobs \/ j = i
    BY <1>1, <2>1
  <2>3. i \in DOMAIN next.jobs /\ \A j \in DOMAIN now.jobs : j \in DOMAIN next.jobs
    BY <1>1, <2>1
  <2> QED
    BY <1>5, <2>2, <2>3 DEF Creating
<1> QED
  BY <1>3, <1>4, <1>5 DEF Outcome

\* What was accepted stays, and one more.
LEMMA AcceptedGrow ==
  ASSUME NEW now, Typed(now), NEW input, NEW i, NEW how, NEW next, Recorded(now, input, i, how, next),
         NEW m, m = Len(now.accepted) + 1
  PROVE  /\ m \in DOMAIN next.accepted /\ m \notin DOMAIN now.accepted
         /\ \A k \in DOMAIN next.accepted : k \in DOMAIN now.accepted \/ k = m
         /\ \A k \in DOMAIN now.accepted : k \in DOMAIN next.accepted /\ next.accepted[k] = now.accepted[k]
         /\ next.accepted[m].input = input /\ next.accepted[m].job = i /\ next.accepted[m].how = how
<1>1. Len(now.accepted) \in Nat /\ DOMAIN now.accepted = 1..Len(now.accepted)
  BY LenProperties DEF Typed
<1>2. /\ DOMAIN next.accepted = 1..m
      /\ \A k \in DOMAIN now.accepted : next.accepted[k] = now.accepted[k]
      /\ next.accepted[m] = [input |-> input, job |-> i, how |-> how]
  BY DEF Recorded
<1>3. next.accepted[m].input = input /\ next.accepted[m].job = i /\ next.accepted[m].how = how
  BY <1>2
<1>4. /\ m \in DOMAIN next.accepted /\ m \notin DOMAIN now.accepted
      /\ \A k \in DOMAIN next.accepted : k \in DOMAIN now.accepted \/ k = m
      /\ \A k \in DOMAIN now.accepted : k \in DOMAIN next.accepted
  BY <1>1, <1>2
<1> QED
  BY <1>2, <1>3, <1>4

LEMMA AcceptTyped ==
  ASSUME NEW now, Typed(now), NEW input \in Sent, NEW i, NEW next, Outcome(now, input, i, next)
  PROVE  Typed(next)
<1>1. PICK how \in {"created", "folded", "duplicate"} : Recorded(now, input, i, how, next)
  BY JobsGrow
<1>2. PICK m : m = Len(now.accepted) + 1
  OBVIOUS
<1>3. /\ m \in DOMAIN next.accepted /\ \A k \in DOMAIN next.accepted : k \in DOMAIN now.accepted \/ k = m
      /\ \A k \in DOMAIN now.accepted : next.accepted[k] = now.accepted[k]
      /\ next.accepted[m].input = input /\ next.accepted[m].job = i /\ next.accepted[m].how = how
  BY <1>1, <1>2, AcceptedGrow
<1>4. next.jobs \in Seq(Range(next.jobs)) /\ i \in DOMAIN next.jobs
  BY JobsGrow
<1>5. ASSUME NEW j \in DOMAIN next.jobs PROVE IsJob(next.jobs[j])
  <2>1. CASE j \in DOMAIN now.jobs
    BY <2>1, JobsGrow DEF Kin
  <2>2. CASE j = i /\ Creating(now, input, i, next)
    BY <2>2 DEF Creating
  <2> QED
    BY <2>1, <2>2, JobsGrow
<1>6. ASSUME NEW k \in DOMAIN next.accepted
      PROVE  /\ next.accepted[k].input \in Sent
             /\ next.accepted[k].job \in DOMAIN next.jobs
             /\ next.accepted[k].how \in {"created", "folded", "duplicate"}
  <2>1. CASE k \in DOMAIN now.accepted
    <3>1. next.accepted[k] = now.accepted[k]
      BY <1>3, <2>1
    <3>2. /\ now.accepted[k].input \in Sent
          /\ now.accepted[k].job \in DOMAIN now.jobs
          /\ now.accepted[k].how \in {"created", "folded", "duplicate"}
      BY <2>1 DEF Typed
    <3>3. now.accepted[k].job \in DOMAIN next.jobs
      BY <3>2, JobsGrow
    <3> QED
      BY <3>1, <3>2, <3>3
  <2>2. CASE k = m
    BY <1>3, <1>4, <2>2
  <2> QED
    BY <1>3, <2>1, <2>2
<1>7. next.accepted \in Seq(Range(next.accepted))
  BY <1>1 DEF Recorded
<1> QED
  BY <1>4, <1>5, <1>6, <1>7 DEF Typed

\* One key is of one type, and of payloads whose hashed parts are equal.
LEMMA OneBatchKey ==
  ASSUME NEW a, Written(a), NEW b, Written(b),
         KeyOf(a, Batched(a)) = KeyOf(b, Batched(b)), KeyOf(b, Batched(b)) # {}
  PROVE  /\ a.batch # Unset /\ b.batch # Unset /\ TypeOf(a) = TypeOf(b)
         /\ deriveHashable(a.payload, a.batch.policy) = deriveHashable(b.payload, b.batch.policy)
<1>1. a.batch # Unset /\ b.batch # Unset
  BY DEF KeyOf, Batched
<1>2. Batched(a) = {a.batch.policy} /\ Batched(b) = {b.batch.policy}
  BY <1>1 DEF Batched
<1>3. /\ KeyOf(a, Batched(a)) = {Hash(TypeOf(a), a.payload, a.batch.policy)}
      /\ KeyOf(b, Batched(b)) = {Hash(TypeOf(b), b.payload, b.batch.policy)}
  BY <1>2 DEF KeyOf
<1>4. Hash(TypeOf(a), a.payload, a.batch.policy) = Hash(TypeOf(b), b.payload, b.batch.policy)
  BY <1>3
<1>5. a.batch.policy.prefix /\ b.batch.policy.prefix
  <2>1. /\ a.batch = batchConfig(a.batch.limit, a.batch.path, a.batch.mode)
        /\ b.batch = batchConfig(b.batch.limit, b.batch.path, b.batch.mode)
    BY <1>1 DEF Written, Sendable
  <2>2. \A n, s, mode : batchConfig(n, s, mode).policy.prefix = TRUE
    BY DEF batchConfig
  <2> QED
    BY <2>1, <2>2
<1>6. /\ Hash(TypeOf(a), a.payload, a.batch.policy) = <<TypeOf(a), deriveHashable(a.payload, a.batch.policy)>>
      /\ Hash(TypeOf(b), b.payload, b.batch.policy) = <<TypeOf(b), deriveHashable(b.payload, b.batch.policy)>>
  BY <1>5 DEF Hash
<1>7. <<TypeOf(a), deriveHashable(a.payload, a.batch.policy)>> = <<TypeOf(b), deriveHashable(b.payload, b.batch.policy)>>
  BY <1>4, <1>6
<1> QED
  BY <1>1, <1>7

LEMMA AcceptKeyed ==
  ASSUME NEW now, Typed(now), Keyed(now), \A a \in Sent : Written(a),
         NEW input \in Sent, NEW i, NEW next, Outcome(now, input, i, next)
  PROVE  Keyed(next)
<1>1. PICK how \in {"created", "folded", "duplicate"} : Recorded(now, input, i, how, next)
  BY JobsGrow
<1>2. PICK m : m = Len(now.accepted) + 1
  OBVIOUS
<1>3. /\ m \in DOMAIN next.accepted /\ m \notin DOMAIN now.accepted
      /\ \A k \in DOMAIN next.accepted : k \in DOMAIN now.accepted \/ k = m
      /\ \A k \in DOMAIN now.accepted : next.accepted[k] = now.accepted[k]
      /\ next.accepted[m].input = input /\ next.accepted[m].job = i /\ next.accepted[m].how = how
  BY <1>1, <1>2, AcceptedGrow
<1>4. \A j : Mine(next, j) = Mine(now, j) \cup IF j = i /\ how # "duplicate" THEN {m} ELSE {}
  BY <1>1, <1>2, MineAfter
<1>5. resolveInput(input).key = {} \/ resolveInput(input).batchKey = {}
  BY DEF Sent, Refused
<1>7. /\ Creating(now, input, i, next) => how = "created"
      /\ Folding(now, input, i, next) => how = "folded"
      /\ Duplicate(now, input, i, next) => how = "duplicate"
  <2>1. ASSUME NEW other, Recorded(now, input, i, other, next) PROVE how = other
    <3>1. next.accepted[m].how = other
      BY <1>2, <2>1, AcceptedGrow
    <3> QED
      BY <1>3, <3>1
  <2> QED
    BY <2>1 DEF Creating, Folding, Duplicate
<1>8. ASSUME NEW j, NEW k \in Mine(now, j), j \in DOMAIN now.jobs
      PROVE  /\ k \in DOMAIN now.accepted /\ now.accepted[k].input \in Sent /\ now.accepted[k].job = j
             /\ now.jobs[j].batchKey = resolveInput(now.accepted[k].input).batchKey
  <2>1. k \in DOMAIN now.accepted /\ now.accepted[k].job = j
    BY <1>8 DEF Mine
  <2> QED
    BY <1>8, <2>1 DEF Typed, Keyed
<1>9. ASSUME Folding(now, input, i, next)
      PROVE  /\ i \in DOMAIN now.jobs /\ resolveInput(input).batchKey # {}
             /\ next.jobs[i].batchKey = resolveInput(input).batchKey
             /\ next.jobs[i].key = resolveInput(input).key
  <2>1. /\ i \in DOMAIN now.jobs /\ resolveInput(input).batchKey # {}
        /\ now.jobs[i].batchKey = resolveInput(input).batchKey /\ Kin(now.jobs[i], next.jobs[i])
    BY <1>9 DEF Folding, Folds, Open, Queued
  <2>2. now.jobs[i].key = {} /\ resolveInput(input).key = {}
    BY <1>5, <2>1 DEF Keyed
  <2> QED
    BY <2>1, <2>2 DEF Kin
<1>10. ASSUME NEW j \in DOMAIN next.jobs
       PROVE  /\ Mine(next, j) # {}
              /\ \A k \in Mine(next, j) : next.jobs[j].batchKey = resolveInput(next.accepted[k].input).batchKey
              /\ next.jobs[j].batchKey # {} => next.jobs[j].key = {}
              /\ KeepsType(next, j) =>
                   \A k \in Mine(next, j) : next.jobs[j].type = TypeOf(next.accepted[k].input)
  <2>a. ASSUME KeepsType(next, j), NEW k \in Mine(next, j)
        PROVE  /\ resolveInput(next.accepted[k].input).type = TypeOf(next.accepted[k].input)
               /\ resolveInput(next.accepted[k].input).batchKey
                    = KeyOf(next.accepted[k].input, Batched(next.accepted[k].input))
    BY <2>a DEF KeepsType, Keeps, Merged
  <2>1. CASE j \in DOMAIN now.jobs
    <3>1. Kin(now.jobs[j], next.jobs[j])
      BY <2>1, JobsGrow
    <3>2. Mine(next, j) # {}
      BY <1>4, <2>1 DEF Keyed
    <3>3. next.jobs[j].batchKey # {} => next.jobs[j].key = {}
      BY <2>1, <3>1 DEF Keyed, Kin
    <3>4. ASSUME NEW k \in Mine(now, j)
          PROVE  /\ k \in Mine(next, j) /\ next.accepted[k] = now.accepted[k]
                 /\ next.jobs[j].batchKey = resolveInput(next.accepted[k].input).batchKey
      BY <1>3, <1>4, <1>8, <2>1, <3>1 DEF Kin
    <3>5. ASSUME NEW k \in Mine(next, j), k \notin Mine(now, j)
          PROVE  Folding(now, input, i, next) /\ j = i /\ next.accepted[k].input = input
      <4>1. k = m /\ j = i /\ how # "duplicate"
        BY <1>4, <3>5
      <4>2. ~Creating(now, input, i, next)
        <5>1. Len(now.jobs) \in Nat /\ DOMAIN now.jobs = 1..Len(now.jobs)
          BY LenProperties DEF Typed
        <5>2. Len(now.jobs) + 1 \notin DOMAIN now.jobs
          BY <5>1
        <5> QED
          BY <2>1, <4>1, <5>2 DEF Creating
      <4>3. Folding(now, input, i, next)
        BY <1>7, <4>1, <4>2 DEF Outcome
      <4> QED
        BY <1>3, <4>1, <4>3
    <3>6. \A k \in Mine(next, j) : next.jobs[j].batchKey = resolveInput(next.accepted[k].input).batchKey
      BY <1>9, <3>4, <3>5
    <3>7. ASSUME KeepsType(next, j), NEW k \in Mine(next, j)
          PROVE  next.jobs[j].type = TypeOf(next.accepted[k].input)
      <4>1. KeepsType(now, j)
        BY <3>4, <3>7 DEF KeepsType
      <4>2. \A n \in Mine(now, j) : now.jobs[j].type = TypeOf(now.accepted[n].input)
        BY <2>1, <4>1 DEF Keyed
      <4>3. CASE k \in Mine(now, j)
        BY <3>1, <3>4, <4>2, <4>3 DEF Kin
      <4>4. CASE k \notin Mine(now, j)
        <5>1. Folding(now, input, i, next) /\ j = i /\ next.accepted[k].input = input
          BY <3>5, <4>4
        <5>2. PICK n \in Mine(now, j) : TRUE
          BY <2>1 DEF Keyed
        <5>3. PICK a : a = now.accepted[n].input
          OBVIOUS
        <5>4. a = next.accepted[n].input /\ n \in Mine(next, j)
          BY <3>4, <5>3
        <5>5. a \in Sent
          BY <1>8, <2>1, <5>3
        <5>6. next.jobs[j].batchKey = resolveInput(a).batchKey /\ next.jobs[j].batchKey = resolveInput(input).batchKey
          BY <3>6, <5>1, <5>4
        <5>7. resolveInput(input).batchKey # {}
          BY <1>9, <5>1
        <5>8. resolveInput(a).batchKey = KeyOf(a, Batched(a)) /\ resolveInput(input).batchKey = KeyOf(input, Batched(input))
          BY <2>a, <3>7, <5>1, <5>4
        <5>9. TypeOf(a) = TypeOf(input)
          BY <5>5, <5>6, <5>7, <5>8, OneBatchKey
        <5> QED
          BY <3>1, <4>2, <5>1, <5>3, <5>9 DEF Kin
      <4> QED
        BY <4>3, <4>4
    <3> QED
      BY <3>2, <3>3, <3>6, <3>7
  <2>2. CASE j \notin DOMAIN now.jobs
    <3>1. j = i /\ Creating(now, input, i, next) /\ how = "created"
      BY <1>7, <2>2, JobsGrow
    <3>2. Mine(now, j) = {}
      BY <2>2 DEF Mine, Typed
    <3>3. Mine(next, j) = {m}
      BY <1>4, <3>1, <3>2
    <3>4. /\ next.jobs[j].type = resolveInput(input).type /\ next.jobs[j].key = resolveInput(input).key
          /\ next.jobs[j].batchKey = resolveInput(input).batchKey
      BY <3>1 DEF Creating
    <3>5. KeepsType(next, j) => resolveInput(input).type = TypeOf(input)
      BY <1>3, <2>a, <3>3
    <3> QED
      BY <1>3, <1>5, <3>3, <3>4, <3>5
  <2> QED
    BY <2>1, <2>2
<1>11. ASSUME NEW k \in DOMAIN next.accepted
       PROVE  next.jobs[next.accepted[k].job].key = resolveInput(next.accepted[k].input).key
  <2>1. CASE k \in DOMAIN now.accepted
    <3>1. next.accepted[k] = now.accepted[k] /\ now.accepted[k].job \in DOMAIN now.jobs
      BY <1>3, <2>1 DEF Typed
    <3>2. now.jobs[now.accepted[k].job].key = resolveInput(now.accepted[k].input).key
      BY <2>1 DEF Keyed
    <3>3. Kin(now.jobs[now.accepted[k].job], next.jobs[now.accepted[k].job])
      BY <3>1, JobsGrow
    <3> QED
      BY <3>1, <3>2, <3>3 DEF Kin
  <2>2. CASE k = m
    <3>1. CASE Duplicate(now, input, i, next)
      BY <1>3, <2>2, <3>1 DEF Duplicate, Dups
    <3>2. CASE Folding(now, input, i, next)
      BY <1>3, <1>9, <2>2, <3>2
    <3>3. CASE Creating(now, input, i, next)
      BY <1>3, <2>2, <3>3 DEF Creating
    <3> QED
      BY <3>1, <3>2, <3>3 DEF Outcome
  <2> QED
    BY <1>3, <2>1, <2>2
<1>12. \A j \in Queued(next.jobs) :
         \/ j \in Queued(now.jobs) /\ next.jobs[j].key = now.jobs[j].key
         \/ j = i /\ Creating(now, input, i, next)
  <2> SUFFICES ASSUME NEW j \in Queued(next.jobs), j \in DOMAIN now.jobs
               PROVE  j \in Queued(now.jobs) /\ next.jobs[j].key = now.jobs[j].key
    BY JobsGrow DEF Queued
  <2>1. Kin(now.jobs[j], next.jobs[j])
    BY JobsGrow
  <2> QED
    BY <2>1 DEF Kin, Queued
<1>13. ASSUME Creating(now, input, i, next), NEW j \in Queued(now.jobs), next.jobs[i].key # {}
       PROVE  now.jobs[j].key # next.jobs[i].key
  BY <1>13 DEF Creating, Dups
<1>14. \A j, k \in Queued(next.jobs) :
         j # k /\ next.jobs[j].key # {} => next.jobs[j].key # next.jobs[k].key
  <2> SUFFICES ASSUME NEW j \in Queued(next.jobs), NEW k \in Queued(next.jobs),
                      j # k, next.jobs[j].key # {}, next.jobs[j].key = next.jobs[k].key
               PROVE  FALSE
    OBVIOUS
  <2>1. CASE j \in Queued(now.jobs) /\ next.jobs[j].key = now.jobs[j].key
    <3>1. CASE k \in Queued(now.jobs) /\ next.jobs[k].key = now.jobs[k].key
      BY <2>1, <3>1 DEF Keyed
    <3>2. CASE k = i /\ Creating(now, input, i, next)
      BY <1>13, <2>1, <3>2
    <3> QED
      BY <1>12, <3>1, <3>2
  <2>2. CASE j = i /\ Creating(now, input, i, next)
    <3>1. k \in Queued(now.jobs) /\ next.jobs[k].key = now.jobs[k].key
      BY <1>12, <2>2
    <3> QED
      BY <1>13, <2>2, <3>1
  <2> QED
    BY <1>12, <2>1, <2>2
<1> QED
  BY <1>10, <1>11, <1>14 DEF Keyed

-----------------------------------------------------------------------------
(* The invariants of types, keys and routes. *)

IsState(now) == now = [jobs |-> now.jobs, accepted |-> now.accepted]

LEMMA Accepted ==
  ASSUME NEW now, IsState(now), Typed(now), NEW input, NEW next, next = Accept(now, input)
  PROVE  IsState(next) /\ \E i : Outcome(now, input, i, next)
<1>1. \A i \in DOMAIN now.jobs : IsJob(now.jobs[i])
  BY DEF Typed
<1>2. now.jobs \in Seq(Range(now.jobs)) /\ now.accepted \in Seq(Range(now.accepted))
  BY DEF Typed
<1>3. now = [jobs |-> now.jobs, accepted |-> now.accepted]
  BY DEF IsState
<1>4. /\ next = [jobs |-> next.jobs, accepted |-> next.accepted]
      /\ \E i \in 1..Len(now.jobs) + 1 : \/ Duplicate(now, input, i, next)
                                         \/ Folding(now, input, i, next)
                                         \/ Creating(now, input, i, next)
  BY <1>1, <1>2, <1>3, Outcomes
<1> QED
  BY <1>4 DEF IsState, Outcome

\* The server takes an input.
Takes(now, next) == \E input \in Sent : \E i : Outcome(now, input, i, next)

\* A request: one input, or two one after the other.
LEMMA Requests ==
  ASSUME TypeInv, enqueue \/ enqueueBulk
  PROVE  \E next : /\ Send(next) /\ IsState(next)
                   /\ \/ Takes(Now, next)
                      \/ \E mid : Takes(Now, mid) /\ IsState(mid) /\ Takes(mid, next)
<1>1. IsState(Now) /\ Typed(Now)
  BY DEF IsState, Now, TypeInv
<1>2. CASE enqueue
  <2>1. PICK a \in Sent : Send(Accept(Now, a))
    BY <1>2 DEF enqueue
  <2>2. PICK next : next = Accept(Now, a)
    OBVIOUS
  <2>3. IsState(next) /\ \E i : Outcome(Now, a, i, next)
    BY <1>1, <2>2, Accepted
  <2> QED
    BY <2>1, <2>2, <2>3 DEF Takes
<1>3. CASE enqueueBulk
  <2>1. PICK a \in Sent, b \in Sent : Send(Accept(Accept(Now, a), b))
    BY <1>3 DEF enqueueBulk
  <2>2. PICK mid : mid = Accept(Now, a)
    OBVIOUS
  <2>3. PICK next : next = Accept(mid, b)
    OBVIOUS
  <2>4. PICK i : IsState(mid) /\ Outcome(Now, a, i, mid)
    BY <1>1, <2>2, Accepted
  <2>5. Typed(mid)
    BY <1>1, <2>4, AcceptTyped
  <2>6. PICK j : IsState(next) /\ Outcome(mid, b, j, next)
    BY <2>3, <2>4, <2>5, Accepted
  <2>7. Send(next)
    BY <2>1, <2>2, <2>3
  <2> QED
    BY <2>4, <2>6, <2>7 DEF Takes
<1> QED
  BY <1>2, <1>3

\* A job that was handled was handled by the route of its type.
Settled(now) ==
  \A i \in DOMAIN now.jobs : now.jobs[i].state = "done" /\ now.jobs[i].type \in DOMAIN routes
                               => now.jobs[i].by = routes[now.jobs[i].type].name

LEMMA AcceptSettled ==
  ASSUME NEW now, Typed(now), Settled(now), NEW input, NEW i, NEW next, Outcome(now, input, i, next)
  PROVE  Settled(next)
<1> SUFFICES ASSUME NEW j \in DOMAIN next.jobs, next.jobs[j].state = "done",
                    next.jobs[j].type \in DOMAIN routes
             PROVE  next.jobs[j].by = routes[next.jobs[j].type].name
  BY DEF Settled
<1>1. CASE j \in DOMAIN now.jobs
  <2>1. Kin(now.jobs[j], next.jobs[j])
    BY <1>1, JobsGrow
  <2> QED
    BY <1>1, <2>1 DEF Settled, Kin
<1>2. CASE j = i /\ Creating(now, input, i, next)
  BY <1>2 DEF Creating
<1> QED
  BY <1>1, <1>2, JobsGrow

\* What a job that is handled keeps.
LEMMA Dispatched ==
  ASSUME TypeInv, Dispatch
  PROVE  \E i \in Queued(jobs) :
           /\ jobs' \in Seq(Range(jobs')) /\ DOMAIN jobs' = DOMAIN jobs /\ i \in DOMAIN jobs
           /\ \A j \in DOMAIN jobs \ {i} : jobs'[j] = jobs[j]
           /\ IsJob(jobs'[i]) /\ jobs'[i].type = jobs[i].type /\ jobs'[i].key = jobs[i].key
           /\ jobs'[i].batchKey = jobs[i].batchKey /\ jobs'[i].batch = jobs[i].batch
           /\ jobs'[i].payload = jobs[i].payload /\ jobs'[i].sealed = jobs[i].sealed
           /\ jobs'[i].state = "done"
           /\ jobs[i].type \in DOMAIN routes => jobs'[i].by = routes[jobs[i].type].name
<1>a. PICK i \in Queued(jobs) :
        \/ \E f \in Routed(jobs[i].type) : jobs' = [jobs EXCEPT ![i] = Handled(jobs[i], f.name)]
        \/ /\ Routed(jobs[i].type) = {}
           /\ jobs' = [jobs EXCEPT ![i] = Handled(jobs[i], "fallback")]
  BY DEF Dispatch
<1>b. Routed(jobs[i].type) = IF jobs[i].type \in DOMAIN routes THEN {routes[jobs[i].type]} ELSE {}
  BY DEF Routed
<1>1. PICK name : /\ jobs' = [jobs EXCEPT ![i] = Handled(jobs[i], name)]
                  /\ jobs[i].type \in DOMAIN routes => name = routes[jobs[i].type].name
  BY <1>a, <1>b
<1>2. /\ jobs \in Seq(Range(jobs)) /\ i \in DOMAIN jobs /\ IsJob(jobs[i])
  BY DEF TypeInv, Typed, Now, Queued
<1>3. PICK j : j = jobs[i]
  OBVIOUS
<1>4. PICK h : h = Handled(j, name)
  OBVIOUS
<1>5. h = [type |-> j.type, queue |-> j.queue, payload |-> j.payload, key |-> j.key,
        batchKey |-> j.batchKey, batch |-> j.batch, sealed |-> j.sealed, state |-> "done", by |-> name]
  <2>1. h = [j EXCEPT !.state = "done", !.by = name]
    BY <1>4 DEF Handled
  <2>2. j = [type |-> j.type, queue |-> j.queue, payload |-> j.payload, key |-> j.key,
          batchKey |-> j.batchKey, batch |-> j.batch, sealed |-> j.sealed, state |-> j.state, by |-> j.by]
    BY <1>2, <1>3 DEF IsJob
  <2> QED
    BY <2>1, <2>2
<1>6. j.sealed \in BOOLEAN
  BY <1>2, <1>3 DEF IsJob
<1>7. /\ IsJob(h) /\ h.type = j.type /\ h.key = j.key /\ h.batchKey = j.batchKey /\ h.batch = j.batch
      /\ h.payload = j.payload /\ h.sealed = j.sealed /\ h.state = "done" /\ h.by = name
  BY <1>5, <1>6 DEF IsJob
<1>8. jobs' = [jobs EXCEPT ![i] = h]
  BY <1>1, <1>3, <1>4
<1>9. /\ jobs' = [k \in DOMAIN jobs |-> jobs'[k]] /\ \A k \in DOMAIN jobs \ {i} : jobs'[k] = jobs[k]
      /\ jobs'[i] = h /\ DOMAIN jobs' = DOMAIN jobs
  BY <1>2, <1>8
<1>10. jobs' \in Seq(Range(jobs'))
  BY <1>2, <1>9, Rewritten
<1> QED
  BY <1>1, <1>2, <1>3, <1>7, <1>9, <1>10

\* The routes, by the type they are of.
LEMMA RoutesAreOfTheirType ==
  ASSUME NEW fns, fns \in Seq(Range(fns))
  PROVE  \A type \in DOMAIN Routes(fns) : typeName(Routes(fns)[type]) = type
<1> SUFFICES ASSUME NEW type \in DOMAIN Routes(fns)
             PROVE  typeName(Routes(fns)[type]) = type
  OBVIOUS
<1> DEFINE n == Len(fns)
           S == {i \in Nat : i <= n /\ n - i \in DOMAIN fns /\ typeName(fns[n - i]) = type}
<1>1. n \in Nat /\ DOMAIN fns = 1..n /\ Range(fns) = {fns[i] : i \in 1..n}
  BY LenProperties, RangeEquality
<1>2. PICK f \in Range(fns) : typeName(f) = type
  BY DEF Routes
<1>3. PICK i \in 1..n : fns[i] = f
  BY <1>1
<1>4. n - i \in Nat /\ n - i <= n /\ n - (n - i) = i
  BY <1>1
<1>5. n - i \in S
  BY <1>1, <1>2, <1>3, <1>4
<1>6. PICK x \in S : \A y \in S : x <= y
  <2>1. S \in SUBSET Nat /\ S # {}
    BY <1>5
  <2> QED
    BY <2>1, LeastExists
<1>7. n - x \in DOMAIN fns /\ typeName(fns[n - x]) = type /\ x \in Nat
  BY <1>6
<1>8. ASSUME NEW j \in DOMAIN fns, typeName(fns[j]) = type PROVE j <= n - x
  <2>1. n - j \in Nat /\ n - j <= n /\ n - (n - j) = j
    BY <1>1
  <2>2. n - j \in S
    BY <1>8, <2>1
  <2>3. x <= n - j
    BY <1>6, <2>2
  <2> QED
    BY <1>1, <1>7, <2>3
<1>9. /\ LatestOf(fns, type) \in DOMAIN fns /\ typeName(fns[LatestOf(fns, type)]) = type
  BY <1>7, <1>8 DEF LatestOf
<1> QED
  BY <1>9 DEF Routes

\* The policies of what a program enqueues can be told apart by their hashes.
SteadyInv == \A input \in inputs : \A policy \in Unique(input) : Steady(policy)

IInv == TypeInv /\ KeysInv /\ RouteInv

LEMMA IInvInit == Init => IInv
<1> SUFFICES ASSUME Init PROVE IInv
  OBVIOUS
<1>1. PICK p \in Programs : inputs = p.inputs /\ routes = Routes(p.fns)
  BY DEF Init
<1>2. jobs = <<>> /\ accepted = <<>>
  BY DEF Init
<1>3. <<>> \in Seq(Range(<<>>)) /\ DOMAIN <<>> = {}
  OBVIOUS
<1>4. Now.jobs = <<>> /\ Now.accepted = <<>>
  BY <1>2 DEF Now
<1>5. TypeInv
  BY <1>1, <1>3, <1>4, ProgramsAssumption DEF TypeInv, Typed
<1>6. KeysInv
  BY <1>3, <1>4 DEF KeysInv, Keyed, Queued
<1>7. RouteInv
  <2>1. \A type \in DOMAIN routes : typeName(routes[type]) = type
    BY <1>1, RoutesAreOfTheirType, ProgramsAssumption
  <2> QED
    BY <1>2, <1>3, <2>1 DEF RouteInv
<1> QED
  BY <1>5, <1>6, <1>7 DEF IInv

LEMMA IInvStep ==
  ASSUME IInv, [Next]_vars
  PROVE  IInv'
<1>1. /\ TypeInv /\ KeysInv /\ RouteInv /\ Typed(Now) /\ Keyed(Now) /\ Settled(Now)
      /\ Now.jobs = jobs /\ Now.accepted = accepted
      /\ \A input \in inputs : Written(input)
      /\ \A input \in Sent : Written(input)
  BY DEF IInv, TypeInv, KeysInv, RouteInv, Settled, Now, Sent
<1>2. CASE enqueue \/ enqueueBulk
  <2>1. PICK next :
          /\ Send(next) /\ IsState(next)
          /\ \/ Takes(Now, next)
             \/ \E mid : Takes(Now, mid) /\ IsState(mid) /\ Takes(mid, next)
    BY <1>1, <1>2, Requests
  <2>2. Typed(next) /\ Keyed(next) /\ Settled(next)
    <3>1. ASSUME NEW now, NEW then, Typed(now), Keyed(now), Settled(now), Takes(now, then)
          PROVE  Typed(then) /\ Keyed(then) /\ Settled(then)
      BY <1>1, <3>1, AcceptTyped, AcceptKeyed, AcceptSettled DEF Takes
    <3> QED
      BY <1>1, <2>1, <3>1
  <2>3. jobs' = next.jobs /\ accepted' = next.accepted /\ UNCHANGED <<inputs, routes, fallback>>
    BY <2>1 DEF Send
  <2>4. Now' = next /\ Sent' = Sent
    BY <2>1, <2>3 DEF Now, IsState, Sent
  <2>5. TypeInv'
    BY <1>1, <2>2, <2>3, <2>4 DEF TypeInv, Typed
  <2>6. KeysInv'
    BY <2>2, <2>4 DEF KeysInv
  <2>7. RouteInv'
    BY <1>1, <2>2, <2>3 DEF RouteInv, Settled
  <2> QED
    BY <2>5, <2>6, <2>7 DEF IInv
<1>3. CASE Dispatch
  <2>1. PICK i \in Queued(jobs) :
           /\ jobs' \in Seq(Range(jobs')) /\ DOMAIN jobs' = DOMAIN jobs /\ i \in DOMAIN jobs
           /\ \A j \in DOMAIN jobs \ {i} : jobs'[j] = jobs[j]
           /\ IsJob(jobs'[i]) /\ jobs'[i].type = jobs[i].type /\ jobs'[i].key = jobs[i].key
           /\ jobs'[i].batchKey = jobs[i].batchKey /\ jobs'[i].batch = jobs[i].batch
           /\ jobs'[i].payload = jobs[i].payload /\ jobs'[i].sealed = jobs[i].sealed
           /\ jobs'[i].state = "done"
           /\ jobs[i].type \in DOMAIN routes => jobs'[i].by = routes[jobs[i].type].name
    BY <1>1, <1>3, Dispatched
  <2>2. UNCHANGED <<accepted, inputs, routes, fallback>>
    BY <1>3 DEF Dispatch
  <2>3. Now'.jobs = jobs' /\ Now'.accepted = accepted /\ Sent' = Sent
    BY <2>2 DEF Now, Sent
  <2>4. TypeInv'
    <3>1. \A j \in DOMAIN jobs' : IsJob(jobs'[j])
      BY <1>1, <2>1 DEF Typed
    <3>2. \A k \in DOMAIN accepted : /\ accepted[k].input \in Sent /\ accepted[k].job \in DOMAIN jobs'
                                     /\ accepted[k].how \in {"created", "folded", "duplicate"}
      BY <1>1, <2>1 DEF Typed
    <3>3. accepted \in Seq(Range(accepted))
      BY <1>1 DEF Typed
    <3> QED
      BY <1>1, <2>1, <2>2, <2>3, <3>1, <3>2, <3>3 DEF TypeInv, Typed
  <2>5. \A j : Mine(Now', j) = Mine(Now, j)
    BY <1>1, <2>3 DEF Mine
  <2>6. \A j \in DOMAIN jobs : /\ jobs'[j].type = jobs[j].type /\ jobs'[j].key = jobs[j].key
                               /\ jobs'[j].batchKey = jobs[j].batchKey
    BY <2>1
  <2>7. KeysInv'
    <3>1. \A j \in DOMAIN jobs' :
            /\ Mine(Now', j) # {}
            /\ \A k \in Mine(Now', j) : jobs'[j].batchKey = resolveInput(accepted[k].input).batchKey
            /\ KeepsType(Now', j) => \A k \in Mine(Now', j) : jobs'[j].type = TypeOf(accepted[k].input)
            /\ jobs'[j].batchKey # {} => jobs'[j].key = {}
      <4>1. \A j : KeepsType(Now', j) <=> KeepsType(Now, j)
        BY <1>1, <2>3, <2>5 DEF KeepsType
      <4> QED
        BY <1>1, <2>1, <2>5, <2>6, <4>1 DEF Keyed
    <3>2. \A k \in DOMAIN accepted : jobs'[accepted[k].job].key = resolveInput(accepted[k].input).key
      BY <1>1, <2>6 DEF Keyed, Typed
    <3>3. \A j \in Queued(jobs') : j \in Queued(jobs) /\ j \in DOMAIN jobs
      BY <2>1 DEF Queued
    <3>4. \A j, k \in Queued(jobs') : j # k /\ jobs'[j].key # {} => jobs'[j].key # jobs'[k].key
      BY <1>1, <2>6, <3>3 DEF Keyed
    <3> QED
      BY <2>2, <2>3, <3>1, <3>2, <3>4 DEF KeysInv, Keyed
  <2>8. RouteInv'
    BY <1>1, <2>1, <2>2 DEF RouteInv
  <2> QED
    BY <2>4, <2>7, <2>8 DEF IInv
<1>4. CASE UNCHANGED vars
  <2>1. Now' = Now /\ Sent' = Sent /\ UNCHANGED <<inputs, routes, jobs>>
    BY <1>4 DEF vars, Now, Sent
  <2> QED
    BY <1>1, <2>1 DEF IInv, TypeInv, KeysInv, RouteInv, Typed
<1> QED
  BY <1>2, <1>3, <1>4 DEF Next

LEMMA IInvHolds == Spec => []IInv
  BY IInvInit, IInvStep, PTL DEF Spec

\* The types of the server's jobs, of what was accepted and of what is enqueued.
THEOREM JobsAreTyped == Spec => []TypeInv
<1>1. IInv => TypeInv
  BY DEF IInv
<1> QED
  BY <1>1, IInvHolds, PTL

\* A job enqueued with a function that the worker has is run by that function,
\* for any functions, inputs and routes.
THEOREM JobsReachTheirFunction == Spec => []ReachesItsFunction
<1>1. IInv => ReachesItsFunction
  <2> SUFFICES ASSUME IInv, NEW k \in DOMAIN accepted, accepted[k].input.fn # Unset,
                      accepted[k].input.fn \in Range(routes), accepted[k].how # "duplicate",
                      jobs[accepted[k].job].state = "done", KeepsType(Now, accepted[k].job)
               PROVE  jobs[accepted[k].job].by = accepted[k].input.fn.name
    BY DEF ReachesItsFunction
  <2> DEFINE i == accepted[k].job
             fn == accepted[k].input.fn
  <2>1. i \in DOMAIN jobs /\ k \in Mine(Now, i)
    BY DEF IInv, TypeInv, Typed, Now, Mine
  <2>2. jobs[i].type = typeName(fn)
    <3>1. jobs[i].type = TypeOf(accepted[k].input)
      BY <2>1 DEF IInv, KeysInv, Keyed, Now
    <3> QED
      BY <3>1 DEF TypeOf
  <2>3. PICK type \in DOMAIN routes : routes[type] = fn
    BY DEF Range
  <2>4. typeName(fn) = type
    BY <2>3 DEF IInv, RouteInv
  <2> QED
    BY <2>1, <2>2, <2>3, <2>4 DEF IInv, RouteInv
<1> QED
  BY <1>1, IInvHolds, PTL

\* An input is taken for a duplicate just of a job whose payload agrees with its
\* own in what the unique key selects, if of the paths a policy leaves out only
\* the last may be an array element.
THEOREM DuplicatesAreRight ==
  ASSUME \A p \in Programs : \A input \in p.inputs : \A policy \in Unique(input) : Steady(policy)
  PROVE  Spec => []DuplicatesAgree
<1>1. Init => SteadyInv
  BY DEF Init, SteadyInv
<1>2. SteadyInv /\ [Next]_vars => SteadyInv'
  <2>1. [Next]_vars => UNCHANGED inputs
    BY DEF Next, vars, enqueue, enqueueBulk, Dispatch, Send
  <2> QED
    BY <2>1 DEF SteadyInv
<1>3. IInv /\ SteadyInv => DuplicatesAgree
  <2> SUFFICES ASSUME IInv, SteadyInv, NEW x \in DOMAIN accepted, NEW y \in DOMAIN accepted,
                      UniqueOf(accepted[x].input) # Unset,
                      UniqueOf(accepted[x].input) = UniqueOf(accepted[y].input),
                      Keeps(accepted[x].input, {"key"}), Keeps(accepted[y].input, {"key"})
               PROVE  LET a == accepted[x]
                          b == accepted[y]
                          p == UniqueOf(a.input)
                      IN  /\ b.how = "duplicate" /\ a.job = b.job =>
                               /\ p.prefix => TypeOf(a.input) = TypeOf(b.input)
                               /\ Agree(a.input.payload, b.input.payload, p)
                          /\ /\ TypeOf(a.input) = TypeOf(b.input)
                             /\ Agree(a.input.payload, b.input.payload, p)
                             /\ {a.job, b.job} \subseteq Queued(jobs)
                             => a.job = b.job
    BY DEF DuplicatesAgree
  <2> DEFINE a == accepted[x].input
             b == accepted[y].input
             p == UniqueOf(a)
  <2>1. /\ a \in inputs /\ b \in inputs /\ Written(a) /\ Written(b)
        /\ accepted[x].job \in DOMAIN jobs /\ accepted[y].job \in DOMAIN jobs
    BY DEF IInv, TypeInv, Typed, Now, Sent
  <2>2. Unique(a) = {p} /\ Unique(b) = {p}
    BY DEF Unique
  <2>3. p \in Policies /\ Steady(p)
    BY <2>1, <2>2 DEF Written, SteadyInv
  <2>4. deriveHashable(a.payload, p) = deriveHashable(b.payload, p) <=> Agree(a.payload, b.payload, p)
    BY <2>1, <2>3, HashAgree DEF Written, Sendable
  <2>5. /\ jobs[accepted[x].job].key = {Hash(TypeOf(a), a.payload, p)}
        /\ jobs[accepted[y].job].key = {Hash(TypeOf(b), b.payload, p)}
    <3>a. resolveInput(a).key = KeyOf(a, Unique(a)) /\ resolveInput(b).key = KeyOf(b, Unique(b))
      BY DEF Keeps, Merged
    <3>1. /\ jobs[accepted[x].job].key = KeyOf(a, Unique(a))
          /\ jobs[accepted[y].job].key = KeyOf(b, Unique(b))
      BY <3>a DEF IInv, KeysInv, Keyed, Now
    <3> QED
      BY <2>2, <3>1 DEF KeyOf
  <2>6. Hash(TypeOf(a), a.payload, p) = Hash(TypeOf(b), b.payload, p) <=>
          /\ p.prefix => TypeOf(a) = TypeOf(b)
          /\ Agree(a.payload, b.payload, p)
    BY <2>4 DEF Hash
  <2>7. accepted[x].job = accepted[y].job =>
          (p.prefix => TypeOf(a) = TypeOf(b)) /\ Agree(a.payload, b.payload, p)
    BY <2>5, <2>6
  <2>8. /\ TypeOf(a) = TypeOf(b) /\ Agree(a.payload, b.payload, p)
        /\ {accepted[x].job, accepted[y].job} \subseteq Queued(jobs)
        => accepted[x].job = accepted[y].job
    <3> SUFFICES ASSUME TypeOf(a) = TypeOf(b), Agree(a.payload, b.payload, p),
                        {accepted[x].job, accepted[y].job} \subseteq Queued(jobs),
                        accepted[x].job # accepted[y].job
                 PROVE  FALSE
      OBVIOUS
    <3>1. jobs[accepted[x].job].key = jobs[accepted[y].job].key /\ jobs[accepted[x].job].key # {}
      BY <2>5, <2>6
    <3>2. \A i, j \in Queued(jobs) : i # j /\ jobs[i].key # {} => jobs[i].key # jobs[j].key
      BY DEF IInv, KeysInv, Keyed, Now
    <3> QED
      BY <3>1, <3>2
  <2> QED
    BY <2>7, <2>8
<1> QED
  BY <1>1, <1>2, <1>3, IInvHolds, PTL DEF Spec

-----------------------------------------------------------------------------
(* Arrays, and what a fold makes of them. *)

\* A set of places with all before each of them is an interval.
LEMMA DownClosed ==
  ASSUME NEW N \in Nat, NEW S \in SUBSET (1..N), \A i \in S : \A j \in 1..i : j \in S
  PROVE  \E n \in 0..N : S = 1..n
<1>1. CASE S = {}
  <2>1. 1..0 = {} /\ 0 \in 0..N
    OBVIOUS
  <2> QED
    BY <1>1, <2>1
<1>2. CASE S # {}
  <2> DEFINE T == {k \in Nat : k <= N /\ N - k \in S}
  <2>1. PICK i \in S : TRUE
    BY <1>2
  <2>2. i \in 1..N /\ N - i \in Nat /\ N - i <= N /\ N - (N - i) = i
    OBVIOUS
  <2>3. T \in SUBSET Nat /\ T # {}
    BY <2>1, <2>2
  <2>4. PICK x \in T : \A y \in T : x <= y
    BY <2>3, LeastExists
  <2>5. x \in Nat /\ x <= N /\ N - x \in S
    BY <2>4
  <2>6. ASSUME NEW j \in S PROVE j <= N - x /\ j \in Nat /\ 1 <= j
    <3>1. j \in 1..N /\ N - j \in Nat /\ N - j <= N /\ N - (N - j) = j
      OBVIOUS
    <3>2. N - j \in T
      BY <3>1
    <3>3. x <= N - j
      BY <2>4, <3>2
    <3> QED
      BY <2>5, <3>1, <3>3
  <2>7. N - x \in 0..N /\ N - x \in Nat
    BY <2>5
  <2>8. \A j \in 1..N - x : j \in S
    BY <2>5
  <2>9. \A j \in S : j \in 1..N - x
    BY <2>6, <2>7
  <2>10. S = 1..N - x
    BY <2>8, <2>9
  <2> QED
    BY <2>7, <2>10
<1> QED
  BY <1>1, <1>2

\* A path of one step more.
StepOf(s, x, a) ==
  a \in Path /\ a # <<>> /\ a # s /\ Last(a) = x /\ Front(a) = s /\ IsPrefix(s, a)

LEMMA AppendPath ==
  ASSUME NEW s \in Path, NEW x \in STRING, NEW a, a = Append(s, x)
  PROVE  StepOf(s, x, a)
<1>1. /\ a \in Path /\ a # <<>> /\ Len(a) = Len(s) + 1 /\ a[Len(s) + 1] = x /\ Len(s) \in Nat
      /\ \A i \in 1..Len(s) : a[i] = s[i]
  <2>1. s \in Seq(STRING) /\ Len(s) \in Nat
    BY LenProperties DEF Path
  <2>2. /\ a \in Seq(STRING) /\ Len(a) = Len(s) + 1 /\ a[Len(s) + 1] = x
        /\ \A i \in 1..Len(s) : a[i] = s[i]
    BY <2>1, AppendProperties
  <2>3. a # <<>>
    <3>1. Len(<<>>) = 0
      BY EmptySeq
    <3>2. Len(a) # 0
      BY <2>1, <2>2
    <3> QED
      BY <3>1, <3>2
  <2> QED
    BY <2>1, <2>2, <2>3 DEF Path
<1>2. Last(a) = x
  BY <1>1 DEF Last
<1>3. IsPrefix(s, a)
  <2>1. Len(s) <= Len(a)
    BY <1>1
  <2> QED
    BY <1>1, <2>1, PrefixOf
<1>4. Front(a) = s
  <2>1. Len(s) <= Len(a) /\ Len(a) - 1 = Len(s)
    BY <1>1
  <2>2. SubSeq(a, 1, Len(s)) = SubSeq(s, 1, Len(s)) \/ SubSeq(a, 1, Len(s)) = s
    BY <1>3 DEF IsPrefix
  <2>3. SubSeq(s, 1, Len(s)) = s
    BY SubSeqFull DEF Path
  <2> QED
    BY <2>1, <2>2, <2>3 DEF Front
<1>5. a # s
  <2>1. Len(a) # Len(s)
    BY <1>1
  <2> QED
    BY <2>1
<1> QED
  BY <1>1, <1>2, <1>3, <1>4, <1>5 DEF StepOf

\* The elements at a path, as a sequence.
IsArray(v, s, n) ==
  /\ Array(v, s) = [i \in 1..n |-> v[Append(s, Index[i])]]
  /\ Array(v, s) \in Seq(Range(Array(v, s))) /\ Len(Array(v, s)) = n /\ DOMAIN Array(v, s) = 1..n
  /\ \A i \in 1..n : i \in DOMAIN Index /\ Array(v, s)[i] = v[Append(s, Index[i])]

LEMMA ArrayIs ==
  ASSUME NEW v, NEW s, NEW n, Holds(v, s, n)
  PROVE  IsArray(v, s, n)
<1> DEFINE S == {i \in DOMAIN Index : Append(s, Index[i]) \in DOMAIN v}
<1>1. n \in Nat /\ n <= Len(Index) /\ DOMAIN Index = 1..Len(Index) /\ Len(Index) \in Nat
  BY Places DEF Holds
<1>2. S = {i \in DOMAIN Index : i <= n}
  BY DEF Holds
<1>3. {i \in DOMAIN Index : i <= n} = 1..n
  BY <1>1
<1>4. Cardinality(1..n) = n
  BY <1>1, FS_Interval
<1>5. Cardinality(S) = n
  BY <1>2, <1>3, <1>4
<1>6. PICK a : a = [i \in 1..n |-> v[Append(s, Index[i])]]
  OBVIOUS
<1>7. Array(v, s) = a
  BY <1>5, <1>6 DEF Array
<1>8. a \in [1..n -> Range(a)]
  BY <1>6 DEF Range
<1>9. a \in Seq(Range(a))
  BY <1>1, <1>8, SeqDef
<1>10. DOMAIN a = 1..n /\ Len(a) = n
  <2>1. DOMAIN a = 1..Len(a) /\ Len(a) \in Nat
    BY <1>9, LenProperties
  <2>2. DOMAIN a = 1..n
    BY <1>6
  <2>3. \A l \in Nat : 1..l = 1..n => l = n
    <3> SUFFICES ASSUME NEW l \in Nat, 1..l = 1..n, l # n PROVE FALSE
      OBVIOUS
    <3>1. CASE l < n
      <4>1. n \in 1..n /\ n \notin 1..l
        BY <1>1, <3>1
      <4> QED
        BY <4>1
    <3>2. CASE n < l
      <4>1. l \in 1..l /\ l \notin 1..n
        BY <1>1, <3>2
      <4> QED
        BY <4>1
    <3> QED
      BY <1>1, <3>1, <3>2
  <2> QED
    BY <2>1, <2>2, <2>3
<1>11. \A i \in 1..n : i \in DOMAIN Index /\ a[i] = v[Append(s, Index[i])]
  BY <1>1, <1>6
<1> QED
  BY <1>6, <1>7, <1>9, <1>10, <1>11 DEF IsArray

\* A value without holes has some number of elements at each path.
LEMMA ElementsHeld ==
  ASSUME NEW v, Hashable(v), NEW s \in Path
  PROVE  \E n : Holds(v, s, n)
<1> DEFINE S == {i \in DOMAIN Index : Append(s, Index[i]) \in DOMAIN v}
<1>1. DOMAIN Index = 1..Len(Index) /\ Len(Index) \in Nat
  BY Places
<1>2. ASSUME NEW i \in S, NEW j \in 1..i PROVE j \in S
  <2>1. PICK a : a = Append(s, Index[i])
    OBVIOUS
  <2>2. i \in DOMAIN Index /\ Index[i] \in STRING /\ IsIndex(Index[i]) /\ PlaceOf(Index[i]) = i /\ a \in DOMAIN v
    BY <2>1, Places
  <2>3. a # <<>> /\ Last(a) = Index[i] /\ Front(a) = s
    BY <2>1, <2>2, AppendPath DEF StepOf
  <2>4. Append(s, Index[j]) \in DOMAIN v
    BY <2>2, <2>3 DEF Hashable
  <2>5. j \in DOMAIN Index
    BY <1>1, <2>2
  <2> QED
    BY <2>4, <2>5
<1>3. PICK n \in 0..Len(Index) : S = 1..n
  <2>1. S \in SUBSET (1..Len(Index))
    BY <1>1
  <2> HIDE DEF S
  <2> QED
    BY <1>1, <1>2, <2>1, DownClosed
<1>4. \A i \in DOMAIN Index : Append(s, Index[i]) \in DOMAIN v <=> i <= n
  <2>1. \A i \in DOMAIN Index : i \in S <=> i <= n
    BY <1>1, <1>3
  <2> QED
    BY <2>1
<1> QED
  BY <1>3, <1>4 DEF Holds

\* SetToSeq lists the members of a finite set.
LEMMA SetToSeqIs ==
  ASSUME NEW S, IsFiniteSet(S), NEW t, t = SetToSeq(S)
  PROVE  t \in [1..Cardinality(S) -> S] /\ Range(t) = S
<1> DEFINE c == Cardinality(S)
<1>1. c \in Nat /\ ExistsBijection(1..c, S)
  BY FS_CardinalityType
<1>2. PICK f \in [1..c -> S] : IsInjective(f)
  BY <1>1 DEF ExistsBijection, Bijection, Injection
<1>3. t \in [1..c -> S] /\ IsInjective(t)
  BY <1>2 DEF SetToSeq
<1>4. t \in Injection(1..c, S)
  BY <1>3 DEF Injection
<1>5. IsFiniteSet(1..c) /\ Cardinality(1..c) = c
  BY <1>1, FS_Interval
<1>6. t \in Surjection(1..c, S)
  BY <1>4, <1>5, FS_Injection
<1> QED
  BY <1>3, <1>6 DEF Surjection, Range

\* What a fold makes of the two payloads.
Folded(old, new, batch, r) ==
  /\ \E k : Holds(r, batch.path, k)
  /\ Range(Array(r, batch.path)) = Range(Array(old, batch.path)) \cup Range(Array(new, batch.path))
  /\ Len(Array(r, batch.path)) <= Len(Array(old, batch.path)) + Len(Array(new, batch.path))
  /\ batch.mode = "append" =>
       Len(Array(r, batch.path)) = Len(Array(old, batch.path)) + Len(Array(new, batch.path))
  /\ \A p : ~IsPrefix(batch.path, p) => /\ p \in DOMAIN r <=> p \in DOMAIN old
                                        /\ p \in DOMAIN r => r[p] = old[p]

LEMMA FoldIs ==
  ASSUME NEW old, NEW new, NEW batch, NEW n, NEW m, batch.path \in Path,
         batch.mode \in {"append", "dedup"},
         Holds(old, batch.path, n), Holds(new, batch.path, m), n + m <= Len(Index)
  PROVE  Folded(old, new, batch, Fold(old, new, batch))
<1> DEFINE s == batch.path
           o == Array(old, s)
           w == Array(new, s)
           both == o \o w
           all == IF batch.mode = "dedup" THEN SetToSeq(Range(both)) ELSE both
           at == {Append(s, Index[i]) : i \in DOMAIN all}
           r == [p \in (DOMAIN old \ Under(old, s)) \cup {s} \cup at |->
                   IF p = s THEN "[]" ELSE IF p \in at THEN all[PlaceOf(Last(p))] ELSE old[p]]
<1>1. Fold(old, new, batch) = r
  BY DEF Fold
<1>2. /\ n \in Nat /\ m \in Nat /\ n + m <= Len(Index) /\ DOMAIN Index = 1..Len(Index) /\ Len(Index) \in Nat
      /\ IsArray(old, s, n) /\ IsArray(new, s, m)
  BY ArrayIs, Places DEF Holds
<1>3. o \in Seq(Range(o)) /\ w \in Seq(Range(w)) /\ Len(o) = n /\ Len(w) = m
  BY <1>2 DEF IsArray
<1> HIDE DEF o, w
<1>4. both \in Seq(Range(both)) /\ Len(both) = n + m /\ DOMAIN both = 1..n + m /\ Range(both) = Range(o) \cup Range(w)
  <2>1. o \in Seq(Range(o) \cup Range(w)) /\ w \in Seq(Range(o) \cup Range(w))
    BY <1>3, SeqMonotonic
  <2>2. both \in Seq(Range(o) \cup Range(w)) /\ Len(both) = n + m
    BY <1>3, <2>1, ConcatProperties
  <2>3. Range(both) = Range(o) \cup Range(w)
    BY <2>1, RangeConcatenation
  <2> HIDE DEF both
  <2> QED
    BY <2>2, <2>3, SeqOfRange, LenProperties
<1> HIDE DEF both
<1>5. PICK k \in 0..n + m : /\ DOMAIN all = 1..k /\ Range(all) = Range(both)
                            /\ batch.mode = "append" => k = n + m
  <2>1. CASE batch.mode = "dedup"
    <3>1. IsFiniteSet(1..n + m) /\ Cardinality(1..n + m) = n + m
      <4>1. PICK b \in Nat : b = n + m
        BY <1>2
      <4>2. IsFiniteSet(1..b) /\ Cardinality(1..b) = b
        BY FS_Interval
      <4> QED
        BY <4>1, <4>2
    <3>2. both \in Surjection(1..n + m, Range(both))
      BY <1>4 DEF Surjection, Range
    <3>3. IsFiniteSet(Range(both)) /\ Cardinality(Range(both)) <= n + m
      BY <3>1, <3>2, FS_Surjection
    <3>4. all = SetToSeq(Range(both))
      BY <2>1
    <3>5. all \in [1..Cardinality(Range(both)) -> Range(both)] /\ Range(all) = Range(both)
      BY <3>3, <3>4, SetToSeqIs
    <3>6. Cardinality(Range(both)) \in 0..n + m
      BY <1>2, <3>3, FS_CardinalityType
    <3> QED
      BY <2>1, <3>5, <3>6
  <2>2. CASE batch.mode = "append"
    <3>1. n + m \in 0..n + m
      BY <1>2
    <3> QED
      BY <1>4, <2>2, <3>1
  <2> QED
    BY <2>1, <2>2
<1> HIDE DEF all
<1>6. k \in Nat /\ k <= Len(Index) /\ k \in 0..Len(Index) /\ k <= n + m /\ \A i \in 1..k : i \in DOMAIN Index
  BY <1>2, <1>5
<1>7. ASSUME NEW i \in DOMAIN Index
      PROVE  /\ IsPrefix(s, Append(s, Index[i])) /\ Append(s, Index[i]) # s
             /\ PlaceOf(Last(Append(s, Index[i]))) = i
  <2>1. Index[i] \in STRING /\ PlaceOf(Index[i]) = i
    BY Places
  <2>2. PICK a : a = Append(s, Index[i])
    OBVIOUS
  <2>3. s \in Path
    OBVIOUS
  <2> HIDE DEF s
  <2>4. StepOf(s, Index[i], a)
    BY <2>1, <2>2, <2>3, AppendPath
  <2> QED
    BY <2>1, <2>2, <2>4 DEF StepOf
<1>8. ASSUME NEW i \in DOMAIN Index PROVE Append(s, Index[i]) \in DOMAIN r <=> i \in 1..k
  <2>1. Append(s, Index[i]) \notin DOMAIN old \ Under(old, s)
    BY <1>7 DEF Under
  <2>2. Append(s, Index[i]) \in at <=> i \in 1..k
    <3>1. ASSUME NEW j \in 1..k, Append(s, Index[i]) = Append(s, Index[j]) PROVE i = j
      BY <1>6, <1>7, <3>1
    <3> QED
      BY <1>5, <3>1
  <2> QED
    BY <1>7, <2>1, <2>2
<1>9. ASSUME NEW i \in 1..k PROVE r[Append(s, Index[i])] = all[i]
  <2>1. Append(s, Index[i]) \in at /\ Append(s, Index[i]) # s /\ PlaceOf(Last(Append(s, Index[i]))) = i
    BY <1>5, <1>6, <1>7
  <2> QED
    BY <2>1
<1>10. \A p : ~IsPrefix(s, p) => /\ p \in DOMAIN r <=> p \in DOMAIN old
                                 /\ p \in DOMAIN r => r[p] = old[p]
  <2> SUFFICES ASSUME NEW p, ~IsPrefix(s, p)
               PROVE  /\ p \in DOMAIN r <=> p \in DOMAIN old
                      /\ p \in DOMAIN r => r[p] = old[p]
    OBVIOUS
  <2>1. p # s
    <3>1. IsPrefix(s, s)
      BY PrefixOf
    <3> QED
      BY <3>1
  <2>2. p \notin at
    BY <1>5, <1>6, <1>7
  <2>3. p \notin Under(old, s)
    BY DEF Under
  <2> QED
    BY <2>1, <2>2, <2>3
<1> HIDE DEF r
<1>11. Holds(r, s, k)
  <2>1. \A i \in DOMAIN Index : i \in 1..k <=> i <= k
    BY <1>2, <1>6
  <2> QED
    BY <1>6, <1>8, <2>1 DEF Holds
<1>12. IsArray(r, s, k)
  BY <1>11, ArrayIs
<1>13. /\ Len(Array(r, s)) = k /\ DOMAIN Array(r, s) = 1..k
       /\ \A i \in 1..k : Array(r, s)[i] = all[i]
  BY <1>9, <1>12 DEF IsArray
<1>14. Range(Array(r, s)) = Range(all)
  BY <1>5, <1>13 DEF Range
<1>15. Len(Array(r, s)) <= n + m /\ (batch.mode = "append" => Len(Array(r, s)) = n + m)
  BY <1>5, <1>6, <1>13
<1> QED
  BY <1>1, <1>3, <1>4, <1>5, <1>10, <1>11, <1>14, <1>15 DEF Folded, o, w

-----------------------------------------------------------------------------
(* Batches. *)

\* Two payloads agree in all but what is at a path.
AgreeBeyond(v, w, s) ==
  \A p : ~IsPrefix(s, p) => /\ p \in DOMAIN v <=> p \in DOMAIN w
                            /\ p \in DOMAIN v => v[p] = w[p]

\* The batch of an input, as batchConfig makes it.
IsBatch(batch) ==
  /\ batch.path \in Path /\ batch.limit \in 0..Len(Index) /\ batch.mode \in {"append", "dedup"}
  /\ batch.policy = [mode |-> "except", paths |-> <<batch.path>>, prefix |-> TRUE, object |-> FALSE]

LEMMA BatchWritten ==
  ASSUME NEW payload, NEW batch, Sendable(payload, batch), batch # Unset
  PROVE  IsBatch(batch)
<1>1. /\ batch.path \in Path /\ batch.limit \in 0..Len(Index) /\ batch.mode \in {"append", "dedup"}
      /\ batch = batchConfig(batch.limit, batch.path, batch.mode)
  BY DEF Sendable
<1>2. \A n, s, mode : batchConfig(n, s, mode).policy =
                        [mode |-> "except", paths |-> <<s>>, prefix |-> TRUE, object |-> FALSE]
  BY DEF batchConfig
<1> QED
  BY <1>1, <1>2 DEF IsBatch

\* What is sent is as the input is written.
LEMMA SentIs ==
  ASSUME \A a \in Sent : Written(a), NEW input \in Sent
  PROVE  /\ Written(input) /\ input \in inputs
         /\ Sendable(resolveInput(input).payload, resolveInput(input).batch)
         /\ resolveInput(input).batch = Unset <=> resolveInput(input).batchKey = {}
  BY DEF Sent, Written

LEMMA BatchAgree ==
  ASSUME NEW batch, IsBatch(batch), NEW v, NEW w
  PROVE  Agree(v, w, batch.policy) <=> AgreeBeyond(v, w, batch.path)
<1>1. batch.policy.mode = "except" /\ batch.policy.paths = <<batch.path>>
  BY DEF IsBatch
<1>2. \A s : s \in Range(<<batch.path>>) <=> s = batch.path
  BY DEF Range
<1>3. \A p : (\A s \in Range(batch.policy.paths) : ~IsPrefix(s, p)) <=> ~IsPrefix(batch.path, p)
  BY <1>1, <1>2
<1>4. /\ {p \in DOMAIN v : \A s \in Range(batch.policy.paths) : ~IsPrefix(s, p)}
           = {p \in DOMAIN v : ~IsPrefix(batch.path, p)}
      /\ {p \in DOMAIN w : \A s \in Range(batch.policy.paths) : ~IsPrefix(s, p)}
           = {p \in DOMAIN w : ~IsPrefix(batch.path, p)}
  BY <1>3
<1>5. Agree(v, w, batch.policy) <=>
        /\ {p \in DOMAIN v : ~IsPrefix(batch.path, p)} = {p \in DOMAIN w : ~IsPrefix(batch.path, p)}
        /\ \A p \in {q \in DOMAIN v : ~IsPrefix(batch.path, q)} : v[p] = w[p]
  BY <1>1, <1>4 DEF Agree
<1> QED
  BY <1>5 DEF AgreeBeyond

\* Two inputs with one batch key and one target agree in all but the target.
LEMMA OneKeyAgrees ==
  ASSUME NEW a, Written(a), NEW b, Written(b),
         KeyOf(a, Batched(a)) = KeyOf(b, Batched(b)), KeyOf(b, Batched(b)) # {},
         a.batch.path = b.batch.path
  PROVE  AgreeBeyond(a.payload, b.payload, b.batch.path)
<1>1. /\ a.batch # Unset /\ b.batch # Unset
      /\ deriveHashable(a.payload, a.batch.policy) = deriveHashable(b.payload, b.batch.policy)
  BY OneBatchKey
<1>2. IsBatch(a.batch) /\ IsBatch(b.batch)
  BY <1>1, BatchWritten DEF Written
<1>3. a.batch.policy = b.batch.policy
  BY <1>2 DEF IsBatch
<1>4. b.batch.policy \in Policies /\ Steady(b.batch.policy)
  <2> DEFINE s == b.batch.path
             p == [mode |-> "except", paths |-> <<s>>, prefix |-> TRUE, object |-> FALSE]
  <2>1. s \in Path /\ b.batch.policy = p
    BY <1>2 DEF IsBatch
  <2>2. <<s>> \in Seq(Path) /\ Len(<<s>>) = 1
    BY <2>1
  <2>3. p \in Policies
    BY <2>2 DEF Policies
  <2>4. 1..1 - 1 = {}
    OBVIOUS
  <2>5. Steady(p)
    BY <2>2, <2>4 DEF Steady
  <2> QED
    BY <2>1, <2>3, <2>5
<1>5. Json(a.payload) /\ Hashable(a.payload) /\ Json(b.payload) /\ Hashable(b.payload)
  BY DEF Written, Sendable
<1>6. Agree(a.payload, b.payload, b.batch.policy)
  BY <1>1, <1>3, <1>4, <1>5, HashAgree
<1> QED
  BY <1>2, <1>6, BatchAgree

\* An input that is folded into a job.
FoldedInto(now, input, i, next) ==
  LET batch == now.jobs[i].batch
      was   == now.jobs[i].payload
      is    == next.jobs[i].payload
  IN  /\ i \in DOMAIN now.jobs /\ batch # Unset /\ IsBatch(batch)
      /\ now.jobs[i].batchKey = resolveInput(input).batchKey /\ resolveInput(input).batchKey # {}
      /\ Folded(was, resolveInput(input).payload, batch, is)
      /\ Len(Array(was, batch.path)) \in Nat /\ Len(Array(resolveInput(input).payload, batch.path)) \in Nat
      /\ DOMAIN Array(resolveInput(input).payload, batch.path) = 1..Len(Array(resolveInput(input).payload, batch.path))
      /\ Len(Array(is, batch.path)) <= batch.limit

LEMMA FoldingIs ==
  ASSUME NEW now, Typed(now), Listed(now), \A a \in Sent : Written(a),
         NEW input \in Sent, NEW i, NEW next, Folding(now, input, i, next)
  PROVE  FoldedInto(now, input, i, next)
<1> DEFINE job == now.jobs[i]
           batch == job.batch
           s == batch.path
<1>1. /\ i \in DOMAIN now.jobs /\ resolveInput(input).batchKey # {} /\ job.batchKey = resolveInput(input).batchKey
      /\ Fits(job.payload, resolveInput(input).payload, batch)
      /\ next.jobs[i].payload = Fold(job.payload, resolveInput(input).payload, batch)
  BY DEF Folding, Folds, Open, Queued
<1>2. batch # Unset
  BY <1>1 DEF Listed
<1>3. PICK k \in Mine(now, i) : resolveInput(now.accepted[k].input).batch = batch
  BY <1>1, <1>2 DEF Listed
<1>4. now.accepted[k].input \in Sent
  BY <1>3 DEF Mine, Typed
<1>5. IsBatch(batch)
  BY <1>2, <1>3, <1>4, SentIs, BatchWritten
<1>6. PICK n : Holds(job.payload, s, n)
  BY <1>1, <1>2 DEF Listed
<1>7. PICK m : Holds(resolveInput(input).payload, s, m)
  BY <1>5, SentIs, ElementsHeld DEF IsBatch, Sendable
<1>8. IsArray(job.payload, s, n) /\ IsArray(resolveInput(input).payload, s, m)
  BY <1>6, <1>7, ArrayIs
<1>9. /\ n \in Nat /\ m \in Nat /\ n + m <= batch.limit /\ batch.limit <= Len(Index) /\ Len(Index) \in Nat
      /\ batch.limit \in Nat
  BY <1>1, <1>5, <1>6, <1>7, <1>8, Places DEF IsBatch, Fits, IsArray, Holds
<1>10. n + m <= Len(Index)
  BY <1>9
<1>11. Folded(job.payload, resolveInput(input).payload, batch, next.jobs[i].payload)
  BY <1>1, <1>5, <1>6, <1>7, <1>10, FoldIs DEF IsBatch
<1>12. PICK l : Holds(next.jobs[i].payload, s, l)
  BY <1>11 DEF Folded
<1>13. Len(Array(next.jobs[i].payload, s)) = l /\ l \in Nat
  <2>1. IsArray(next.jobs[i].payload, s, l)
    BY <1>12, ArrayIs
  <2>2. l \in 0..Len(Index)
    BY <1>12 DEF Holds
  <2>3. l \in Nat
    BY <2>2, Places
  <2>4. Len(Array(next.jobs[i].payload, s)) = l
    BY <2>1 DEF IsArray
  <2> QED
    BY <2>3, <2>4
<1>14. Len(Array(next.jobs[i].payload, s)) <= batch.limit
  BY <1>8, <1>9, <1>11, <1>13 DEF Folded, IsArray
<1> QED
  BY <1>1, <1>2, <1>5, <1>8, <1>9, <1>11, <1>14 DEF FoldedInto, IsArray

LEMMA AcceptListed ==
  ASSUME NEW now, Typed(now), Listed(now), \A a \in Sent : Written(a),
         NEW input \in Sent, NEW i, NEW next, Outcome(now, input, i, next)
  PROVE  Listed(next)
<1>1. PICK how \in {"created", "folded", "duplicate"} : Recorded(now, input, i, how, next)
  BY JobsGrow
<1>2. PICK m : m = Len(now.accepted) + 1
  OBVIOUS
<1>3. /\ m \in DOMAIN next.accepted
      /\ \A k \in DOMAIN now.accepted : next.accepted[k] = now.accepted[k]
      /\ next.accepted[m].input = input /\ next.accepted[m].job = i /\ next.accepted[m].how = how
  BY <1>1, <1>2, AcceptedGrow
<1>4. \A j : Mine(now, j) \subseteq Mine(next, j) /\ Mine(now, j) \subseteq DOMAIN now.accepted
  <2>1. \A j : Mine(now, j) \subseteq Mine(next, j)
    BY <1>1, MineAfter
  <2>2. \A j : Mine(now, j) \subseteq DOMAIN now.accepted
    BY DEF Mine
  <2> QED
    BY <2>1, <2>2
<1> SUFFICES ASSUME NEW j \in DOMAIN next.jobs
             PROVE  /\ next.jobs[j].batch = Unset <=> next.jobs[j].batchKey = {}
                    /\ next.jobs[j].batch # Unset =>
                         /\ \E k \in Mine(next, j) : resolveInput(next.accepted[k].input).batch = next.jobs[j].batch
                         /\ \E n \in 0..Len(Index) : Holds(next.jobs[j].payload, next.jobs[j].batch.path, n)
  BY DEF Listed
<1>5. CASE j \in DOMAIN now.jobs
  <2>1. Kin(now.jobs[j], next.jobs[j])
    BY <1>5, JobsGrow
  <2>2. next.jobs[j].batch = now.jobs[j].batch /\ next.jobs[j].batchKey = now.jobs[j].batchKey
    BY <2>1 DEF Kin
  <2>3. next.jobs[j].batch = Unset <=> next.jobs[j].batchKey = {}
    BY <1>5, <2>2 DEF Listed
  <2>4. ASSUME next.jobs[j].batch # Unset
        PROVE  \E k \in Mine(next, j) : resolveInput(next.accepted[k].input).batch = next.jobs[j].batch
    <3>1. PICK k \in Mine(now, j) : resolveInput(now.accepted[k].input).batch = now.jobs[j].batch
      BY <1>5, <2>2, <2>4 DEF Listed
    <3> QED
      BY <1>3, <1>4, <2>2, <3>1
  <2>5. ASSUME next.jobs[j].batch # Unset
        PROVE  \E n \in 0..Len(Index) : Holds(next.jobs[j].payload, next.jobs[j].batch.path, n)
    <3>1. CASE Folding(now, input, i, next) /\ j = i
      <4>1. FoldedInto(now, input, i, next)
        BY <3>1, FoldingIs
      <4> QED
        BY <2>2, <3>1, <4>1 DEF FoldedInto, Folded, Holds
    <3>2. CASE ~(Folding(now, input, i, next) /\ j = i)
      <4>1. next.jobs[j].payload = now.jobs[j].payload
        BY <1>5, <3>2 DEF Outcome, Duplicate, Folding, Creating
      <4> QED
        BY <1>5, <2>2, <2>5, <4>1 DEF Listed
    <3> QED
      BY <3>1, <3>2
  <2> QED
    BY <2>3, <2>4, <2>5
<1>6. CASE j = i /\ Creating(now, input, i, next)
  <2>1. /\ next.jobs[j].batch = resolveInput(input).batch /\ next.jobs[j].payload = resolveInput(input).payload
        /\ next.jobs[j].batchKey = resolveInput(input).batchKey
    BY <1>6 DEF Creating
  <2>2. resolveInput(input).batch = Unset <=> resolveInput(input).batchKey = {}
    BY SentIs
  <2>3. m \in Mine(next, j)
    <3>1. how = "created"
      <4>1. next.accepted[m].how = "created"
        BY <1>2, <1>6, AcceptedGrow DEF Creating
      <4> QED
        BY <1>3, <4>1
    <3> QED
      BY <1>3, <1>6, <3>1 DEF Mine
  <2>4. ASSUME resolveInput(input).batch # Unset
        PROVE  \E n \in 0..Len(Index) : Holds(resolveInput(input).payload, resolveInput(input).batch.path, n)
    <3>1. IsBatch(resolveInput(input).batch) /\ Hashable(resolveInput(input).payload)
      BY <2>4, SentIs, BatchWritten DEF Sendable
    <3>2. PICK n : Holds(resolveInput(input).payload, resolveInput(input).batch.path, n)
      BY <3>1, ElementsHeld DEF IsBatch
    <3> QED
      BY <3>2 DEF Holds
  <2> QED
    BY <1>3, <2>1, <2>2, <2>3, <2>4
<1> QED
  BY <1>5, <1>6, JobsGrow

\* The elements a job's inputs came with, each with the input it came with.
Elements(now, i) ==
  UNION {{<<k, e>> : e \in DOMAIN Array(resolveInput(now.accepted[k].input).payload, now.jobs[i].batch.path)} :
           k \in Mine(now, i)}

\* What a job holds of the inputs it is made of.
KeptBy(now, i) ==
  LET batch == now.jobs[i].batch
      held  == Array(now.jobs[i].payload, batch.path)
  IN  batch # Unset =>
        /\ \A k \in Mine(now, i) :
             Range(Array(resolveInput(now.accepted[k].input).payload, batch.path)) \subseteq Range(held)
        /\ KeepsBatch(now, i) =>
             \A k \in Mine(now, i) : AgreeBeyond(now.accepted[k].input.payload, now.jobs[i].payload, batch.path)
        /\ IsFiniteSet(Elements(now, i))
        /\ batch.mode = "append" => Len(held) = Cardinality(Elements(now, i))
        /\ Cardinality(Mine(now, i)) > 1 => Len(held) <= batch.limit

AllKept(now) == \A i \in DOMAIN now.jobs : KeptBy(now, i)

\* Of the queued batches of one key all but one are sealed.
OpenOnce(now) ==
  \A i, j \in Queued(now.jobs) :
    /\ i # j /\ now.jobs[i].batch # Unset /\ now.jobs[j].batch # Unset
    /\ now.jobs[i].batchKey = now.jobs[j].batchKey
    => now.jobs[i].sealed \/ now.jobs[j].sealed

\* Inputs sent with one batch key are folded at one place.
OnePath(ins) ==
  \A a, b \in ins :
    resolveInput(a).batchKey # {} /\ resolveInput(a).batchKey = resolveInput(b).batchKey =>
      resolveInput(a).batch.path = resolveInput(b).batch.path

LEMMA PairsCounted ==
  ASSUME NEW m, NEW c \in Nat
  PROVE  IsFiniteSet({<<m, e>> : e \in 1..c}) /\ Cardinality({<<m, e>> : e \in 1..c}) = c
<1> DEFINE T == {<<m, e>> : e \in 1..c}
           f == [e \in 1..c |-> <<m, e>>]
<1>1. f \in [1..c -> T]
  OBVIOUS
<1>2. \A a, b \in 1..c : f[a] = f[b] => a = b
  OBVIOUS
<1>3. \A x \in T : \E e \in 1..c : f[e] = x
  OBVIOUS
<1>4. f \in Bijection(1..c, T)
  BY <1>1, <1>2, <1>3 DEF Bijection, Injection, Surjection, IsInjective
<1>5. ExistsBijection(1..c, T)
  BY <1>4 DEF ExistsBijection
<1>6. IsFiniteSet(1..c) /\ Cardinality(1..c) = c
  BY FS_Interval
<1> QED
  BY <1>5, <1>6, FS_Bijection

\* A job that keeps its payload, its inputs and its batch holds what it held.
LEMMA KeptAsItWas ==
  ASSUME NEW now, NEW next, NEW i, KeptBy(now, i), Mine(next, i) = Mine(now, i),
         \A k \in Mine(now, i) : next.accepted[k] = now.accepted[k],
         next.jobs[i].payload = now.jobs[i].payload, next.jobs[i].batch = now.jobs[i].batch
  PROVE  KeptBy(next, i)
<1>1. Elements(next, i) = Elements(now, i)
  BY DEF Elements
<1>2. KeepsBatch(next, i) <=> KeepsBatch(now, i)
  BY DEF KeepsBatch
<1> QED
  BY <1>1, <1>2 DEF KeptBy

LEMMA AcceptOpenOnce ==
  ASSUME NEW now, Typed(now), Listed(now), OpenOnce(now),
         NEW input, NEW i, NEW next, Outcome(now, input, i, next)
  PROVE  OpenOnce(next)
<1>1. \A j \in Queued(next.jobs) :
        \/ /\ j \in Queued(now.jobs) /\ Kin(now.jobs[j], next.jobs[j])
           /\ now.jobs[j].sealed => next.jobs[j].sealed
        \/ j = i /\ Creating(now, input, i, next)
  <2> SUFFICES ASSUME NEW j \in Queued(next.jobs), j \in DOMAIN now.jobs
               PROVE  /\ j \in Queued(now.jobs) /\ Kin(now.jobs[j], next.jobs[j])
                      /\ now.jobs[j].sealed => next.jobs[j].sealed
    BY JobsGrow DEF Queued
  <2>1. Kin(now.jobs[j], next.jobs[j]) /\ (now.jobs[j].sealed => next.jobs[j].sealed)
    BY JobsGrow
  <2> QED
    BY <2>1 DEF Kin, Queued
<1>2. ASSUME NEW j \in Queued(next.jobs), j \in Queued(now.jobs), Kin(now.jobs[j], next.jobs[j]),
             Creating(now, input, i, next), next.jobs[j].batch # Unset,
             next.jobs[j].batchKey = next.jobs[i].batchKey
      PROVE  next.jobs[j].sealed
  <2>1. j \in DOMAIN now.jobs /\ now.jobs[j].batch # Unset
    BY <1>2 DEF Queued, Kin
  <2>2. now.jobs[j].batchKey # {}
    BY <2>1 DEF Listed
  <2>3. now.jobs[j].batchKey = resolveInput(input).batchKey
    BY <1>2 DEF Creating, Kin
  <2>4. now.jobs[j].sealed \/ j \in Open(now, input)
    BY <1>2, <2>2, <2>3 DEF Open
  <2> QED
    BY <1>2, <2>1, <2>4 DEF Creating
<1> SUFFICES ASSUME NEW j \in Queued(next.jobs), NEW k \in Queued(next.jobs), j # k,
                    next.jobs[j].batch # Unset, next.jobs[k].batch # Unset,
                    next.jobs[j].batchKey = next.jobs[k].batchKey
             PROVE  next.jobs[j].sealed \/ next.jobs[k].sealed
  BY DEF OpenOnce
<1>3. CASE j = i /\ Creating(now, input, i, next)
  BY <1>1, <1>2, <1>3
<1>4. CASE k = i /\ Creating(now, input, i, next)
  BY <1>1, <1>2, <1>4
<1>5. CASE /\ j \in Queued(now.jobs) /\ Kin(now.jobs[j], next.jobs[j])
           /\ now.jobs[j].sealed => next.jobs[j].sealed
           /\ k \in Queued(now.jobs) /\ Kin(now.jobs[k], next.jobs[k])
           /\ now.jobs[k].sealed => next.jobs[k].sealed
  BY <1>5 DEF Kin, OpenOnce
<1> QED
  BY <1>1, <1>3, <1>4, <1>5

LEMMA AgreeChain ==
  ASSUME NEW u, NEW v, NEW w, NEW s, AgreeBeyond(u, v, s), AgreeBeyond(v, w, s)
  PROVE  AgreeBeyond(u, w, s)
BY DEF AgreeBeyond

\* The job an input is folded into still holds what all its inputs came with.
LEMMA FoldKept ==
  ASSUME NEW now, Typed(now), Keyed(now), Listed(now), AllKept(now), \A a \in Sent : Written(a),
         OnePath(inputs), NEW input \in Sent, NEW i, NEW next, Folding(now, input, i, next)
  PROVE  KeptBy(next, i)
<1> DEFINE batch == now.jobs[i].batch
           s == batch.path
           was == now.jobs[i].payload
           is == next.jobs[i].payload
           Came(k) == Array(resolveInput(now.accepted[k].input).payload, s)
<1>1. /\ i \in DOMAIN now.jobs /\ batch # Unset /\ IsBatch(batch)
      /\ now.jobs[i].batchKey = resolveInput(input).batchKey /\ resolveInput(input).batchKey # {}
      /\ Folded(was, resolveInput(input).payload, batch, is)
      /\ Len(Array(was, s)) \in Nat /\ Len(Array(resolveInput(input).payload, s)) \in Nat
      /\ DOMAIN Array(resolveInput(input).payload, s) = 1..Len(Array(resolveInput(input).payload, s))
      /\ Len(Array(is, s)) <= batch.limit
  BY FoldingIs DEF FoldedInto
<1>2. PICK m : m = Len(now.accepted) + 1
  OBVIOUS
<1>3. Recorded(now, input, i, "folded", next) /\ next.jobs[i].batch = batch
  BY DEF Folding, Kin
<1>4. /\ m \notin DOMAIN now.accepted /\ next.accepted[m].input = input
      /\ \A k \in DOMAIN now.accepted : next.accepted[k] = now.accepted[k]
  BY <1>2, <1>3, AcceptedGrow
<1>5. Mine(next, i) = Mine(now, i) \cup {m}
  <2>1. "folded" # "duplicate"
    OBVIOUS
  <2> QED
    BY <1>2, <1>3, <2>1, MineAfter
<1>6. Mine(now, i) \subseteq DOMAIN now.accepted /\ m \notin Mine(now, i)
  BY <1>4 DEF Mine
<1>7. /\ \A k \in Mine(now, i) : Range(Came(k)) \subseteq Range(Array(was, s))
      /\ KeepsBatch(now, i) => \A k \in Mine(now, i) : AgreeBeyond(now.accepted[k].input.payload, was, s)
      /\ IsFiniteSet(Elements(now, i))
      /\ batch.mode = "append" => Len(Array(was, s)) = Cardinality(Elements(now, i))
  BY <1>1 DEF AllKept, KeptBy
<1>8. /\ Range(Array(is, s)) = Range(Array(was, s)) \cup Range(Array(resolveInput(input).payload, s))
      /\ batch.mode = "append" => Len(Array(is, s)) = Len(Array(was, s)) + Len(Array(resolveInput(input).payload, s))
      /\ AgreeBeyond(was, is, s)
  <2>1. AgreeBeyond(was, is, s)
    BY <1>1 DEF Folded, AgreeBeyond
  <2> QED
    BY <1>1, <2>1 DEF Folded
<1>9. ASSUME KeepsBatch(next, i)
      PROVE  KeepsBatch(now, i) /\ AgreeBeyond(input.payload, was, s)
  <2>1. KeepsBatch(now, i)
    BY <1>4, <1>5, <1>6, <1>9 DEF KeepsBatch
  <2>2. PICK k \in Mine(now, i) : resolveInput(now.accepted[k].input).batch = batch
    BY <1>1 DEF Listed
  <2>3. PICK b : b = now.accepted[k].input
    OBVIOUS
  <2>4. b \in Sent /\ b \in inputs /\ input \in inputs /\ Written(input) /\ Written(b)
    BY <2>2, <2>3 DEF Mine, Typed, Sent
  <2>5. /\ Keeps(b, {"payload", "batchKey", "batch"})
        /\ Keeps(input, {"payload", "batchKey", "batch"})
    BY <1>4, <1>5, <1>9, <2>1, <2>2, <2>3 DEF KeepsBatch
  <2>6. /\ resolveInput(b).batchKey = KeyOf(b, Batched(b)) /\ resolveInput(b).batch = b.batch
        /\ resolveInput(input).batchKey = KeyOf(input, Batched(input)) /\ resolveInput(input).batch = input.batch
    BY <2>5 DEF Keeps, Merged
  <2>7. now.jobs[i].batchKey = resolveInput(b).batchKey
    BY <1>1, <2>2, <2>3 DEF Keyed
  <2>8. KeyOf(input, Batched(input)) = KeyOf(b, Batched(b)) /\ KeyOf(b, Batched(b)) # {}
    BY <1>1, <2>6, <2>7
  <2>9. input.batch.path = b.batch.path /\ b.batch.path = s
    BY <2>2, <2>3, <2>4, <2>6, <2>8 DEF OnePath
  <2>10. AgreeBeyond(input.payload, b.payload, s)
    BY <2>4, <2>8, <2>9, OneKeyAgrees
  <2>11. AgreeBeyond(b.payload, was, s)
    BY <1>7, <2>1, <2>2, <2>3
  <2> QED
    BY <2>1, <2>10, <2>11, AgreeChain
<1>10. Elements(next, i) = Elements(now, i) \cup {<<m, e>> : e \in DOMAIN Array(resolveInput(input).payload, s)}
  <2>1. Elements(next, i) = UNION {{<<k, e>> : e \in DOMAIN Array(resolveInput(next.accepted[k].input).payload, s)} :
                                     k \in Mine(now, i) \cup {m}}
    BY <1>3, <1>5 DEF Elements
  <2>2. Elements(now, i) = UNION {{<<k, e>> : e \in DOMAIN Array(resolveInput(next.accepted[k].input).payload, s)} :
                                     k \in Mine(now, i)}
    <3>1. \A k \in Mine(now, i) : next.accepted[k] = now.accepted[k]
      BY <1>4, <1>6
    <3> QED
      BY <3>1 DEF Elements
  <2>3. {<<m, e>> : e \in DOMAIN Array(resolveInput(next.accepted[m].input).payload, s)}
          = {<<m, e>> : e \in DOMAIN Array(resolveInput(input).payload, s)}
    BY <1>4
  <2> QED
    BY <2>1, <2>2, <2>3
<1>11. IsFiniteSet(Elements(next, i))
       /\ Cardinality(Elements(next, i)) = Cardinality(Elements(now, i)) + Len(Array(resolveInput(input).payload, s))
  <2> DEFINE P == {<<m, e>> : e \in DOMAIN Array(resolveInput(input).payload, s)}
  <2>1. PICK c \in Nat : c = Len(Array(resolveInput(input).payload, s)) /\ DOMAIN Array(resolveInput(input).payload, s) = 1..c
    BY <1>1
  <2>2. IsFiniteSet(P) /\ Cardinality(P) = c
    BY <2>1, PairsCounted
  <2>3. \A x \in P : x \notin Elements(now, i)
    <3> SUFFICES ASSUME NEW x \in P, x \in Elements(now, i) PROVE FALSE
      OBVIOUS
    <3>1. x[1] = m
      OBVIOUS
    <3>2. x[1] \in Mine(now, i)
      BY DEF Elements
    <3> QED
      BY <1>6, <3>1, <3>2
  <2>4. Elements(now, i) \cap P = {}
    BY <2>3
  <2> HIDE DEF P
  <2>5. IsFiniteSet(Elements(now, i) \cup P)
    BY <1>7, <2>2, FS_Union
  <2>6. Cardinality(Elements(now, i) \cup P) = Cardinality(Elements(now, i)) + Cardinality(P)
    <3>1. Cardinality(Elements(now, i) \cup P)
            = Cardinality(Elements(now, i)) + Cardinality(P) - Cardinality(Elements(now, i) \cap P)
      BY <1>7, <2>2, FS_Union
    <3>2. Cardinality(Elements(now, i) \cap P) = 0
      BY <2>4, FS_EmptySet
    <3>3. Cardinality(Elements(now, i)) \in Nat /\ Cardinality(P) \in Nat
      BY <1>7, <2>2, FS_CardinalityType
    <3> QED
      BY <3>1, <3>2, <3>3
  <2> QED
    BY <1>10, <2>1, <2>2, <2>5, <2>6 DEF P
<1>12. ASSUME NEW k \in Mine(next, i)
       PROVE  /\ Range(Array(resolveInput(next.accepted[k].input).payload, s)) \subseteq Range(Array(is, s))
              /\ KeepsBatch(next, i) => AgreeBeyond(next.accepted[k].input.payload, is, s)
  <2>1. CASE k \in Mine(now, i)
    <3>1. next.accepted[k] = now.accepted[k]
      BY <1>4, <1>6, <2>1
    <3>2. KeepsBatch(next, i) => AgreeBeyond(now.accepted[k].input.payload, is, s)
      BY <1>7, <1>8, <1>9, <2>1, AgreeChain
    <3> QED
      BY <1>7, <1>8, <2>1, <3>1, <3>2
  <2>2. CASE k = m
    <3>1. KeepsBatch(next, i) => AgreeBeyond(input.payload, is, s)
      BY <1>8, <1>9, AgreeChain
    <3> QED
      BY <1>4, <1>8, <2>2, <3>1
  <2> QED
    BY <1>5, <2>1, <2>2
<1>13. batch.mode = "append" => Len(Array(is, s)) = Cardinality(Elements(next, i))
  BY <1>7, <1>8, <1>11
<1> QED
  BY <1>1, <1>3, <1>11, <1>12, <1>13 DEF KeptBy

\* A new job holds what its input came with.
LEMMA CreateKept ==
  ASSUME NEW now, Typed(now), \A a \in Sent : Written(a),
         NEW input \in Sent, NEW i, NEW next, Creating(now, input, i, next)
  PROVE  KeptBy(next, i)
<1> DEFINE s == resolveInput(input).batch.path
           held == Array(resolveInput(input).payload, s)
<1>1. next.jobs[i].batch = resolveInput(input).batch /\ next.jobs[i].payload = resolveInput(input).payload
      /\ Recorded(now, input, i, "created", next) /\ i = Len(now.jobs) + 1
  BY DEF Creating
<1>2. PICK m : m = Len(now.accepted) + 1
  OBVIOUS
<1>3. next.accepted[m].input = input
  BY <1>1, <1>2, AcceptedGrow
<1>4. Mine(now, i) = {}
  <2>1. Len(now.jobs) \in Nat /\ DOMAIN now.jobs = 1..Len(now.jobs)
    BY LenProperties DEF Typed
  <2>2. i \notin DOMAIN now.jobs
    BY <1>1, <2>1
  <2> QED
    BY <2>2 DEF Mine, Typed
<1>5. Mine(next, i) = {m}
  <2>1. "created" # "duplicate"
    OBVIOUS
  <2> QED
    BY <1>1, <1>2, <1>4, <2>1, MineAfter
<1> SUFFICES ASSUME resolveInput(input).batch # Unset
             PROVE  /\ \A k \in Mine(next, i) :
                         /\ Range(Array(resolveInput(next.accepted[k].input).payload, s)) \subseteq Range(held)
                         /\ KeepsBatch(next, i) =>
                              AgreeBeyond(next.accepted[k].input.payload, resolveInput(input).payload, s)
                    /\ IsFiniteSet(Elements(next, i))
                    /\ Len(held) = Cardinality(Elements(next, i))
                    /\ ~(Cardinality(Mine(next, i)) > 1)
  BY <1>1 DEF KeptBy
<1>6. \A k \in Mine(next, i) :
         /\ Range(Array(resolveInput(next.accepted[k].input).payload, s)) \subseteq Range(held)
         /\ KeepsBatch(next, i) =>
              AgreeBeyond(next.accepted[k].input.payload, resolveInput(input).payload, s)
  <2>1. KeepsBatch(next, i) => resolveInput(input).payload = input.payload
    BY <1>3, <1>5 DEF KeepsBatch, Keeps, Merged
  <2> QED
    BY <1>3, <1>5, <2>1 DEF AgreeBeyond
<1>7. PICK n \in Nat : Len(held) = n /\ DOMAIN held = 1..n
  <2>1. IsBatch(resolveInput(input).batch) /\ Hashable(resolveInput(input).payload)
    BY SentIs, BatchWritten DEF Sendable
  <2>2. PICK n : Holds(resolveInput(input).payload, s, n)
    BY <2>1, ElementsHeld DEF IsBatch
  <2>3. n \in 0..Len(Index)
    BY <2>2 DEF Holds
  <2>4. n \in Nat
    BY <2>3, Places
  <2>5. IsArray(resolveInput(input).payload, s, n)
    BY <2>2, ArrayIs
  <2> QED
    BY <2>4, <2>5 DEF IsArray
<1>8. Elements(next, i) = {<<m, e>> : e \in 1..n}
  <2>1. Elements(next, i) = {<<m, e>> : e \in DOMAIN held}
    BY <1>1, <1>3, <1>5 DEF Elements
  <2> QED
    BY <1>7, <2>1
<1>9. IsFiniteSet(Elements(next, i)) /\ Cardinality(Elements(next, i)) = n
  BY <1>8, PairsCounted
<1>10. ~(Cardinality(Mine(next, i)) > 1)
  <2>1. Cardinality({m}) = 1
    BY FS_Singleton
  <2>2. Cardinality(Mine(next, i)) = 1
    BY <1>5, <2>1
  <2> QED
    BY <2>2
<1> QED
  BY <1>6, <1>7, <1>9, <1>10

LEMMA AcceptKept ==
  ASSUME NEW now, Typed(now), Keyed(now), Listed(now), AllKept(now), \A a \in Sent : Written(a),
         OnePath(inputs), NEW input \in Sent, NEW i, NEW next, Outcome(now, input, i, next)
  PROVE  AllKept(next)
<1>1. PICK how \in {"created", "folded", "duplicate"} : Recorded(now, input, i, how, next)
  BY JobsGrow
<1> SUFFICES ASSUME NEW j \in DOMAIN next.jobs PROVE KeptBy(next, j)
  BY DEF AllKept
<1>2. CASE Folding(now, input, i, next) /\ j = i
  BY <1>2, FoldKept
<1>3. CASE Creating(now, input, i, next) /\ j = i
  BY <1>3, CreateKept
<1>4. CASE ~(Folding(now, input, i, next) /\ j = i) /\ ~(Creating(now, input, i, next) /\ j = i)
  <2>1. j \in DOMAIN now.jobs
    BY <1>4, JobsGrow
  <2>2. next.jobs[j].batch = now.jobs[j].batch
    <3>1. Kin(now.jobs[j], next.jobs[j])
      BY <2>1, JobsGrow
    <3> QED
      BY <3>1 DEF Kin
  <2>3. next.jobs[j].payload = now.jobs[j].payload
    BY <1>4, <2>1 DEF Outcome, Duplicate, Folding, Creating
  <2>4. Mine(next, j) = Mine(now, j)
    <3>1. CASE j = i
      <4>1. Duplicate(now, input, i, next)
        BY <1>4, <3>1 DEF Outcome
      <4>2. how = "duplicate"
        <5>1. Recorded(now, input, i, "duplicate", next)
          BY <4>1 DEF Duplicate
        <5> QED
          BY <1>1, <5>1 DEF Recorded
      <4>3. Mine(next, j) = Mine(now, j) \cup IF j = i /\ how # "duplicate"
                                             THEN {Len(now.accepted) + 1} ELSE {}
        BY <1>1, MineAfter
      <4> QED
        BY <4>2, <4>3
    <3>2. CASE j # i
      <4>1. Mine(next, j) = Mine(now, j) \cup IF j = i /\ how # "duplicate"
                                             THEN {Len(now.accepted) + 1} ELSE {}
        BY <1>1, MineAfter
      <4> QED
        BY <3>2, <4>1
    <3> QED
      BY <3>1, <3>2
  <2>5. \A k \in Mine(now, j) : next.accepted[k] = now.accepted[k]
    BY <1>1 DEF Mine, Recorded
  <2>6. KeptBy(now, j)
    BY <2>1 DEF AllKept
  <2> QED
    BY <2>2, <2>3, <2>4, <2>5, <2>6, KeptAsItWas
<1> QED
  BY <1>2, <1>3, <1>4

-----------------------------------------------------------------------------
(* The invariants of batches. *)

PathInv  == OnePath(inputs)
BatchInv == ListInv /\ AllKept(Now) /\ OpenOnce(Now)

LEMMA BatchInit == Init => BatchInv
<1> SUFFICES ASSUME Init PROVE BatchInv
  OBVIOUS
<1>1. Now.jobs = <<>> /\ DOMAIN <<>> = {}
  BY DEF Init, Now
<1> QED
  BY <1>1 DEF BatchInv, ListInv, Listed, AllKept, OpenOnce, Queued

LEMMA BatchStep ==
  ASSUME IInv, BatchInv, PathInv, [Next]_vars
  PROVE  BatchInv'
<1>1. /\ TypeInv /\ Typed(Now) /\ Keyed(Now) /\ Listed(Now) /\ AllKept(Now) /\ OpenOnce(Now)
      /\ Now.jobs = jobs /\ Now.accepted = accepted
      /\ \A input \in Sent : Written(input)
  BY DEF IInv, TypeInv, KeysInv, BatchInv, ListInv, Now, Sent
<1>2. CASE enqueue \/ enqueueBulk
  <2>1. PICK next :
          /\ Send(next) /\ IsState(next)
          /\ \/ Takes(Now, next)
             \/ \E mid : Takes(Now, mid) /\ IsState(mid) /\ Takes(mid, next)
    BY <1>1, <1>2, Requests
  <2>2. Listed(next) /\ AllKept(next) /\ OpenOnce(next)
    <3>1. ASSUME NEW now, NEW then, Typed(now), Keyed(now), Listed(now), AllKept(now), OpenOnce(now),
                 Takes(now, then)
          PROVE  Typed(then) /\ Keyed(then) /\ Listed(then) /\ AllKept(then) /\ OpenOnce(then)
      <4>1. PICK input \in Sent : \E i : Outcome(now, input, i, then)
        BY <3>1 DEF Takes
      <4>2. PICK i : Outcome(now, input, i, then)
        BY <4>1
      <4>3. Typed(then) /\ Keyed(then)
        BY <1>1, <3>1, <4>2, AcceptTyped, AcceptKeyed
      <4>4. Listed(then) /\ AllKept(then) /\ OpenOnce(then)
        BY <1>1, <3>1, <4>2, AcceptListed, AcceptKept, AcceptOpenOnce DEF PathInv
      <4> QED
        BY <4>3, <4>4
    <3> QED
      BY <1>1, <2>1, <3>1
  <2>3. Now' = next
    BY <2>1 DEF Send, Now, IsState
  <2> QED
    BY <2>2, <2>3 DEF BatchInv, ListInv
<1>3. CASE Dispatch
  <2>1. PICK i \in Queued(jobs) :
           /\ jobs' \in Seq(Range(jobs')) /\ DOMAIN jobs' = DOMAIN jobs /\ i \in DOMAIN jobs
           /\ \A j \in DOMAIN jobs \ {i} : jobs'[j] = jobs[j]
           /\ IsJob(jobs'[i]) /\ jobs'[i].type = jobs[i].type /\ jobs'[i].key = jobs[i].key
           /\ jobs'[i].batchKey = jobs[i].batchKey /\ jobs'[i].batch = jobs[i].batch
           /\ jobs'[i].payload = jobs[i].payload /\ jobs'[i].sealed = jobs[i].sealed
           /\ jobs'[i].state = "done"
           /\ jobs[i].type \in DOMAIN routes => jobs'[i].by = routes[jobs[i].type].name
    BY <1>1, <1>3, Dispatched
  <2>2. accepted' = accepted
    BY <1>3 DEF Dispatch
  <2>3. PICK next : next = Now'
    OBVIOUS
  <2>4. next.jobs = jobs' /\ next.accepted = accepted
    BY <2>2, <2>3 DEF Now
  <2>5. \A j \in DOMAIN next.jobs :
          /\ j \in DOMAIN Now.jobs /\ next.jobs[j].payload = Now.jobs[j].payload
          /\ next.jobs[j].batch = Now.jobs[j].batch /\ next.jobs[j].batchKey = Now.jobs[j].batchKey
          /\ next.jobs[j].sealed = Now.jobs[j].sealed
    BY <1>1, <2>1, <2>4
  <2>6. Queued(next.jobs) \subseteq Queued(Now.jobs) /\ Queued(next.jobs) \subseteq DOMAIN next.jobs
    BY <1>1, <2>1, <2>4 DEF Queued
  <2>7. \A j : Mine(next, j) = Mine(Now, j)
    BY <1>1, <2>4 DEF Mine
  <2>8. next.accepted = Now.accepted
    BY <1>1, <2>4
  <2>9. Listed(next)
    BY <1>1, <2>5, <2>7, <2>8 DEF Listed
  <2>10. AllKept(next)
    BY <1>1, <2>5, <2>7, <2>8, KeptAsItWas DEF AllKept
  <2>11. OpenOnce(next)
    BY <1>1, <2>5, <2>6 DEF OpenOnce
  <2> QED
    BY <2>3, <2>9, <2>10, <2>11 DEF BatchInv, ListInv
<1>4. CASE UNCHANGED vars
  <2>1. Now' = Now
    BY <1>4 DEF vars, Now
  <2> QED
    BY <1>1, <2>1 DEF BatchInv, ListInv
<1> QED
  BY <1>2, <1>3, <1>4 DEF Next

\* A batch holds every element of the inputs folded into it, within its limit,
\* and its inputs agree in the rest; of one key one batch is open.  Inputs of
\* one type are taken to be folded at one place: the batch key does not have it.
THEOREM BatchesAreKept ==
  ASSUME \A p \in Programs : OnePath(p.inputs)
  PROVE  Spec => []BatchesKeepAll
<1>1. Init => PathInv
  BY DEF Init, PathInv
<1>2. PathInv /\ [Next]_vars => PathInv'
  <2>1. [Next]_vars => UNCHANGED inputs
    BY DEF Next, vars, enqueue, enqueueBulk, Dispatch, Send
  <2> QED
    BY <2>1 DEF PathInv, OnePath
<1>3. IInv /\ BatchInv => BatchesKeepAll
  <2> SUFFICES ASSUME IInv, BatchInv, NEW i \in DOMAIN jobs, jobs[i].batch # Unset
               PROVE  LET mine  == Mine(Now, i)
                          batch == jobs[i].batch
                          held  == Array(jobs[i].payload, batch.path)
                          Came(k) == Array(resolveInput(accepted[k].input).payload, batch.path)
                      IN  /\ \A k \in mine : Range(Came(k)) \subseteq Range(held)
                          /\ KeepsBatch(Now, i) =>
                               \A k \in mine : Agree(accepted[k].input.payload, jobs[i].payload, batch.policy)
                          /\ batch.mode = "append" =>
                               Len(held) = Cardinality(UNION {{<<k, e>> : e \in DOMAIN Came(k)} : k \in mine})
                          /\ Cardinality(mine) > 1 => Len(held) <= batch.limit
                          /\ \A j \in Queued(jobs) :
                               /\ i \in Queued(jobs) /\ i # j /\ jobs[j].batch # Unset
                               /\ jobs[j].batchKey = jobs[i].batchKey
                               => jobs[i].sealed \/ jobs[j].sealed
    BY DEF BatchesKeepAll
  <2> DEFINE batch == jobs[i].batch
             held == Array(jobs[i].payload, batch.path)
  <2>1. /\ Now.jobs = jobs /\ Now.accepted = accepted
        /\ Mine(Now, i) = {k \in DOMAIN accepted : accepted[k].job = i /\ accepted[k].how # "duplicate"}
    BY DEF Now, Mine
  <2>2. KeptBy(Now, i)
    BY <2>1 DEF BatchInv, AllKept
  <2>3. IsBatch(batch)
    <3>1. PICK k \in Mine(Now, i) : resolveInput(Now.accepted[k].input).batch = batch
      BY <2>1 DEF BatchInv, ListInv, Listed
    <3>2. Now.accepted[k].input \in Sent
      BY <3>1 DEF IInv, TypeInv, Typed, Mine
    <3>3. Sendable(resolveInput(Now.accepted[k].input).payload, batch)
      BY <3>1, <3>2, SentIs DEF IInv, TypeInv, Sent
    <3> QED
      BY <3>1, <3>3, BatchWritten
  <2>4. /\ \A k \in Mine(Now, i) : Range(Array(resolveInput(accepted[k].input).payload, batch.path)) \subseteq Range(held)
        /\ KeepsBatch(Now, i) =>
             \A k \in Mine(Now, i) : Agree(accepted[k].input.payload, jobs[i].payload, batch.policy)
    <3>1. /\ \A k \in Mine(Now, i) : Range(Array(resolveInput(accepted[k].input).payload, batch.path)) \subseteq Range(held)
          /\ KeepsBatch(Now, i) =>
               \A k \in Mine(Now, i) : AgreeBeyond(accepted[k].input.payload, jobs[i].payload, batch.path)
      BY <2>1, <2>2 DEF KeptBy
    <3> QED
      BY <2>3, <3>1, BatchAgree
  <2>5. batch.mode = "append" => Len(held) = Cardinality(Elements(Now, i))
    BY <2>1, <2>2 DEF KeptBy
  <2>6. Elements(Now, i) = UNION {{<<k, e>> : e \in DOMAIN Array(resolveInput(accepted[k].input).payload, batch.path)} :
                                    k \in Mine(Now, i)}
    BY <2>1 DEF Elements
  <2>7. Cardinality(Mine(Now, i)) > 1 => Len(held) <= batch.limit
    BY <2>1, <2>2 DEF KeptBy
  <2>8. \A j \in Queued(jobs) :
          /\ i \in Queued(jobs) /\ i # j /\ jobs[j].batch # Unset
          /\ jobs[j].batchKey = jobs[i].batchKey
          => jobs[i].sealed \/ jobs[j].sealed
    BY <2>1 DEF BatchInv, OpenOnce
  <2> QED
    BY <2>1, <2>4, <2>5, <2>6, <2>7, <2>8
<1>4. IInv /\ BatchInv /\ PathInv /\ [Next]_vars => BatchInv'
  BY BatchStep
<1> QED
  BY <1>1, <1>2, <1>3, <1>4, BatchInit, IInvHolds, PTL DEF Spec

=============================================================================
