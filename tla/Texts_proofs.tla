---------------------------- MODULE Texts_proofs ----------------------------
(***************************************************************************)
(* What becomes of text that is read piece by piece: a reply scanned for   *)
(* its JSON, a provider's stream and the frames it is sent on as, and a    *)
(* document cut into chunks. Each is an induction over what has been read, *)
(* with the facts on sequences of Toolkits_proofs.                         *)
(***************************************************************************)
EXTENDS Toolkits_proofs, Structured, Chunking, ServiceStream

-----------------------------------------------------------------------------
(* What a scan of braces finds in a reply.                                 *)

Character == {"o", "c", "l", "r", "q", "b", "f", "a", "w"}
Read(s, ch) == ReadOn(s, ch, "o", "c")
Readings == [quoted : BOOLEAN, escaped : BOOLEAN, depth : Int, read : Int, closed : BOOLEAN]

\* Where a reading stands: in or out of a string, after a backslash or not, how deep.
At(s, quoted, escaped, depth) ==
  ~s.closed /\ s.quoted = quoted /\ s.escaped = escaped /\ s.depth = depth

\* One character more.
LEMMA ReadTyped ==
  ASSUME NEW s \in Readings, NEW ch, NEW opener, NEW closer
  PROVE  ReadOn(s, ch, opener, closer) \in Readings
<1> DEFINE more == s.read + 1
           depth == s.depth + (IF ch = opener THEN 1 ELSE 0) - (IF ch = closer THEN 1 ELSE 0)
           next == [s EXCEPT !.read = more]
           inside == ch # "q"
           start == ch = "q"
           slash == ch = "b"
           last == ch = closer /\ depth = 0
<1>1. s.depth \in Int /\ s.read \in Int /\ s.quoted \in BOOLEAN /\ s.escaped \in BOOLEAN /\ s.closed \in BOOLEAN
  BY DEF Readings
<1>2. more \in Int /\ depth \in Int /\ inside \in BOOLEAN /\ start \in BOOLEAN /\ slash \in BOOLEAN /\ last \in BOOLEAN
  BY <1>1
<1>3. ReadOn(s, ch, opener, closer) \in
        {s, [next EXCEPT !.escaped = FALSE],
         [next EXCEPT !.escaped = slash, !.quoted = inside],
         [next EXCEPT !.quoted = start, !.depth = depth, !.closed = last]}
  BY DEF ReadOn
<1> HIDE DEF more, depth, inside, start, slash, last
<1>4. next \in Readings
  BY <1>2 DEF Readings
<1> HIDE DEF next
<1>5. /\ [next EXCEPT !.escaped = FALSE] \in Readings
      /\ [next EXCEPT !.escaped = slash, !.quoted = inside] \in Readings
      /\ [next EXCEPT !.quoted = start, !.depth = depth, !.closed = last] \in Readings
  BY <1>2, <1>4 DEF Readings
<1> QED  BY <1>3, <1>5

\* A character of each kind: what it does to a reading that is outside strings,
\* inside one, and after a backslash.
LEMMA ReadIs ==
  ASSUME NEW s \in Readings, NEW ch \in Character
  PROVE  LET r == Read(s, ch)
         IN  /\ r \in Readings
             /\ s.closed => r = s
             /\ ~s.closed => r.read = s.read + 1
             /\ ~s.closed /\ s.escaped =>
                  ~r.closed /\ ~r.escaped /\ r.quoted = s.quoted /\ r.depth = s.depth
             /\ ~s.closed /\ ~s.escaped /\ s.quoted =>
                  ~r.closed /\ (r.escaped <=> ch = "b") /\ (r.quoted <=> ch # "q") /\ r.depth = s.depth
             /\ ~s.closed /\ ~s.escaped /\ ~s.quoted =>
                  /\ ~r.escaped /\ (r.quoted <=> ch = "q")
                  /\ r.depth = s.depth + (IF ch = "o" THEN 1 ELSE 0) - (IF ch = "c" THEN 1 ELSE 0)
                  /\ r.closed <=> ch = "c" /\ r.depth = 0
<1> DEFINE r == Read(s, ch)
           next == [s EXCEPT !.read = s.read + 1]
           depth == s.depth + (IF ch = "o" THEN 1 ELSE 0) - (IF ch = "c" THEN 1 ELSE 0)
<1>1. s.depth \in Int /\ s.read \in Int /\ s.quoted \in BOOLEAN /\ s.escaped \in BOOLEAN /\ s.closed \in BOOLEAN
  BY DEF Readings
<1>2. r \in Readings
  BY ReadTyped DEF Read
<1>3. r = CASE s.closed -> s
            [] ~s.closed /\ s.escaped -> [next EXCEPT !.escaped = FALSE]
            [] ~s.closed /\ ~s.escaped /\ s.quoted -> [next EXCEPT !.escaped = ch = "b", !.quoted = ch # "q"]
            [] OTHER -> [next EXCEPT !.quoted = ch = "q", !.depth = depth, !.closed = ch = "c" /\ depth = 0]
  BY Zenon DEF Read, ReadOn
<1> HIDE DEF r, depth
<1>4. CASE s.closed
  <2>1. r = s
    BY <1>3, <1>4
  <2> QED  BY <1>2, <1>4, <2>1 DEF r
<1>5. CASE ~s.closed /\ s.escaped
  <2>1. r = [next EXCEPT !.escaped = FALSE]
    BY <1>3, <1>5
  <2>2. ~r.closed /\ ~r.escaped /\ r.quoted = s.quoted /\ r.depth = s.depth /\ r.read = s.read + 1
    BY <1>5, <2>1 DEF Readings
  <2> QED  BY <1>2, <1>5, <2>2 DEF r
<1>6. CASE ~s.closed /\ ~s.escaped /\ s.quoted
  <2>1. r = [next EXCEPT !.escaped = ch = "b", !.quoted = ch # "q"]
    BY <1>3, <1>6
  <2>2. /\ ~r.closed /\ (r.escaped <=> ch = "b") /\ (r.quoted <=> ch # "q") /\ r.depth = s.depth
        /\ r.read = s.read + 1
    BY <1>6, <2>1 DEF Readings
  <2> QED  BY <1>2, <1>6, <2>2 DEF r
<1>7. CASE ~s.closed /\ ~s.escaped /\ ~s.quoted
  <2>1. r = [next EXCEPT !.quoted = ch = "q", !.depth = depth, !.closed = ch = "c" /\ depth = 0]
    BY <1>3, <1>7
  <2>2. /\ ~r.escaped /\ (r.quoted <=> ch = "q") /\ r.depth = depth
        /\ r.closed <=> ch = "c" /\ depth = 0
        /\ r.read = s.read + 1
    BY <1>7, <2>1 DEF Readings
  <2> QED  BY <1>2, <1>7, <2>2 DEF r, depth
<1> QED  BY <1>1, <1>4, <1>5, <1>6, <1>7

\* A scan of t from a to z, character by character: h[n] is its reading after t[n].
Scan(h, t, a, z, opener, closer) ==
  /\ h \in [a - 1 .. z -> Readings]
  /\ h[a - 1] = Unread
  /\ \A n \in a .. z : h[n] = ReadOn(h[n - 1], t[n], opener, closer)

\* The fold over a sequence is a scan of it.
LEMMA FoldIsScan ==
  ASSUME NEW u \in Seq(Character), NEW opener, NEW closer
  PROVE  \E g : /\ Scan(g, u, 1, Len(u), opener, closer)
                /\ Balanced(u, opener, closer) =
                     IF g[Len(u)].closed THEN SubSeq(u, 1, g[Len(u)].read) ELSE <<>>
<1> DEFINE L == Len(u)
           On(s, ch) == ReadOn(s, ch, opener, closer)
           IsFold(f) == f = [S \in SUBSET DOMAIN u |->
                               IF S = {} THEN Unread ELSE On(f[S \ {Max(S)}], u[Max(S)])]
           F == CHOOSE f : IsFold(f)
           step == [p \in Readings \X (1 .. L) |-> On(p[1], u[p[2]])]
<1>1. L \in Nat /\ DOMAIN u = 1 .. L
  OBVIOUS
<1>2. Balanced(u, opener, closer) =
        IF F[DOMAIN u].closed THEN SubSeq(u, 1, F[DOMAIN u].read) ELSE <<>>
  BY Zenon DEF Balanced, FoldLeft, MapThenFoldSet
<1>3. \A s \in Readings : \A ch : On(s, ch) \in Readings
  BY ReadTyped
<1>4. Unread \in Readings
  BY DEF Unread, Readings
<1> HIDE DEF On
<1>5. step \in [Readings \X (1 .. L) -> Readings]
  BY <1>3
<1>6. PICK f \in [SUBSET (1 .. L) -> Readings] : FoldsTo(f, Unread, step, L)
  <2> HIDE DEF step, L
  <2>1. CanFold(Readings, Unread, step, L)
    BY <1>1, <1>4, <1>5, FoldExists
  <2> QED  BY <2>1 DEF CanFold
<1>7. ASSUME NEW S \in SUBSET (1 .. L)
      PROVE  f[S] = IF S = {} THEN Unread ELSE On(f[S \ {Max(S)}], u[Max(S)])
  <2>1. f[S] = IF S = {} THEN Unread ELSE step[<<f[S \ {Max(S)}], Max(S)>>]
    BY <1>6 DEF FoldsTo
  <2>2. CASE S # {}
    <3>1. Max(S) \in 1 .. L
      <4>1. 1 \in Int /\ L \in Int
        BY <1>1
      <4>2. Max(S) \in S
        BY <2>2, <4>1, MaxIsGreatest
      <4> QED  BY <4>2
    <3>2. S \ {Max(S)} \in SUBSET (1 .. L)
      OBVIOUS
    <3>3. f[S \ {Max(S)}] \in Readings
      BY <3>2
    <3> DEFINE x == f[S \ {Max(S)}]
               m == Max(S)
    <3>4. step[<<x, m>>] = On(x, u[m])
      <4>1. x \in Readings /\ m \in 1 .. L
        BY <3>1, <3>3
      <4> HIDE DEF x, m
      <4> QED  BY <4>1
    <3> QED  BY <2>1, <2>2, <3>4, Zenon
  <2> QED  BY <2>1, <2>2, Zenon
<1>8. IsFold(f)
  <2>1. f = [S \in SUBSET (1 .. L) |-> f[S]]
    BY <1>6
  <2> QED  BY <1>1, <1>7, <2>1, Zenon
<1>9. IsFold(F)
  BY <1>8, Zenon
<1>10. \A S \in SUBSET (1 .. L) :
        F[S] = IF S = {} THEN Unread ELSE On(F[S \ {Max(S)}], u[Max(S)])
  BY <1>1, <1>9, Zenon
<1> HIDE DEF F, step
<1> DEFINE g == [n \in 0 .. L |-> F[1 .. n]]
<1>11. F[1 .. 0] = Unread
  <2>1. 1 .. 0 = {}
    OBVIOUS
  <2> QED  BY <1>10, <2>1, Zenon
<1>12. \A n \in 1 .. L : F[1 .. n] = On(F[1 .. n - 1], u[n])
  <2> SUFFICES ASSUME NEW n \in 1 .. L
               PROVE  F[1 .. n] = On(F[1 .. n - 1], u[n])
    OBVIOUS
  <2>1. n \in Nat \ {0} /\ 1 .. n \in SUBSET (1 .. L)
    BY <1>1
  <2>2. Max(1 .. n) = n /\ (1 .. n) \ {n} = 1 .. n - 1 /\ 1 .. n # {}
    BY <2>1, LastPosition
  <2> QED  BY <1>10, <2>1, <2>2, Zenon
<1>13. \A n \in 0 .. L : g[n] = F[1 .. n]
  OBVIOUS
<1>14. \A n \in 1 .. L : n \in 0 .. L /\ n - 1 \in 0 .. L
  BY <1>1
<1>15. 0 \in 0 .. L /\ L \in 0 .. L /\ 1 - 1 = 0
  BY <1>1
<1>16. g[0] = Unread /\ \A n \in 1 .. L : g[n] = On(g[n - 1], u[n])
  <2> HIDE DEF g
  <2> QED  BY <1>11, <1>12, <1>13, <1>14, <1>15
<1>17. DOMAIN g = 0 .. L /\ g = [n \in 0 .. L |-> g[n]]
  OBVIOUS
<1> HIDE DEF g
<1>18. \A n \in 0 .. L : g[n] \in Readings
  <2> DEFINE N == {n \in Nat : n <= L => g[n] \in Readings}
  <2>1. 0 \in N
    BY <1>4, <1>16
  <2>2. ASSUME NEW n \in Nat, n \in N
        PROVE  n + 1 \in N
    <3> SUFFICES ASSUME n + 1 <= L
                 PROVE  g[n + 1] \in Readings
      OBVIOUS
    <3>1. n + 1 \in 1 .. L /\ (n + 1) - 1 = n /\ g[n] \in Readings
      BY <1>1, <2>2
    <3>2. g[n + 1] = On(g[n], u[n + 1])
      BY <1>16, <3>1
    <3> QED  BY <1>3, <3>1, <3>2
  <2>3. Nat \subseteq N
    <3> HIDE DEF N
    <3> QED  BY <2>1, <2>2, SetInduction
  <2> QED  BY <1>1, <2>3
<1>19. g \in [0 .. L -> Readings]
  BY <1>17, <1>18
<1>20. Scan(g, u, 1, L, opener, closer)
  BY <1>15, <1>16, <1>19 DEF Scan, On
<1>21. F[DOMAIN u] = g[L]
  BY <1>1, <1>13, <1>15
<1> QED  BY <1>2, <1>20, <1>21, Zenon

\* A scan has read no more characters than there are so far, and stops for good
\* when the bracket is closed.
LEMMA ScanReads ==
  ASSUME NEW t \in Seq(Character), NEW a \in Nat \ {0}, NEW z \in Nat, a - 1 <= z, z <= Len(t),
         NEW opener, NEW closer, NEW h, Scan(h, t, a, z, opener, closer)
  PROVE  \A n \in a - 1 .. z :
           /\ h[n].read \in 0 .. n - a + 1
           /\ ~h[n].closed => h[n].read = n - a + 1
<1> DEFINE N == {n \in Nat : a - 1 + n <= z =>
                   /\ h[a - 1 + n].read \in 0 .. n
                   /\ ~h[a - 1 + n].closed => h[a - 1 + n].read = n}
<1>1. 0 \in N
  BY DEF Scan, Unread
<1>2. ASSUME NEW n \in Nat, n \in N
      PROVE  n + 1 \in N
  <2> DEFINE k == a - 1 + n
  <2> SUFFICES ASSUME a - 1 + (n + 1) <= z
               PROVE  /\ h[a - 1 + (n + 1)].read \in 0 .. n + 1
                      /\ ~h[a - 1 + (n + 1)].closed => h[a - 1 + (n + 1)].read = n + 1
    OBVIOUS
  <2>1. k \in a - 1 .. z /\ k + 1 \in a .. z /\ (k + 1) - 1 = k /\ a - 1 + (n + 1) = k + 1
    OBVIOUS
  <2>2. h[k].read \in 0 .. n /\ (~h[k].closed => h[k].read = n)
    BY <1>2, <2>1
  <2>3. h[k] \in Readings /\ h[k + 1] = ReadOn(h[k], t[k + 1], opener, closer)
    BY <2>1 DEF Scan
  <2> HIDE DEF k
  <2>4. h[k].closed => h[k + 1] = h[k]
    BY <2>3 DEF ReadOn
  <2>5. ~h[k].closed => h[k + 1].read = h[k].read + 1
    BY <2>3 DEF ReadOn, Readings
  <2> QED  BY <2>1, <2>2, <2>4, <2>5
<1>3. Nat \subseteq N
  <2> HIDE DEF N
  <2> QED  BY <1>1, <1>2, SetInduction
<1>4. ASSUME NEW n \in a - 1 .. z
      PROVE  h[n].read \in 0 .. n - a + 1 /\ (~h[n].closed => h[n].read = n - a + 1)
  <2>1. n - a + 1 \in Nat /\ a - 1 + (n - a + 1) = n
    OBVIOUS
  <2>2. n - a + 1 \in N
    <3> HIDE DEF N
    <3> QED  BY <1>3, <2>1
  <2> QED  BY <2>1, <2>2
<1> QED  BY <1>4

\* What is balanced in a part of a sequence starts where the part does.
LEMMA BalancedIs ==
  ASSUME NEW t \in Seq(Character), NEW a \in Nat \ {0}, NEW z \in Nat, a - 1 <= z, z <= Len(t),
         NEW opener, NEW closer
  PROVE  \E h : /\ Scan(h, t, a, z, opener, closer)
                /\ Balanced(SubSeq(t, a, z), opener, closer) =
                     IF h[z].closed THEN SubSeq(t, a, a - 1 + h[z].read) ELSE <<>>
<1> DEFINE u == SubSeq(t, a, z)
           size == z - a + 1
<1>1. u = [n \in 1 .. size |-> t[n + a - 1]]
  BY DEF SubSeq
<1>2. size \in Nat /\ \A n \in 1 .. size : n + a - 1 \in 1 .. Len(t)
  OBVIOUS
<1>3. \A n \in 1 .. Len(t) : t[n] \in Character
  OBVIOUS
<1> HIDE DEF u, size
<1>4. \A n \in 1 .. size : t[n + a - 1] \in Character
  BY <1>2, <1>3, Zenon
<1>5. u = [n \in 1 .. size |-> t[n + a - 1]]
  BY <1>1 DEF size
<1>6. u \in Seq(Character) /\ Len(u) = size /\ \A n \in 1 .. size : u[n] = t[n + a - 1]
  BY <1>2, <1>4, <1>5
<1>7. size \in Nat /\ Len(u) = size /\ u \in Seq(Character) /\ \A n \in 1 .. size : u[n] = t[n + a - 1]
  BY <1>2, <1>6, Zenon
<1> USE DEF size
<1>8. PICK g : /\ Scan(g, u, 1, Len(u), opener, closer)
               /\ Balanced(u, opener, closer) =
                    IF g[Len(u)].closed THEN SubSeq(u, 1, g[Len(u)].read) ELSE <<>>
  BY <1>7, FoldIsScan
<1>9. Scan(g, u, 1, size, opener, closer)
  BY <1>7, <1>8
<1>10. g[size].read \in 0 .. size
  <2>1. 1 \in Nat \ {0} /\ 1 - 1 <= size /\ size <= Len(u) /\ size \in 1 - 1 .. size /\ size - 1 + 1 = size
    BY <1>7
  <2> HIDE DEF size
  <2>2. \A n \in 1 - 1 .. size : g[n].read \in 0 .. n - 1 + 1
    BY <1>7, <1>9, <2>1, ScanReads
  <2> QED  BY <2>1, <2>2
<1> DEFINE h == [n \in a - 1 .. z |-> g[n - a + 1]]
<1>11. \A n \in a - 1 .. z : h[n] = g[n - a + 1] /\ n - a + 1 \in 0 .. size
  OBVIOUS
<1>12. h[z] = g[size] /\ h[a - 1] = g[0]
  BY <1>11
<1>13. h \in [a - 1 .. z -> Readings]
  <2>1. \A n \in 0 .. size : g[n] \in Readings
    BY <1>9 DEF Scan
  <2> QED  BY <1>11, <2>1
<1> HIDE DEF h
<1>14. \A n \in a .. z : h[n] = ReadOn(h[n - 1], t[n], opener, closer)
  <2> SUFFICES ASSUME NEW n \in a .. z
               PROVE  h[n] = ReadOn(h[n - 1], t[n], opener, closer)
    OBVIOUS
  <2> DEFINE k == n - a + 1
  <2>1. k \in 1 .. size /\ n \in a - 1 .. z /\ n - 1 \in a - 1 .. z /\ (n - 1) - a + 1 = k - 1 /\ k + a - 1 = n
    OBVIOUS
  <2>2. h[n] = g[k] /\ h[n - 1] = g[k - 1] /\ u[k] = t[n]
    BY <1>7, <1>11, <2>1
  <2> HIDE DEF k, size
  <2>3. g[k] = ReadOn(g[k - 1], u[k], opener, closer)
    BY <1>9, <2>1 DEF Scan
  <2> QED  BY <2>2, <2>3
<1>15. Scan(h, t, a, z, opener, closer)
  BY <1>9, <1>12, <1>13, <1>14 DEF Scan
<1>16. ASSUME NEW r \in 0 .. size
       PROVE  SubSeq(u, 1, r) = SubSeq(t, a, a - 1 + r)
  <2>1. SubSeq(u, 1, r) = [n \in 1 .. r |-> u[n]]
    BY DEF SubSeq
  <2>2. SubSeq(t, a, a - 1 + r) = [n \in 1 .. r |-> t[n + a - 1]]
    BY DEF SubSeq
  <2>3. \A n \in 1 .. r : u[n] = t[n + a - 1]
    BY <1>7
  <2> QED  BY <2>1, <2>2, <2>3
<1>17. SubSeq(u, 1, g[size].read) = SubSeq(t, a, a - 1 + g[size].read)
  BY <1>10, <1>16
<1>18. Balanced(u, opener, closer) = IF h[z].closed THEN SubSeq(t, a, a - 1 + h[z].read) ELSE <<>>
  <2>1. Len(u) = size
    BY <1>7
  <2> HIDE DEF size
  <2> QED  BY <1>8, <1>12, <1>17, <2>1, Zenon
<1> QED  BY <1>15, <1>18 DEF u

\* One step of a scan of braces, by what it read before.
LEMMA ScanSteps ==
  ASSUME NEW t \in Seq(Character), NEW a \in Nat \ {0}, NEW z \in Nat, z <= Len(t),
         NEW h, Scan(h, t, a, z, "o", "c"), NEW n \in a .. z
  PROVE  /\ h[n - 1] \in Readings /\ h[n] \in Readings /\ t[n] \in Character
         /\ h[n - 1].closed => h[n] = h[n - 1]
         /\ ~h[n - 1].closed /\ h[n - 1].escaped =>
              ~h[n].closed /\ ~h[n].escaped /\ h[n].quoted = h[n - 1].quoted /\ h[n].depth = h[n - 1].depth
         /\ ~h[n - 1].closed /\ ~h[n - 1].escaped /\ h[n - 1].quoted =>
              /\ ~h[n].closed /\ h[n].depth = h[n - 1].depth
              /\ (h[n].escaped <=> t[n] = "b") /\ (h[n].quoted <=> t[n] # "q")
         /\ ~h[n - 1].closed /\ ~h[n - 1].escaped /\ ~h[n - 1].quoted =>
              /\ ~h[n].escaped /\ (h[n].quoted <=> t[n] = "q")
              /\ h[n].depth = h[n - 1].depth + (IF t[n] = "o" THEN 1 ELSE 0) - (IF t[n] = "c" THEN 1 ELSE 0)
              /\ h[n].closed <=> t[n] = "c" /\ h[n].depth = 0
<1>1. n - 1 \in a - 1 .. z /\ n \in a - 1 .. z /\ n \in DOMAIN t
  OBVIOUS
<1>2. h[n - 1] \in Readings /\ h[n] \in Readings /\ t[n] \in Character
  BY <1>1 DEF Scan
<1>3. h[n] = Read(h[n - 1], t[n])
  BY DEF Scan, Read
<1> DEFINE s == h[n - 1]
           r == h[n]
           ch == t[n]
<1>4. s \in Readings /\ r \in Readings /\ ch \in Character /\ r = Read(s, ch)
  BY <1>2, <1>3
<1> HIDE DEF s, r, ch
<1>5. /\ s.closed => r = s
      /\ ~s.closed /\ s.escaped =>
           ~r.closed /\ ~r.escaped /\ r.quoted = s.quoted /\ r.depth = s.depth
      /\ ~s.closed /\ ~s.escaped /\ s.quoted =>
           ~r.closed /\ (r.escaped <=> ch = "b") /\ (r.quoted <=> ch # "q") /\ r.depth = s.depth
      /\ ~s.closed /\ ~s.escaped /\ ~s.quoted =>
           /\ ~r.escaped /\ (r.quoted <=> ch = "q")
           /\ r.depth = s.depth + (IF ch = "o" THEN 1 ELSE 0) - (IF ch = "c" THEN 1 ELSE 0)
           /\ r.closed <=> ch = "c" /\ r.depth = 0
  BY <1>4, ReadIs, Zenon
<1> QED  BY <1>4, <1>5, Zenon DEF s, r, ch

\* The same by where the scan stands.
LEMMA AtSteps ==
  ASSUME NEW t \in Seq(Character), NEW a \in Nat \ {0}, NEW z \in Nat, z <= Len(t),
         NEW h, Scan(h, t, a, z, "o", "c"), NEW n \in a .. z, NEW d \in Int
  PROVE  /\ At(h[n - 1], FALSE, FALSE, d) =>
              /\ t[n] \in {"l", "r", "f", "a", "w", "b"} => At(h[n], FALSE, FALSE, d)
              /\ t[n] = "q" => At(h[n], TRUE, FALSE, d)
              /\ t[n] = "o" => At(h[n], FALSE, FALSE, d + 1)
              /\ t[n] = "c" => IF d = 1 THEN h[n].closed ELSE At(h[n], FALSE, FALSE, d - 1)
         /\ At(h[n - 1], TRUE, TRUE, d) => At(h[n], TRUE, FALSE, d)
         /\ At(h[n - 1], TRUE, FALSE, d) =>
              /\ t[n] = "b" => At(h[n], TRUE, TRUE, d)
              /\ t[n] = "q" => At(h[n], FALSE, FALSE, d)
              /\ t[n] \notin {"b", "q"} => At(h[n], TRUE, FALSE, d)
<1> DEFINE s == h[n - 1]
           r == h[n]
           ch == t[n]
<1>1. /\ s \in Readings /\ r \in Readings /\ ch \in Character
      /\ s.closed => r = s
      /\ ~s.closed /\ s.escaped =>
           ~r.closed /\ ~r.escaped /\ r.quoted = s.quoted /\ r.depth = s.depth
      /\ ~s.closed /\ ~s.escaped /\ s.quoted =>
           /\ ~r.closed /\ r.depth = s.depth
           /\ (r.escaped <=> ch = "b") /\ (r.quoted <=> ch # "q")
      /\ ~s.closed /\ ~s.escaped /\ ~s.quoted =>
           /\ ~r.escaped /\ (r.quoted <=> ch = "q")
           /\ r.depth = s.depth + (IF ch = "o" THEN 1 ELSE 0) - (IF ch = "c" THEN 1 ELSE 0)
           /\ r.closed <=> ch = "c" /\ r.depth = 0
  BY ScanSteps
<1> HIDE DEF s, r, ch
<1>2. \A x \in {s, r} : x.quoted \in BOOLEAN /\ x.escaped \in BOOLEAN /\ x.closed \in BOOLEAN /\ x.depth \in Int
  BY <1>1 DEF Readings
<1>3. ASSUME At(s, FALSE, FALSE, d)
      PROVE  /\ ch \in {"l", "r", "f", "a", "w", "b"} => At(r, FALSE, FALSE, d)
             /\ ch = "q" => At(r, TRUE, FALSE, d)
             /\ ch = "o" => At(r, FALSE, FALSE, d + 1)
             /\ ch = "c" => IF d = 1 THEN r.closed ELSE At(r, FALSE, FALSE, d - 1)
  <2>1. ~s.closed /\ ~s.quoted /\ ~s.escaped /\ s.depth = d
    BY <1>3, Zenon DEF At
  <2>2. /\ ~r.escaped /\ (r.quoted <=> ch = "q")
        /\ r.depth = s.depth + (IF ch = "o" THEN 1 ELSE 0) - (IF ch = "c" THEN 1 ELSE 0)
        /\ r.closed <=> ch = "c" /\ r.depth = 0
    BY <1>1, <2>1, Zenon
  <2> QED  BY <1>2, <2>1, <2>2 DEF At
<1>4. ASSUME At(s, TRUE, TRUE, d)
      PROVE  At(r, TRUE, FALSE, d)
  <2>1. ~s.closed /\ s.quoted /\ s.escaped /\ s.depth = d
    BY <1>4, Zenon DEF At
  <2>2. ~r.closed /\ ~r.escaped /\ r.quoted = s.quoted /\ r.depth = s.depth
    BY <1>1, <2>1, Zenon
  <2> QED  BY <1>2, <2>1, <2>2 DEF At
<1>5. ASSUME At(s, TRUE, FALSE, d)
      PROVE  /\ ch = "b" => At(r, TRUE, TRUE, d)
             /\ ch = "q" => At(r, FALSE, FALSE, d)
             /\ ch \notin {"b", "q"} => At(r, TRUE, FALSE, d)
  <2>1. ~s.closed /\ s.quoted /\ ~s.escaped /\ s.depth = d
    BY <1>5, Zenon DEF At
  <2>2. ~r.closed /\ r.depth = s.depth /\ (r.escaped <=> ch = "b") /\ (r.quoted <=> ch # "q")
    BY <1>1, <2>1, Zenon
  <2> QED  BY <1>2, <2>1, <2>2 DEF At
<1> QED  BY <1>3, <1>4, <1>5 DEF s, r, ch

\* A string read from outside leaves the scan outside again, as deep as before.
LEMMA StringIsRead ==
  ASSUME NEW t \in Seq(Character), NEW a \in Nat \ {0}, NEW z \in Nat, z <= Len(t),
         NEW h, Scan(h, t, a, z, "o", "c"),
         NEW i \in a .. z, NEW m \in a .. z, IsString(t, i, m),
         NEW d \in Int, At(h[i - 1], FALSE, FALSE, d)
  PROVE  At(h[m], FALSE, FALSE, d)
<1>1. i < m /\ t[i] = "q" /\ t[m] = "q"
  BY DEF IsString
<1>2. PICK starts \in SUBSET (i + 1 .. m) :
        /\ {i + 1, m} \subseteq starts
        /\ \A n \in starts \ {m} : IF t[n] = "b" THEN n + 2 \in starts ELSE t[n] # "q" /\ n + 1 \in starts
  BY DEF IsString
<1> DEFINE Begins(n) == n \in starts /\ At(h[n - 1], TRUE, FALSE, d)
           Escapes(n) == n - 1 \in starts \ {m} /\ t[n - 1] = "b" /\ At(h[n - 1], TRUE, TRUE, d)
           N == {k \in Nat : i + 1 + k <= m => Begins(i + 1 + k) \/ Escapes(i + 1 + k)}
<1>3. 0 \in N
  <2>1. At(h[i], TRUE, FALSE, d)
    BY <1>1, AtSteps
  <2>2. (i + 1 + 0) - 1 = i /\ i + 1 + 0 = i + 1 /\ 0 \in Nat
    OBVIOUS
  <2>3. Begins(i + 1 + 0)
    BY <1>2, <2>1, <2>2
  <2> HIDE DEF Begins, Escapes
  <2> QED  BY <2>2, <2>3
<1>4. ASSUME NEW k \in Nat, k \in N
      PROVE  k + 1 \in N
  <2> SUFFICES ASSUME i + 1 + (k + 1) <= m
               PROVE  Begins(i + 1 + (k + 1)) \/ Escapes(i + 1 + (k + 1))
    <3> HIDE DEF Begins, Escapes
    <3> QED  OBVIOUS
  <2> DEFINE n == i + 1 + k
  <2>1. /\ n \in a .. z /\ n < m /\ n + 1 \in a .. z /\ i + 1 + (k + 1) = n + 1 /\ (n + 1) - 1 = n
        /\ (n - 1) + 2 = n + 1
    BY <1>1
  <2>2. Begins(n) \/ Escapes(n)
    <3>1. i + 1 + k <= m
      OBVIOUS
    <3> HIDE DEF Begins, Escapes
    <3> QED  BY <1>4, <3>1
  <2> HIDE DEF n
  <2>3. CASE Begins(n) /\ t[n] = "b"
    <3>1. At(h[n], TRUE, TRUE, d)
      BY <2>1, <2>3, AtSteps
    <3>2. n \in starts \ {m}
      BY <2>1, <2>3
    <3> QED  BY <2>1, <2>3, <3>1, <3>2
  <2>4. CASE Begins(n) /\ t[n] # "b"
    <3>1. n \in starts \ {m}
      BY <2>1, <2>4
    <3>2. t[n] # "q" /\ n + 1 \in starts
      BY <1>2, <2>4, <3>1
    <3>3. At(h[n], TRUE, FALSE, d)
      BY <2>1, <2>4, <3>2, AtSteps
    <3> QED  BY <2>1, <3>2, <3>3
  <2>5. CASE Escapes(n)
    <3>1. n + 1 \in starts
      BY <1>2, <2>1, <2>5
    <3>2. At(h[n], TRUE, FALSE, d)
      BY <2>1, <2>5, AtSteps
    <3> QED  BY <2>1, <3>1, <3>2
  <2> QED  BY <2>2, <2>3, <2>4, <2>5
<1>5. Nat \subseteq N
  <2> HIDE DEF N
  <2> QED  BY <1>3, <1>4, SetInduction
<1>6. Begins(m) \/ Escapes(m)
  <2>1. m - i - 1 \in Nat /\ i + 1 + (m - i - 1) = m
    BY <1>1
  <2>2. m - i - 1 \in N
    <3> HIDE DEF N
    <3> QED  BY <1>5, <2>1
  <2> HIDE DEF Begins, Escapes
  <2> QED  BY <2>1, <2>2
<1>7. ~Escapes(m)
  <2> SUFFICES ASSUME Escapes(m)
               PROVE  FALSE
    OBVIOUS
  <2>1. (m - 1) + 2 = m + 1 /\ m + 1 \notin i + 1 .. m
    OBVIOUS
  <2>2. m + 1 \in starts
    BY <1>2, <2>1
  <2> QED  BY <2>1, <2>2
<1> QED  BY <1>1, <1>6, <1>7, AtSteps

\* What has been read as bodies leaves the scan as it was: outside strings, and as deep.
ReadAsBodies(bodies, t, a, z, h) ==
  \A span \in bodies :
    /\ span \in (1 .. Len(t) + 1) \X (0 .. Len(t)) /\ span[1] - 1 <= span[2]
    /\ a <= span[1] /\ span[2] <= z =>
         \A d \in Int : d >= 1 /\ At(h[span[1] - 1], FALSE, FALSE, d) => At(h[span[2]], FALSE, FALSE, d)

\* A thing in a body leaves the scan as it was, too.
LEMMA ThingIsRead ==
  ASSUME NEW t \in Seq(Character), NEW a \in Nat \ {0}, NEW z \in Nat, z <= Len(t),
         NEW h, Scan(h, t, a, z, "o", "c"), NEW bodies, ReadAsBodies(bodies, t, a, z, h),
         NEW i \in a .. z, NEW m \in a .. z, IsThing(bodies, t, i, m),
         NEW d \in Int, d >= 1, At(h[i - 1], FALSE, FALSE, d)
  PROVE  At(h[m], FALSE, FALSE, d)
<1>1. CASE i = m /\ t[i] \in {"l", "r", "f", "a", "w", "b"}
  BY <1>1, AtSteps
<1>2. CASE IsString(t, i, m)
  BY <1>2, StringIsRead
<1>3. CASE IsObjectOf(bodies, t, i, m)
  <2>1. i < m /\ t[i] = "o" /\ t[m] = "c" /\ <<i + 1, m - 1>> \in bodies
    BY <1>3 DEF IsObjectOf
  <2>2. At(h[i], FALSE, FALSE, d + 1)
    <3>1. At(h[i - 1], FALSE, FALSE, d) /\ t[i] = "o" => At(h[i], FALSE, FALSE, d + 1)
      BY AtSteps
    <3> QED  BY <2>1, <3>1
  <2>3. At(h[m - 1], FALSE, FALSE, d + 1)
    <3> DEFINE span == <<i + 1, m - 1>>
    <3>1. span[1] = i + 1 /\ span[2] = m - 1
      OBVIOUS
    <3>2. span \in bodies /\ a <= span[1] /\ span[2] <= z /\ span[1] - 1 = i /\ d + 1 \in Int /\ d + 1 >= 1
      BY <2>1, <3>1
    <3> HIDE DEF span
    <3>3. At(h[span[1] - 1], FALSE, FALSE, d + 1) => At(h[span[2]], FALSE, FALSE, d + 1)
      BY <3>2 DEF ReadAsBodies
    <3> QED  BY <2>2, <3>1, <3>2, <3>3
  <2>4. \A e \in Int : At(h[m - 1], FALSE, FALSE, e) /\ t[m] = "c" /\ e # 1 => At(h[m], FALSE, FALSE, e - 1)
    BY AtSteps
  <2>5. d + 1 \in Int /\ d + 1 # 1 /\ (d + 1) - 1 = d
    OBVIOUS
  <2> QED  BY <2>1, <2>3, <2>4, <2>5
<1> QED  BY <1>1, <1>2, <1>3 DEF IsThing

\* There is such a function, whatever its length.
LEMMA BodiesExist ==
  ASSUME NEW t
  PROVE  \A k \in Nat : \E b : b = [n \in 0 .. k |->
           IF n = 0 THEN {<<i, i - 1>> : i \in 1 .. Len(t) + 1} ELSE Longer(b[n - 1], t)]
<1> DEFINE first == {<<i, i - 1>> : i \in 1 .. Len(t) + 1}
           Next1(x) == Longer(x, t)
           Is(b, k) == b = [n \in 0 .. k |-> IF n = 0 THEN first ELSE Next1(b[n - 1])]
           S == {k \in Nat : \E b : Is(b, k)}
<1>1. \A b, k : Is(b, k) <=> b = [n \in 0 .. k |->
        IF n = 0 THEN {<<i, i - 1>> : i \in 1 .. Len(t) + 1} ELSE Longer(b[n - 1], t)]
  BY Zenon
<1> HIDE DEF first, Next1
<1>2. 0 \in S
  <2>1. Is([n \in 0 .. 0 |-> first], 0)
    OBVIOUS
  <2> QED  BY <2>1
<1>3. ASSUME NEW k \in Nat, k \in S
      PROVE  k + 1 \in S
  <2>1. PICK b : Is(b, k)
    BY <1>3
  <2> DEFINE g == [n \in 0 .. k + 1 |-> IF n <= k THEN b[n] ELSE Next1(b[k])]
  <2>2. \A n \in 0 .. k : b[n] = IF n = 0 THEN first ELSE Next1(b[n - 1])
    BY <2>1
  <2>3. \A n \in 0 .. k + 1 : g[n] = IF n = 0 THEN first ELSE Next1(g[n - 1])
    <3> SUFFICES ASSUME NEW n \in 0 .. k + 1
                 PROVE  g[n] = IF n = 0 THEN first ELSE Next1(g[n - 1])
      OBVIOUS
    <3>1. CASE n <= k
      <4>1. n \in 0 .. k /\ g[n] = b[n] /\ (n # 0 => g[n - 1] = b[n - 1])
        BY <3>1
      <4> HIDE DEF g
      <4> QED  BY <2>2, <4>1
    <3>2. CASE n = k + 1
      <4>1. g[n] = Next1(b[k]) /\ n # 0 /\ n - 1 = k /\ g[k] = b[k]
        BY <3>2
      <4> HIDE DEF g
      <4> QED  BY <4>1
    <3> QED  BY <3>1, <3>2
  <2>4. Is(g, k + 1)
    <3>1. g = [n \in 0 .. k + 1 |-> g[n]]
      OBVIOUS
    <3> HIDE DEF g
    <3> QED  BY <2>3, <3>1
  <2> HIDE DEF Is
  <2> QED  BY <2>4
<1>4. Nat \subseteq S
  <2> HIDE DEF S
  <2> QED  BY <1>2, <1>3, SetInduction
<1> HIDE DEF Is
<1> QED  BY <1>1, <1>4

\* The bodies of a text are found span by span.
LEMMA BodiesIs ==
  ASSUME NEW t \in Seq(Character)
  PROVE  \E b : /\ Bodies(t) = b[Len(t)]
                /\ b[0] = {<<i, i - 1>> : i \in 1 .. Len(t) + 1}
                /\ \A n \in 1 .. Len(t) : b[n] = Longer(b[n - 1], t)
<1> DEFINE L == Len(t)
           first == {<<i, i - 1>> : i \in 1 .. Len(t) + 1}
           Is(b) == b = [n \in 0 .. L |-> IF n = 0 THEN first ELSE Longer(b[n - 1], t)]
           B == CHOOSE b : Is(b)
<1>1. Bodies(t) = B[L]
  BY Zenon DEF Bodies
<1>2. \E b : Is(b)
  <2>1. L \in Nat
    OBVIOUS
  <2> QED  BY <2>1, BodiesExist, Zenon
<1>3. Is(B)
  BY <1>2, Zenon
<1>4. \A n \in 0 .. L : B[n] = IF n = 0 THEN first ELSE Longer(B[n - 1], t)
  BY <1>3, Zenon
<1> HIDE DEF B, first
<1>5. 0 \in 0 .. L /\ \A n \in 1 .. L : n \in 0 .. L /\ n # 0
  OBVIOUS
<1>6. B[0] = first /\ \A n \in 1 .. L : B[n] = Longer(B[n - 1], t)
  BY <1>4, <1>5, Zenon
<1> QED  BY <1>1, <1>6, Zenon DEF first

\* Every body is read as one.
LEMMA BodiesAreRead ==
  ASSUME NEW t \in Seq(Character), NEW a \in Nat \ {0}, NEW z \in Nat, z <= Len(t),
         NEW h, Scan(h, t, a, z, "o", "c")
  PROVE  ReadAsBodies(Bodies(t), t, a, z, h)
<1> DEFINE L == Len(t)
<1>1. PICK b : /\ Bodies(t) = b[L]
               /\ b[0] = {<<i, i - 1>> : i \in 1 .. L + 1}
               /\ \A n \in 1 .. L : b[n] = Longer(b[n - 1], t)
  BY BodiesIs
<1> DEFINE N == {n \in Nat : n <= L => ReadAsBodies(b[n], t, a, z, h)}
<1>2. 0 \in N
  <2> SUFFICES ASSUME NEW span \in b[0]
               PROVE  /\ span \in (1 .. Len(t) + 1) \X (0 .. Len(t)) /\ span[1] - 1 <= span[2]
                      /\ span[2] = span[1] - 1
    BY DEF ReadAsBodies
  <2>1. PICK i \in 1 .. L + 1 : span = <<i, i - 1>>
    BY <1>1, Zenon
  <2> QED  BY <2>1
<1>3. ASSUME NEW n \in Nat, n \in N
      PROVE  n + 1 \in N
  <2> SUFFICES ASSUME n + 1 <= L
               PROVE  ReadAsBodies(b[n + 1], t, a, z, h)
    OBVIOUS
  <2>1. n + 1 \in 1 .. L /\ (n + 1) - 1 = n
    OBVIOUS
  <2>2. b[n + 1] = Longer(b[n], t) /\ ReadAsBodies(b[n], t, a, z, h)
    BY <1>1, <1>3, <2>1
  <2> DEFINE bodies == b[n]
             Read1(span) ==
               /\ span \in (1 .. Len(t) + 1) \X (0 .. Len(t)) /\ span[1] - 1 <= span[2]
               /\ a <= span[1] /\ span[2] <= z =>
                    \A d \in Int : d >= 1 /\ At(h[span[1] - 1], FALSE, FALSE, d) => At(h[span[2]], FALSE, FALSE, d)
  <2>3. ReadAsBodies(bodies, t, a, z, h) /\ b[n + 1] = Longer(bodies, t)
    BY <2>2
  <2> HIDE DEF bodies
  <2>4. \A span \in bodies : Read1(span)
    BY <2>3, Zenon DEF ReadAsBodies
  <2>5. ASSUME NEW span \in (DOMAIN t) \X (DOMAIN t), NEW m \in span[1] .. span[2],
               IsThing(bodies, t, span[1], m), <<m + 1, span[2]>> \in bodies
        PROVE  Read1(span)
    <3> DEFINE i == span[1]
               j == span[2]
    <3>1. i \in 1 .. L /\ j \in 1 .. L /\ i <= m /\ m <= j /\ m \in Int
      OBVIOUS
    <3>2. span \in (1 .. Len(t) + 1) \X (0 .. Len(t)) /\ i - 1 <= j
      BY <3>1
    <3>3. ASSUME a <= i, j <= z, NEW d \in Int, d >= 1, At(h[i - 1], FALSE, FALSE, d)
          PROVE  At(h[j], FALSE, FALSE, d)
      <4>1. i \in a .. z /\ m \in a .. z
        BY <3>1, <3>3
      <4>2. At(h[m], FALSE, FALSE, d)
        <5>1. IsThing(bodies, t, i, m)
          BY <2>5
        <5> HIDE DEF i, j
        <5> QED  BY <2>3, <3>3, <4>1, <5>1, ThingIsRead
      <4> DEFINE rest == <<m + 1, j>>
      <4>3. rest[1] = m + 1 /\ rest[2] = j /\ rest \in bodies /\ (m + 1) - 1 = m /\ a <= m + 1
        BY <2>5, <3>1, <4>1
      <4> HIDE DEF rest
      <4>4. At(h[rest[1] - 1], FALSE, FALSE, d) => At(h[rest[2]], FALSE, FALSE, d)
        BY <2>4, <3>3, <4>3
      <4> QED  BY <4>2, <4>3, <4>4
    <3> QED  BY <3>2, <3>3
  <2>6. \A span \in Longer(bodies, t) : Read1(span)
    BY <2>4, <2>5, Zenon DEF Longer
  <2> QED  BY <2>3, <2>6, Zenon DEF ReadAsBodies
<1>4. Nat \subseteq N
  <2> HIDE DEF N
  <2> QED  BY <1>2, <1>3, SetInduction
<1>5. L \in N
  <2>1. L \in Nat
    OBVIOUS
  <2> HIDE DEF N, L
  <2> QED  BY <1>4, <2>1
<1> QED  BY <1>1, <1>5

\* Once the bracket is closed nothing more is read.
LEMMA ClosedStays ==
  ASSUME NEW t \in Seq(Character), NEW a \in Nat \ {0}, NEW z \in Nat, z <= Len(t),
         NEW h, Scan(h, t, a, z, "o", "c"), NEW m \in a - 1 .. z, h[m].closed, NEW k \in m .. z
  PROVE  h[k] = h[m]
<1> DEFINE N == {n \in Nat : m + n <= z => h[m + n] = h[m]}
<1>1. 0 \in N
  OBVIOUS
<1>2. ASSUME NEW n \in Nat, n \in N
      PROVE  n + 1 \in N
  <2> SUFFICES ASSUME m + (n + 1) <= z
               PROVE  h[m + (n + 1)] = h[m]
    OBVIOUS
  <2>1. m + (n + 1) \in a .. z /\ (m + (n + 1)) - 1 = m + n /\ h[m + n] = h[m]
    BY <1>2
  <2>2. \A p \in a .. z : h[p - 1].closed => h[p] = h[p - 1]
    BY ScanSteps
  <2> QED  BY <2>1, <2>2
<1>3. Nat \subseteq N
  <2> HIDE DEF N
  <2> QED  BY <1>1, <1>2, SetInduction
<1>4. k - m \in Nat /\ m + (k - m) = k
  OBVIOUS
<1>5. k - m \in N
  <2> HIDE DEF N
  <2> QED  BY <1>3, <1>4
<1> QED  BY <1>4, <1>5

\* An object is the balanced span of what starts with it.
LEMMA ObjectIsBalanced ==
  ASSUME NEW t \in Seq(Character), NEW from \in DOMAIN t, NEW to \in DOMAIN t, IsObject(t, from, to),
         NEW z \in to .. Len(t)
  PROVE  Balanced(SubSeq(t, from, z), "o", "c") = SubSeq(t, from, to)
<1>1. from < to /\ t[from] = "o" /\ t[to] = "c" /\ <<from + 1, to - 1>> \in Bodies(t)
  BY DEF IsObject, IsObjectOf
<1>2. /\ from \in Nat \ {0} /\ z \in Nat /\ from - 1 <= z /\ z <= Len(t) /\ to \in Nat /\ to \in from .. z
      /\ from \in from .. z /\ z \in from - 1 .. z /\ to - 1 \in from - 1 .. z /\ to \in from - 1 .. z
  BY <1>1
<1>3. PICK h : /\ Scan(h, t, from, z, "o", "c")
               /\ Balanced(SubSeq(t, from, z), "o", "c") =
                    IF h[z].closed THEN SubSeq(t, from, from - 1 + h[z].read) ELSE <<>>
  BY <1>2, BalancedIs
<1>4. At(h[from - 1], FALSE, FALSE, 0)
  BY <1>3 DEF Scan, Unread, At
<1>5. \A n \in from .. z, d \in Int : At(h[n - 1], FALSE, FALSE, d) =>
        /\ t[n] = "o" => At(h[n], FALSE, FALSE, d + 1)
        /\ t[n] = "c" => IF d = 1 THEN h[n].closed ELSE At(h[n], FALSE, FALSE, d - 1)
  <2>1. Scan(h, t, from, z, "o", "c")
    BY <1>3
  <2>2. from \in Nat \ {0} /\ z \in Nat /\ z <= Len(t)
    BY <1>2
  <2> QED  BY <2>1, <2>2, AtSteps
<1>6. At(h[from], FALSE, FALSE, 1)
  <2>1. 0 \in Int /\ 0 + 1 = 1
    OBVIOUS
  <2>2. At(h[from], FALSE, FALSE, 0 + 1)
    BY <1>1, <1>2, <1>4, <1>5, <2>1, Zenon
  <2> QED  BY <2>1, <2>2, Zenon
<1>7. At(h[to - 1], FALSE, FALSE, 1)
  <2> DEFINE span == <<from + 1, to - 1>>
  <2>1. span \in Bodies(t) /\ span[1] = from + 1 /\ span[2] = to - 1 /\ (from + 1) - 1 = from /\ 1 \in Int
    BY <1>1
  <2> HIDE DEF span
  <2>2. ReadAsBodies(Bodies(t), t, from, z, h)
    BY <1>2, <1>3, BodiesAreRead
  <2>3. from <= span[1] /\ span[2] <= z
    BY <1>2, <2>1
  <2>4. 1 \in Int /\ 1 >= 1
    OBVIOUS
  <2>5. At(h[span[1] - 1], FALSE, FALSE, 1) => At(h[span[2]], FALSE, FALSE, 1)
    BY <2>1, <2>2, <2>3, <2>4, Zenon DEF ReadAsBodies
  <2> QED  BY <1>6, <2>1, <2>5, Zenon
<1>8. h[to].closed
  <2>1. 1 \in Int
    OBVIOUS
  <2> QED  BY <1>1, <1>2, <1>7, <1>5, <2>1, Zenon
<1>9. h[to].read = to - from + 1
  <2>1. h[to - 1].read = to - 1 - from + 1
    <3>1. ~h[to - 1].closed
      BY <1>7 DEF At
    <3>2. \A n \in from - 1 .. z : ~h[n].closed => h[n].read = n - from + 1
      <4>1. Scan(h, t, from, z, "o", "c")
        BY <1>3
      <4>2. from \in Nat \ {0} /\ z \in Nat /\ from - 1 <= z /\ z <= Len(t)
        BY <1>2
      <4> QED  BY <4>1, <4>2, ScanReads
    <3> QED  BY <1>2, <3>1, <3>2
  <2>2. h[to] = ReadOn(h[to - 1], t[to], "o", "c") /\ h[to - 1] \in Readings /\ ~h[to - 1].closed
    BY <1>2, <1>3, <1>7 DEF Scan, At
  <2>3. h[to].read = h[to - 1].read + 1
    BY <2>2 DEF ReadOn, Readings
  <2> QED  BY <1>2, <2>1, <2>3
<1>10. h[z] = h[to]
  <2>1. z \in to .. z
    BY <1>2
  <2> QED  BY <1>2, <1>3, <1>8, <2>1, ClosedStays
<1>11. from - 1 + h[z].read = to
  BY <1>2, <1>9, <1>10
<1> QED  BY <1>3, <1>8, <1>10, <1>11

\* From i to j the scan of z characters starts and ends outside strings at depth d,
\* and is never less deep between.
Level(h, i, j, d) ==
  /\ At(h[i - 1], FALSE, FALSE, d) /\ At(h[j], FALSE, FALSE, d)
  /\ \A n \in i - 1 .. j : ~h[n].closed /\ h[n].depth >= d

\* A quote that a scan reads outside a string opens one, if the scan is outside
\* strings later on.
LEMMA QuoteOpensString ==
  ASSUME NEW t \in Seq(Character), NEW a \in Nat \ {0}, NEW z \in Nat, z <= Len(t),
         NEW h, Scan(h, t, a, z, "o", "c"),
         NEW i \in a .. z, NEW j \in i .. z, NEW d \in Int, Level(h, i, j, d), t[i] = "q"
  PROVE  \E m \in i .. j : IsString(t, i, m) /\ At(h[m], FALSE, FALSE, d)
<1> DEFINE ends == {n \in i + 1 .. j : ~h[n].quoted}
           m == Min(ends)
<1>1. /\ i \in Nat /\ j \in Nat /\ i <= j /\ a <= i /\ j <= z /\ a \in Nat /\ z \in Nat
      /\ At(h[i - 1], FALSE, FALSE, d) /\ At(h[j], FALSE, FALSE, d)
  <2>1. i \in Nat /\ j \in Nat /\ i <= j /\ a <= i /\ j <= z /\ a \in Nat /\ z \in Nat
    OBVIOUS
  <2>2. At(h[i - 1], FALSE, FALSE, d) /\ At(h[j], FALSE, FALSE, d)
    BY Zenon DEF Level
  <2> QED  BY <2>1, <2>2
<1>2. At(h[i], TRUE, FALSE, d)
  BY <1>1, AtSteps
<1>3. j \in ends
  <2>1. j # i
    BY <1>1, <1>2 DEF At
  <2> QED  BY <1>1, <2>1 DEF At
<1>4. m \in ends /\ \A n \in ends : m <= n
  <2>1. ends \in SUBSET Nat
    BY <1>1
  <2> HIDE DEF ends
  <2> QED  BY <1>3, <2>1, MinIsLeast
<1>5. /\ m \in i + 1 .. j /\ ~h[m].quoted /\ m \in a .. z /\ m - 1 \in i .. j
      /\ \A n \in i + 1 .. m - 1 : h[n].quoted
  <2>1. m \in i + 1 .. j /\ ~h[m].quoted
    BY <1>4
  <2>2. \A n \in i + 1 .. m - 1 : n \in i + 1 .. j /\ ~(m <= n)
    BY <1>1, <2>1
  <2>3. \A n \in i + 1 .. m - 1 : h[n].quoted
    BY <1>4, <2>2
  <2> HIDE DEF m
  <2> QED  BY <1>1, <2>1, <2>3
<1> HIDE DEF m, ends
<1>6. \A n \in i .. m - 1 : At(h[n], TRUE, FALSE, d) \/ At(h[n], TRUE, TRUE, d)
  <2> DEFINE Inside(n) == At(h[n], TRUE, FALSE, d) \/ At(h[n], TRUE, TRUE, d)
             N == {k \in Nat : i + k <= m - 1 => Inside(i + k)}
  <2>0. Inside(i)
    BY <1>2
  <2> HIDE DEF Inside
  <2>1. 0 \in N
    BY <1>1, <2>0
  <2>2. ASSUME NEW k \in Nat, k \in N
        PROVE  k + 1 \in N
    <3> SUFFICES ASSUME i + (k + 1) <= m - 1
                 PROVE  Inside(i + (k + 1))
      OBVIOUS
    <3> DEFINE n == i + (k + 1)
    <3>1. n - 1 = i + k /\ n \in a .. z /\ n \in i + 1 .. m - 1 /\ i + k <= m - 1
      BY <1>1, <1>5
    <3>2. Inside(i + k)
      BY <2>2, <3>1
    <3>3. h[n].quoted
      BY <1>5, <3>1
    <3> HIDE DEF n
    <3>4. At(h[n - 1], TRUE, FALSE, d) \/ At(h[n - 1], TRUE, TRUE, d)
      BY <3>1, <3>2 DEF Inside
    <3>5. ~At(h[n], FALSE, FALSE, d)
      BY <3>3 DEF At
    <3>6. At(h[n], TRUE, FALSE, d) \/ At(h[n], TRUE, TRUE, d)
      BY <3>1, <3>4, <3>5, AtSteps
    <3> QED  BY <3>6 DEF n, Inside
  <2>3. Nat \subseteq N
    <3> HIDE DEF N
    <3> QED  BY <2>1, <2>2, SetInduction
  <2>4. ASSUME NEW n \in i .. m - 1
        PROVE  Inside(n)
    <3>1. n - i \in Nat /\ i + (n - i) = n /\ n <= m - 1
      BY <1>1, <1>5
    <3>2. n - i \in N
      <4> HIDE DEF N
      <4> QED  BY <2>3, <3>1
    <3> QED  BY <3>1, <3>2
  <2> QED  BY <2>4 DEF Inside
<1>7. At(h[m - 1], TRUE, FALSE, d) /\ t[m] = "q"
  <2>1. m - 1 \in i .. m - 1
    BY <1>1, <1>5
  <2>2. At(h[m - 1], TRUE, FALSE, d) \/ At(h[m - 1], TRUE, TRUE, d)
    BY <1>6, <2>1
  <2>3. ~At(h[m], TRUE, FALSE, d) /\ ~At(h[m], TRUE, TRUE, d)
    BY <1>5 DEF At
  <2> QED  BY <1>5, <2>2, <2>3, AtSteps
<1>8. At(h[m], FALSE, FALSE, d)
  BY <1>5, <1>7, AtSteps
<1>9. IsString(t, i, m)
  <2> DEFINE starts == {n \in i + 1 .. m : ~h[n - 1].escaped}
  <2>1. i + 1 \in starts /\ m \in starts
    <3>1. (i + 1) - 1 = i /\ i + 1 \in i + 1 .. m /\ m \in i + 1 .. m
      BY <1>1, <1>5
    <3>2. ~h[i].escaped /\ ~h[m - 1].escaped
      BY <1>2, <1>7 DEF At
    <3> QED  BY <3>1, <3>2
  <2>2. ASSUME NEW n \in starts \ {m}
        PROVE  IF t[n] = "b" THEN n + 2 \in starts ELSE t[n] # "q" /\ n + 1 \in starts
    <3>1. n \in i + 1 .. m - 1 /\ n \in a .. z /\ n - 1 \in i .. m - 1 /\ n \in i .. m - 1 /\ n \in Int /\ ~h[n - 1].escaped
      BY <1>1, <1>5
    <3> HIDE DEF starts
    <3>2. At(h[n - 1], TRUE, FALSE, d)
      <4>1. At(h[n - 1], TRUE, FALSE, d) \/ At(h[n - 1], TRUE, TRUE, d)
        BY <1>6, <3>1
      <4> QED  BY <3>1, <4>1 DEF At
    <3>3. At(h[n], TRUE, FALSE, d) \/ At(h[n], TRUE, TRUE, d)
      BY <1>6, <3>1
    <3>4. CASE t[n] = "b"
      <4>1. At(h[n], TRUE, TRUE, d)
        BY <3>1, <3>2, <3>4, AtSteps
      <4>2. n # m - 1
        BY <1>7, <4>1 DEF At
      <4>3. n + 1 \in i .. m - 1 /\ n + 1 \in a .. z /\ (n + 1) - 1 = n /\ n + 2 \in i + 1 .. m /\ (n + 2) - 1 = n + 1
        BY <1>1, <1>5, <3>1, <4>2
      <4>4. At(h[n + 1], TRUE, FALSE, d)
        <5>1. \A p \in a .. z : At(h[p - 1], TRUE, TRUE, d) => At(h[p], TRUE, FALSE, d)
          BY AtSteps
        <5> QED  BY <4>1, <4>3, <5>1
      <4>5. ~h[(n + 2) - 1].escaped
        BY <4>3, <4>4 DEF At
      <4>6. n + 2 \in starts
        BY <4>3, <4>5 DEF starts
      <4> QED  BY <3>4, <4>6
    <3>5. CASE t[n] # "b"
      <4>1. t[n] # "q"
        <5>1. ~At(h[n], FALSE, FALSE, d)
          BY <3>3 DEF At
        <5> QED  BY <3>1, <3>2, <5>1, AtSteps
      <4>2. At(h[n], TRUE, FALSE, d)
        BY <3>1, <3>2, <3>5, <4>1, AtSteps
      <4>3. n + 1 \in i + 1 .. m /\ (n + 1) - 1 = n /\ ~h[n].escaped
        BY <1>1, <1>5, <3>1, <4>2 DEF At
      <4>4. n + 1 \in starts
        BY <4>3 DEF starts
      <4> QED  BY <3>5, <4>1, <4>4
    <3> QED  BY <3>4, <3>5
  <2>3. i < m /\ starts \in SUBSET (i + 1 .. m)
    BY <1>1, <1>5
  <2>4. {i + 1, m} \subseteq starts
    BY <2>1
  <2> HIDE DEF starts
  <2> QED  BY <1>7, <2>2, <2>3, <2>4 DEF IsString
<1>10. m \in i .. j
  BY <1>1, <1>5
<1> QED  BY <1>8, <1>9, <1>10

\* An opening brace that a scan reads outside a string opens what is closed where
\* the scan is as deep again.
LEMMA BraceOpensLevel ==
  ASSUME NEW t \in Seq(Character), NEW a \in Nat \ {0}, NEW z \in Nat, z <= Len(t),
         NEW h, Scan(h, t, a, z, "o", "c"),
         NEW i \in a .. z, NEW j \in i .. z, NEW d \in Int, Level(h, i, j, d), t[i] = "o"
  PROVE  \E m \in i + 1 .. j :
           t[m] = "c" /\ At(h[m], FALSE, FALSE, d) /\ Level(h, i + 1, m - 1, d + 1)
<1> DEFINE ends == {n \in i + 1 .. j : h[n].depth = d}
           m == Min(ends)
<1>1. /\ i \in Nat /\ j \in Nat /\ i <= j /\ a <= i /\ j <= z /\ a \in Nat /\ z \in Nat
      /\ At(h[i - 1], FALSE, FALSE, d) /\ At(h[j], FALSE, FALSE, d)
      /\ \A n \in i - 1 .. j : ~h[n].closed /\ h[n].depth >= d
  <2>1. i \in Nat /\ j \in Nat /\ i <= j /\ a <= i /\ j <= z /\ a \in Nat /\ z \in Nat
    OBVIOUS
  <2>2. /\ At(h[i - 1], FALSE, FALSE, d) /\ At(h[j], FALSE, FALSE, d)
        /\ \A n \in i - 1 .. j : ~h[n].closed /\ h[n].depth >= d
    BY Zenon DEF Level
  <2> QED  BY <2>1, <2>2, Zenon
<1>2. At(h[i], FALSE, FALSE, d + 1)
  BY <1>1, AtSteps
<1>3. j \in ends
  <2>1. j # i
    BY <1>1, <1>2 DEF At
  <2> QED  BY <1>1, <2>1 DEF At
<1>4. m \in ends /\ \A n \in ends : m <= n
  <2>1. ends \in SUBSET Nat
    BY <1>1
  <2> HIDE DEF ends
  <2> QED  BY <1>3, <2>1, MinIsLeast
<1>5. /\ m \in i + 1 .. j /\ h[m].depth = d /\ m \in a .. z /\ m - 1 \in i .. j
      /\ \A n \in i + 1 .. m - 1 : h[n].depth # d
  <2>1. m \in i + 1 .. j /\ h[m].depth = d
    BY <1>4
  <2>2. \A n \in i + 1 .. m - 1 : n \in i + 1 .. j /\ ~(m <= n)
    BY <1>1, <2>1
  <2>3. \A n \in i + 1 .. m - 1 : h[n].depth # d
    BY <1>4, <2>2
  <2> HIDE DEF m
  <2> QED  BY <1>1, <2>1, <2>3
<1> HIDE DEF m, ends
<1>6. \A n \in i .. m - 1 : ~h[n].closed /\ h[n].depth \in Int /\ h[n].depth >= d + 1
  <2> SUFFICES ASSUME NEW n \in i .. m - 1
               PROVE  ~h[n].closed /\ h[n].depth \in Int /\ h[n].depth >= d + 1
    OBVIOUS
  <2>1. n \in i - 1 .. j /\ n \in a .. z /\ (n = i \/ n \in i + 1 .. m - 1)
    BY <1>1, <1>5
  <2>2. h[n] \in Readings
    BY <2>1, ScanSteps
  <2>3. h[n].depth \in Int
    BY <2>2 DEF Readings
  <2>4. h[n].depth # d
    BY <1>2, <1>5, <2>1 DEF At
  <2> QED  BY <1>1, <2>1, <2>3, <2>4
<1>7. t[m] = "c" /\ At(h[m - 1], FALSE, FALSE, d + 1)
  <2>1. /\ m - 1 \in i .. m - 1 /\ ~h[m].closed
    BY <1>1, <1>5
  <2>2. ~h[m - 1].closed /\ h[m - 1].depth \in Int /\ h[m - 1].depth >= d + 1
    BY <1>6, <2>1
  <2>3. h[m].depth # h[m - 1].depth /\ h[m].depth < h[m - 1].depth /\ h[m].depth = d
    BY <1>5, <2>2
  <2> DEFINE s == h[m - 1]
             r == h[m]
             ch == t[m]
  <2>4. /\ s \in Readings
        /\ ~s.closed /\ s.escaped => r.depth = s.depth
        /\ ~s.closed /\ ~s.escaped /\ s.quoted => r.depth = s.depth
        /\ ~s.closed /\ ~s.escaped /\ ~s.quoted =>
             r.depth = s.depth + (IF ch = "o" THEN 1 ELSE 0) - (IF ch = "c" THEN 1 ELSE 0)
    <3>1. m \in a .. z
      BY <1>5
    <3> HIDE DEF m
    <3> QED  BY <3>1, ScanSteps
  <2> HIDE DEF s, r, ch
  <2>5. ~s.closed /\ s.depth \in Int /\ s.depth >= d + 1 /\ r.depth < s.depth /\ r.depth = d /\ r.depth # s.depth
    BY <2>2, <2>3 DEF s, r
  <2>6. ~s.escaped /\ ~s.quoted
    BY <2>4, <2>5, Zenon
  <2>7. r.depth = s.depth + (IF ch = "o" THEN 1 ELSE 0) - (IF ch = "c" THEN 1 ELSE 0)
    BY <2>4, <2>5, <2>6, Zenon
  <2>8. ch = "c" /\ s.depth = d + 1
    BY <2>5, <2>7
  <2>9. s.quoted = FALSE /\ s.escaped = FALSE
    BY <2>4, <2>6 DEF Readings
  <2>10. At(s, FALSE, FALSE, d + 1)
    BY <2>5, <2>8, <2>9, Zenon DEF At
  <2> QED  BY <2>8, <2>10 DEF s, ch
<1>8. At(h[m], FALSE, FALSE, d)
  <2>1. \A e \in Int : At(h[m - 1], FALSE, FALSE, e) /\ t[m] = "c" =>
          IF e = 1 THEN h[m].closed ELSE At(h[m], FALSE, FALSE, e - 1)
    BY <1>5, AtSteps
  <2>2. ~h[m].closed /\ d + 1 \in Int /\ (d + 1) - 1 = d
    BY <1>1, <1>5
  <2> QED  BY <1>7, <2>1, <2>2
<1>9. Level(h, i + 1, m - 1, d + 1)
  <2>1. (i + 1) - 1 = i
    BY <1>1
  <2> QED  BY <1>2, <1>6, <1>7, <2>1 DEF Level
<1> QED  BY <1>5, <1>7, <1>8, <1>9

\* What a part of it leaves.
LEMMA PartsOf ==
  ASSUME NEW a \in Int, NEW p \in Int, NEW m \in Int, NEW r \in Int, NEW z \in Int, NEW n \in Int,
         a <= p, p <= m, m <= r, r <= z, r - p <= n
  PROVE  /\ m \in p .. r /\ (m + 1) - 1 = m /\ m + 1 \in a .. z + 1 /\ r \in m .. z /\ r - (m + 1) + 1 <= n
         /\ (p + 1) - 1 = p /\ p + 1 \in a .. z + 1
         /\ p < m => m - 1 \in p .. z /\ (m - 1) - (p + 1) + 1 <= n
OBVIOUS

\* What lies on a level, at least one brace deep, is a body.
LEMMA LevelIsBody ==
  ASSUME NEW t \in Seq(Character), NEW a \in Nat \ {0}, NEW z \in Nat, z <= Len(t),
         NEW h, Scan(h, t, a, z, "o", "c"),
         NEW i \in a .. z + 1, NEW j \in i - 1 .. z, NEW d \in Int, d >= 1, Level(h, i, j, d)
  PROVE  <<i, j>> \in Bodies(t)
<1> DEFINE L == Len(t)
<1>1. PICK b : /\ Bodies(t) = b[L]
               /\ b[0] = {<<p, p - 1>> : p \in 1 .. L + 1}
               /\ \A n \in 1 .. L : b[n] = Longer(b[n - 1], t)
  BY BodiesIs
<1> DEFINE Found(n) == \A p \in a .. z + 1 : \A r \in p - 1 .. z : \A e \in Int :
                         e >= 1 /\ Level(h, p, r, e) /\ r - p + 1 <= n => <<p, r>> \in b[n]
           N == {n \in Nat : n <= L => Found(n)}
<1>2. Found(0)
  <2> SUFFICES ASSUME NEW p \in a .. z + 1, NEW r \in p - 1 .. z, r - p + 1 <= 0
               PROVE  <<p, r>> \in b[0]
    OBVIOUS
  <2>1. r = p - 1 /\ p \in 1 .. L + 1
    OBVIOUS
  <2> QED  BY <1>1, <2>1
<1>3. ASSUME NEW n \in Nat, n + 1 <= L, Found(n)
      PROVE  Found(n + 1)
  <2>1. n + 1 \in 1 .. L /\ (n + 1) - 1 = n
    BY <1>3
  <2> DEFINE bodies == b[n]
  <2>2. b[n + 1] = Longer(bodies, t)
    BY <1>1, <2>1
  <2>3. \A p \in a .. z + 1 : \A r \in p - 1 .. z : \A e \in Int :
          e >= 1 /\ Level(h, p, r, e) /\ r - p + 1 <= n => <<p, r>> \in bodies
    BY <1>3
  <2> HIDE DEF bodies
  <2>4. \A x : x \in bodies => x \in Longer(bodies, t)
    BY Zenon DEF Longer
  <2>5. \A p \in DOMAIN t, r \in DOMAIN t, m \in Int :
          p <= m /\ m <= r /\ IsThing(bodies, t, p, m) /\ <<m + 1, r>> \in bodies => <<p, r>> \in Longer(bodies, t)
    <3> SUFFICES ASSUME NEW p \in DOMAIN t, NEW r \in DOMAIN t, NEW m \in Int, p <= m, m <= r,
                        IsThing(bodies, t, p, m), <<m + 1, r>> \in bodies
                 PROVE  <<p, r>> \in Longer(bodies, t)
      BY Zenon
    <3> DEFINE span == <<p, r>>
    <3>1. span[1] = p /\ span[2] = r /\ span \in (DOMAIN t) \X (DOMAIN t) /\ m \in p .. r
      OBVIOUS
    <3> HIDE DEF span
    <3>2. span \in Longer(bodies, t)
      BY <3>1, Zenon DEF Longer
    <3> QED  BY <3>2 DEF span
  <2> SUFFICES ASSUME NEW p \in a .. z + 1, NEW r \in p - 1 .. z, NEW e \in Int, e >= 1, Level(h, p, r, e),
                      r - p + 1 <= n + 1
               PROVE  <<p, r>> \in Longer(bodies, t)
    BY <2>2, Zenon
  <2>6. CASE r - p + 1 <= n
    BY <2>3, <2>4, <2>6
  <2>7. CASE ~(r - p + 1 <= n)
    <3>1. /\ p \in a .. z /\ p \in DOMAIN t /\ r \in DOMAIN t /\ p <= r /\ r \in p .. z /\ r - (p + 1) + 1 <= n
          /\ p \in Int /\ r \in Int /\ a \in Int /\ z \in Int /\ a <= p /\ r <= z /\ r - p <= n
      BY <2>7
    <3>0. /\ p \in Int /\ r \in Int /\ a \in Int /\ z \in Int /\ n \in Int
          /\ a <= p /\ p <= r /\ r <= z /\ r - p <= n
      BY <2>7
    <3>2. /\ At(h[p - 1], FALSE, FALSE, e) /\ At(h[r], FALSE, FALSE, e)
          /\ \A k \in p - 1 .. r : ~h[k].closed /\ h[k].depth >= e
      BY Zenon DEF Level
    <3>3. ASSUME NEW m \in p .. r, At(h[m], FALSE, FALSE, e), IsThing(bodies, t, p, m)
          PROVE  <<p, r>> \in Longer(bodies, t)
      <4>1. (m + 1) - 1 = m /\ m + 1 \in a .. z + 1 /\ r \in (m + 1) - 1 .. z /\ r - (m + 1) + 1 <= n /\ m \in Int
            /\ p <= m /\ m <= r
        <5>1. m \in Int /\ p <= m /\ m <= r
          BY <3>1
        <5>2. /\ m \in p .. r /\ (m + 1) - 1 = m /\ m + 1 \in a .. z + 1 /\ r \in m .. z
              /\ r - (m + 1) + 1 <= n
          BY <3>0, <5>1, PartsOf
        <5> QED  BY <5>1, <5>2, Zenon
      <4>2. \A k \in (m + 1) - 1 .. r : k \in p - 1 .. r
        BY <3>1
      <4>3. Level(h, m + 1, r, e)
        BY <3>2, <3>3, <4>1, <4>2 DEF Level
      <4>4. <<m + 1, r>> \in bodies
        BY <2>3, <4>1, <4>3
      <4> QED  BY <2>5, <3>1, <3>3, <4>1, <4>4
    <3>4. t[p] \in Character
      BY <3>1
    <3>5. CASE t[p] \in {"l", "r", "f", "a", "w", "b"}
      <4>1. At(h[p], FALSE, FALSE, e)
        BY <3>1, <3>2, <3>5, AtSteps
      <4>2. IsThing(bodies, t, p, p)
        BY <3>5, Zenon DEF IsThing
      <4>3. p \in p .. r
        BY <3>1
      <4> QED  BY <3>3, <4>1, <4>2, <4>3
    <3>6. CASE t[p] = "q"
      <4>1. PICK m \in p .. r : IsString(t, p, m) /\ At(h[m], FALSE, FALSE, e)
        BY <3>1, <3>6, QuoteOpensString
      <4> QED  BY <3>3, <4>1 DEF IsThing
    <3>7. CASE t[p] = "o"
      <4>1. PICK m \in p + 1 .. r : t[m] = "c" /\ At(h[m], FALSE, FALSE, e) /\ Level(h, p + 1, m - 1, e + 1)
        BY <3>1, <3>7, BraceOpensLevel
      <4>2. /\ m \in p .. r /\ p < m /\ p + 1 \in a .. z + 1 /\ m - 1 \in (p + 1) - 1 .. z
            /\ (m - 1) - (p + 1) + 1 <= n /\ e + 1 \in Int /\ e + 1 >= 1
        <5>1. m \in Int /\ p + 1 <= m /\ m <= r
          BY <3>1
        <5>2. p <= m /\ p < m /\ e + 1 \in Int /\ e + 1 >= 1
          BY <3>0, <5>1
        <5>3. /\ m \in p .. r /\ (p + 1) - 1 = p /\ p + 1 \in a .. z + 1
              /\ m - 1 \in p .. z /\ (m - 1) - (p + 1) + 1 <= n
          BY <3>0, <5>1, <5>2, PartsOf
        <5> QED  BY <5>2, <5>3, Zenon
      <4>3. <<p + 1, m - 1>> \in bodies
        BY <2>3, <4>1, <4>2
      <4>4. IsObjectOf(bodies, t, p, m)
        BY <3>7, <4>1, <4>2, <4>3 DEF IsObjectOf
      <4> QED  BY <3>3, <4>1, <4>2, <4>4 DEF IsThing
    <3>8. CASE t[p] = "c"
      <4>1. e = 1 => h[p].closed
        BY <3>1, <3>2, <3>8, AtSteps
      <4>2. e # 1 => At(h[p], FALSE, FALSE, e - 1)
        BY <3>1, <3>2, <3>8, AtSteps
      <4>3. ~h[p].closed /\ h[p].depth >= e
        <5>1. p \in p - 1 .. r
          BY <3>1
        <5> QED  BY <3>2, <5>1
      <4> QED  BY <4>1, <4>2, <4>3 DEF At
    <3> QED  BY <3>4, <3>5, <3>6, <3>7, <3>8 DEF Character
  <2> QED  BY <2>6, <2>7
<1> HIDE DEF Found
<1>4. 0 \in N
  BY <1>2
<1>5. ASSUME NEW n \in Nat, n \in N
      PROVE  n + 1 \in N
  BY <1>3, <1>5
<1>6. Nat \subseteq N
  <2> HIDE DEF N
  <2> QED  BY <1>4, <1>5, SetInduction
<1>7. L \in Nat /\ L \in N
  <2>1. L \in Nat
    OBVIOUS
  <2> HIDE DEF N, L
  <2> QED  BY <1>6, <2>1
<1>8. Found(L)
  BY <1>7
<1>9. j - i + 1 <= L
  OBVIOUS
<1> QED  BY <1>1, <1>8, <1>9 DEF Found

\* Where a bracket opens first.
OpensAt(t, opener) == Min({i \in DOMAIN t : t[i] = opener} \union {Len(t) + 1})
LEMMA OpensAtIs ==
  ASSUME NEW t \in Seq(Character), NEW opener
  PROVE  /\ OpensAt(t, opener) \in 1 .. Len(t) + 1
         /\ OpensAt(t, opener) # Len(t) + 1 => t[OpensAt(t, opener)] = opener
         /\ \A i \in DOMAIN t : t[i] = opener => OpensAt(t, opener) <= i
         /\ BalancedSpan(t, opener, "c") = Balanced(SubSeq(t, OpensAt(t, opener), Len(t)), opener, "c")
         /\ BalancedSpan(t, opener, "r") = Balanced(SubSeq(t, OpensAt(t, opener), Len(t)), opener, "r")
<1> DEFINE T == {i \in DOMAIN t : t[i] = opener} \union {Len(t) + 1}
<1>1. T \in SUBSET Nat /\ T # {} /\ \A i \in T : i \in 1 .. Len(t) + 1
  OBVIOUS
<1>2. Min(T) \in T /\ \A i \in T : Min(T) <= i
  <2> HIDE DEF T
  <2> QED  BY <1>1, MinIsLeast
<1>3. OpensAt(t, opener) = Min(T)
  BY Zenon DEF OpensAt
<1>4. \A closer : BalancedSpan(t, opener, closer) = Balanced(SubSeq(t, OpensAt(t, opener), Len(t)), opener, closer)
  BY Zenon DEF OpensAt, BalancedSpan
<1>5. \A i \in T : i # Len(t) + 1 => t[i] = opener
  OBVIOUS
<1>6. \A i \in DOMAIN t : t[i] = opener => i \in T
  OBVIOUS
<1> HIDE DEF T
<1> QED  BY <1>1, <1>2, <1>3, <1>4, <1>5, <1>6

\* A balanced span is a part of the sequence.
LEMMA SpanIsPart ==
  ASSUME NEW t \in Seq(Character), NEW opener, NEW closer, closer \in {"c", "r"},
         BalancedSpan(t, opener, closer) # <<>>
  PROVE  \E from, to \in DOMAIN t : BalancedSpan(t, opener, closer) = SubSeq(t, from, to)
<1> DEFINE a == OpensAt(t, opener)
           z == Len(t)
<1>1. BalancedSpan(t, opener, closer) = Balanced(SubSeq(t, a, z), opener, closer)
  BY OpensAtIs
<1>2. /\ a \in Nat \ {0} /\ z \in Nat /\ a - 1 <= z /\ z <= Len(t) /\ z \in a - 1 .. z
      /\ a \in Int /\ DOMAIN t = 1 .. z
  BY OpensAtIs
<1> HIDE DEF a, z
<1>3. PICK h : /\ Scan(h, t, a, z, opener, closer)
               /\ Balanced(SubSeq(t, a, z), opener, closer) =
                    IF h[z].closed THEN SubSeq(t, a, a - 1 + h[z].read) ELSE <<>>
  BY <1>2, BalancedIs
<1> DEFINE read == h[z].read
<1>4. read \in 0 .. z - a + 1
  <2>1. \A n \in a - 1 .. z : h[n].read \in 0 .. n - a + 1
    <3>1. Scan(h, t, a, z, opener, closer)
      BY <1>3
    <3> QED  BY <1>2, <3>1, ScanReads
  <2> QED  BY <1>2, <2>1
<1>5. BalancedSpan(t, opener, closer) = SubSeq(t, a, a - 1 + read)
  BY <1>1, <1>3, Zenon
<1> HIDE DEF read
<1>6. read # 0
  <2> SUFFICES ASSUME read = 0
               PROVE  SubSeq(t, a, a - 1 + read) = <<>>
    BY <1>5
  <2>1. a - 1 + read < a /\ a - 1 + read \in Int
    BY <1>2
  <2> QED  BY <1>2, <2>1, SubSeqEmpty
<1>7. a \in DOMAIN t /\ a - 1 + read \in DOMAIN t
  BY <1>2, <1>4, <1>6
<1> QED  BY <1>5, <1>7

\* A text that is its own balanced span of braces is an object.
LEMMA SpanIsObject ==
  ASSUME NEW t \in Seq(Character), t # <<>>, t = BalancedSpan(t, "o", "c")
  PROVE  IsObject(t, 1, Len(t))
<1> DEFINE a == OpensAt(t, "o")
           z == Len(t)
<1>1. t = Balanced(SubSeq(t, a, z), "o", "c")
  BY OpensAtIs
<1>2. /\ a \in Nat \ {0} /\ z \in Nat \ {0} /\ a - 1 <= z /\ z <= Len(t) /\ z \in a - 1 .. z
      /\ a \in Int /\ DOMAIN t = 1 .. z /\ (a <= z => t[a] = "o")
  BY OpensAtIs
<1>3. Len(t) = z
  OBVIOUS
<1> HIDE DEF a, z
<1>4. PICK h : /\ Scan(h, t, a, z, "o", "c")
               /\ Balanced(SubSeq(t, a, z), "o", "c") =
                    IF h[z].closed THEN SubSeq(t, a, a - 1 + h[z].read) ELSE <<>>
  BY <1>2, BalancedIs
<1>5. h[z].closed /\ t = SubSeq(t, a, a - 1 + h[z].read)
  BY <1>1, <1>4
<1>6. \A n \in a - 1 .. z : h[n].read \in 0 .. n - a + 1 /\ (~h[n].closed => h[n].read = n - a + 1)
  <2>1. Scan(h, t, a, z, "o", "c")
    BY <1>4
  <2> QED  BY <1>2, <2>1, ScanReads
<1>7. a = 1 /\ h[z].read = z
  <2> DEFINE read == h[z].read
  <2>1. read \in 0 .. z - a + 1 /\ t = SubSeq(t, a, a - 1 + read)
    BY <1>2, <1>5, <1>6
  <2> HIDE DEF read
  <2>2. \A i \in a .. a - 1 + read : i \in 1 .. Len(t)
    BY <1>2, <1>3, <2>1
  <2>3. Len(SubSeq(t, a, a - 1 + read)) = IF a <= a - 1 + read THEN (a - 1 + read) - a + 1 ELSE 0
    <3>1. a - 1 + read \in Int
      BY <1>2, <2>1
    <3> QED  BY <1>2, <2>2, <3>1, SubSeqProperties
  <2>4. z = read
    BY <1>2, <1>3, <2>1, <2>3
  <2> QED  BY <1>2, <2>1, <2>4 DEF read
<1>8. Scan(h, t, 1, z, "o", "c") /\ 1 \in Nat \ {0} /\ z \in Nat /\ z <= Len(t) /\ t[1] = "o"
  BY <1>2, <1>4, <1>7
<1>9. ASSUME NEW n \in 0 .. z - 1
      PROVE  ~h[n].closed
  <2> SUFFICES ASSUME h[n].closed
               PROVE  FALSE
    OBVIOUS
  <2>1. n \in 1 - 1 .. z /\ z \in n .. z
    BY <1>2
  <2>2. h[z] = h[n]
    BY <1>8, <2>1, ClosedStays
  <2>3. h[n].read \in 0 .. n
    BY <1>6, <1>7, <2>1
  <2> QED  BY <1>2, <1>7, <2>2, <2>3
<1>10. \A n \in 1 .. z :
         /\ h[n - 1] \in Readings /\ h[n] \in Readings /\ t[n] \in Character
         /\ ~h[n - 1].closed /\ h[n - 1].escaped => ~h[n].closed /\ h[n].depth = h[n - 1].depth
         /\ ~h[n - 1].closed /\ ~h[n - 1].escaped /\ h[n - 1].quoted => ~h[n].closed /\ h[n].depth = h[n - 1].depth
         /\ ~h[n - 1].closed /\ ~h[n - 1].escaped /\ ~h[n - 1].quoted =>
              /\ h[n].depth = h[n - 1].depth + (IF t[n] = "o" THEN 1 ELSE 0) - (IF t[n] = "c" THEN 1 ELSE 0)
              /\ h[n].closed <=> t[n] = "c" /\ h[n].depth = 0
  BY <1>8, ScanSteps
<1>11. At(h[1], FALSE, FALSE, 1)
  <2>1. At(h[1 - 1], FALSE, FALSE, 0)
    BY <1>8 DEF Scan, Unread, At
  <2>2. \A e \in Int : At(h[1 - 1], FALSE, FALSE, e) /\ t[1] = "o" => At(h[1], FALSE, FALSE, e + 1)
    <3>1. 1 \in 1 .. z
      BY <1>2
    <3> QED  BY <1>8, <3>1, AtSteps
  <2>3. 0 \in Int /\ 0 + 1 = 1
    OBVIOUS
  <2>4. At(h[1], FALSE, FALSE, 0 + 1)
    BY <1>8, <2>1, <2>2, <2>3, Zenon
  <2> QED  BY <2>3, <2>4, Zenon
<1>12. z > 1
  <2>1. z # 1
    BY <1>5, <1>11 DEF At
  <2> QED  BY <1>2, <2>1
<1>13. \A n \in 1 .. z - 1 : h[n].depth >= 1
  <2> DEFINE N == {k \in Nat : k + 1 <= z - 1 => h[k + 1].depth >= 1}
  <2>1. 0 \in N
    BY <1>11 DEF At
  <2>2. ASSUME NEW k \in Nat, k \in N
        PROVE  k + 1 \in N
    <3> SUFFICES ASSUME (k + 1) + 1 <= z - 1
                 PROVE  h[(k + 1) + 1].depth >= 1
      OBVIOUS
    <3> DEFINE n == (k + 1) + 1
    <3>1. n \in 1 .. z /\ n \in 0 .. z - 1 /\ n - 1 \in 0 .. z - 1 /\ n - 1 = k + 1
      BY <1>2
    <3>2. h[n - 1].depth >= 1
      BY <2>2, <3>1
    <3>3. ~h[n].closed /\ ~h[n - 1].closed
      BY <1>9, <3>1
    <3> HIDE DEF n
    <3> DEFINE s == h[n - 1]
               r == h[n]
               ch == t[n]
    <3>4. /\ s \in Readings /\ r \in Readings
          /\ ~s.closed /\ s.escaped => r.depth = s.depth
          /\ ~s.closed /\ ~s.escaped /\ s.quoted => r.depth = s.depth
          /\ ~s.closed /\ ~s.escaped /\ ~s.quoted =>
               /\ r.depth = s.depth + (IF ch = "o" THEN 1 ELSE 0) - (IF ch = "c" THEN 1 ELSE 0)
               /\ r.closed <=> ch = "c" /\ r.depth = 0
      BY <1>10, <3>1, Zenon
    <3>5. s.depth >= 1 /\ ~r.closed /\ ~s.closed
      BY <3>2, <3>3
    <3> HIDE DEF s, r, ch
    <3>6. s.depth \in Int
      BY <3>4 DEF Readings
    <3>7. ASSUME ~s.escaped /\ ~s.quoted
          PROVE  r.depth >= 1
      <4>1. /\ r.depth = s.depth + (IF ch = "o" THEN 1 ELSE 0) - (IF ch = "c" THEN 1 ELSE 0)
            /\ r.closed <=> ch = "c" /\ r.depth = 0
        BY <3>4, <3>5, <3>7, Zenon
      <4> QED  BY <3>5, <3>6, <4>1
    <3>8. ASSUME s.escaped \/ s.quoted
          PROVE  r.depth >= 1
      <4>1. r.depth = s.depth
        BY <3>4, <3>5, <3>8, Zenon
      <4> QED  BY <3>5, <4>1
    <3>9. r.depth >= 1
      BY <3>7, <3>8, Zenon
    <3> QED  BY <3>9 DEF r, n
  <2>3. Nat \subseteq N
    <3> HIDE DEF N
    <3> QED  BY <2>1, <2>2, SetInduction
  <2>4. ASSUME NEW n \in 1 .. z - 1
        PROVE  h[n].depth >= 1
    <3>1. n - 1 \in Nat /\ (n - 1) + 1 = n /\ n <= z - 1
      BY <1>2
    <3>2. n - 1 \in N
      <4> HIDE DEF N
      <4> QED  BY <2>3, <3>1
    <3> QED  BY <3>1, <3>2
  <2> QED  BY <2>4
<1>14. At(h[z - 1], FALSE, FALSE, 1) /\ t[z] = "c"
  <2>1. z \in 1 .. z /\ z - 1 \in 0 .. z - 1
    BY <1>2
  <2> DEFINE s == h[z - 1]
             r == h[z]
             ch == t[z]
  <2>2. /\ s \in Readings
        /\ ~s.closed /\ s.escaped => ~r.closed
        /\ ~s.closed /\ ~s.escaped /\ s.quoted => ~r.closed
        /\ ~s.closed /\ ~s.escaped /\ ~s.quoted =>
             /\ r.depth = s.depth + (IF ch = "o" THEN 1 ELSE 0) - (IF ch = "c" THEN 1 ELSE 0)
             /\ r.closed <=> ch = "c" /\ r.depth = 0
    BY <1>10, <2>1, Zenon
  <2>3. r.closed /\ ~s.closed
    BY <1>5, <1>9, <2>1
  <2> HIDE DEF s, r, ch
  <2>4. ~s.escaped /\ ~s.quoted
    BY <2>2, <2>3, Zenon
  <2>5. /\ r.depth = s.depth + (IF ch = "o" THEN 1 ELSE 0) - (IF ch = "c" THEN 1 ELSE 0)
        /\ ch = "c" /\ r.depth = 0
    BY <2>2, <2>3, <2>4, Zenon
  <2>6. s.depth \in Int /\ s.quoted = FALSE /\ s.escaped = FALSE
    BY <2>2, <2>4 DEF Readings
  <2>7. s.depth = 1
    BY <2>5, <2>6
  <2>8. At(s, FALSE, FALSE, 1)
    BY <2>3, <2>6, <2>7, Zenon DEF At
  <2> QED  BY <2>5, <2>8 DEF s, ch
<1>15. Level(h, 2, z - 1, 1)
  <2>1. 2 - 1 = 1 /\ \A n \in 1 .. z - 1 : n \in 0 .. z - 1
    BY <1>2
  <2> QED  BY <1>9, <1>11, <1>13, <1>14, <2>1 DEF Level
<1>16. <<2, z - 1>> \in Bodies(t)
  <2>1. 2 \in 1 .. z + 1 /\ z - 1 \in 2 - 1 .. z /\ 1 \in Int /\ 1 >= 1
    BY <1>2, <1>12
  <2> QED  BY <1>8, <1>15, <2>1, LevelIsBody
<1>17. 1 + 1 = 2 /\ 1 < z
  BY <1>2, <1>12
<1>18. IsObject(t, 1, z)
  BY <1>8, <1>14, <1>16, <1>17 DEF IsObject, IsObjectOf
<1> QED  BY <1>3, <1>18

\* What stands between two fences, if anything does, is a part of the reply.
LEMMA FencedIsPart ==
  ASSUME NEW t \in Seq(Character), Fenced(t) # <<>>
  PROVE  \E from, to \in DOMAIN t : Fenced(t) = SubSeq(t, from, to)
<1> DEFINE fences == {i \in DOMAIN t : t[i] = "f"}
           first == Min(fences)
           others == fences \ {first}
           second == Min(others)
<1>1. Fenced(t) = IF Cardinality(fences) < 2 THEN <<>> ELSE SubSeq(t, first + 1, second - 1)
  BY Zenon DEF Fenced
<1>2. ~(Cardinality(fences) < 2) /\ Fenced(t) = SubSeq(t, first + 1, second - 1)
  BY <1>1
<1>3. fences \in SUBSET Nat /\ \A i \in fences : i \in 1 .. Len(t)
  OBVIOUS
<1> HIDE DEF fences
<1>4. fences # {} /\ others # {}
  <2> SUFFICES ASSUME fences = {} \/ fences = {first}
               PROVE  FALSE
    BY Zenon
  <2>1. Cardinality({}) = 0 /\ Cardinality({first}) = 1
    BY FS_EmptySet, FS_Singleton
  <2>2. Cardinality(fences) \in {0, 1}
    BY <2>1
  <2> QED  BY <1>2, <2>2
<1>5. first \in fences
  BY <1>3, <1>4, MinIsLeast
<1>6. second \in others
  <2>1. others \in SUBSET Nat
    BY <1>3
  <2> HIDE DEF others
  <2> QED  BY <1>4, <2>1, MinIsLeast
<1>7. first \in 1 .. Len(t) /\ second \in 1 .. Len(t)
  BY <1>3, <1>5, <1>6
<1> HIDE DEF first, second, others
<1>8. first + 1 <= second - 1
  <2> SUFFICES ASSUME second - 1 < first + 1
               PROVE  SubSeq(t, first + 1, second - 1) = <<>>
    BY <1>2, <1>7
  <2> QED  BY <1>7, SubSeqEmpty
<1>9. first + 1 \in DOMAIN t /\ second - 1 \in DOMAIN t
  BY <1>7, <1>8
<1> QED  BY <1>2, <1>9

\* A repair replaces characters one for one.
LEMMA RepairedIs ==
  ASSUME NEW t \in Seq(Character)
  PROVE  Repaired(t) \in Seq(Character) /\ Len(Repaired(t)) = Len(t)
<1> DEFINE size == Len(t)
           replaced == [i \in 1 .. size |-> IF t[i] = "a" THEN "q" ELSE t[i]]
<1>1. size \in Nat /\ DOMAIN t = 1 .. size /\ \A i \in 1 .. size : t[i] \in Character
  OBVIOUS
<1>2. Repaired(t) = t \/ Repaired(t) = replaced
  <2>1. Repaired(t) = t \/ Repaired(t) = [i \in DOMAIN t |-> IF t[i] = "a" THEN "q" ELSE t[i]]
    BY Zenon DEF Repaired
  <2> QED  BY <1>1, <2>1
<1>3. replaced \in Seq(Character) /\ Len(replaced) = size
  <2>1. \A i \in 1 .. size : (IF t[i] = "a" THEN "q" ELSE t[i]) \in Character
    BY <1>1 DEF Character
  <2> HIDE DEF size
  <2> QED  BY <1>1, <2>1
<1> HIDE DEF replaced
<1> QED  BY <1>2, <1>3

\* What is loaded, when it is an object, is a part of the reply, and an object of
\* the grammar as it is or repaired.
LEMMA LoadedIsObject ==
  ASSUME NEW t \in Seq(Character), LoadsObject(t)
  PROVE  /\ \/ IsObject(Loaded(t), 1, Len(Loaded(t)))
            \/ IsObject(Repaired(Loaded(t)), 1, Len(Loaded(t)))
         /\ \E from, to \in DOMAIN t : Loaded(t) = SubSeq(t, from, to)
<1> DEFINE x == Loaded(t)
           Part(y) == \E from, to \in DOMAIN t : y = SubSeq(t, from, to)
           object == BalancedSpan(t, "o", "c")
           list == BalancedSpan(t, "l", "r")
<1>1. IsSpan(x) \/ IsSpan(Repaired(x))
  BY Zenon DEF LoadsObject
<1>10. x # <<>>
  <2>1. ToSet(<<>>) = {}
    BY DEF ToSet
  <2>2. Repaired(<<>>) = <<>>
    BY <2>1, Zenon DEF Repaired
  <2> HIDE DEF x
  <2> QED  BY <1>1, <2>2, Zenon DEF IsSpan
<1>2. x \in {t, Fenced(t), object, list}
  <2>1. ExtractJson(t) \in {Fenced(t), object, list}
    BY Zenon DEF ExtractJson
  <2>2. x = t \/ x = ExtractJson(t)
    BY Zenon DEF Loaded
  <2> QED  BY <2>1, <2>2, Zenon
<1>3. Fenced(t) # <<>> => Part(Fenced(t))
  BY FencedIsPart
<1>4. object # <<>> => Part(object)
  BY SpanIsPart
<1>5. list # <<>> => Part(list)
  BY SpanIsPart
<1>6. t # <<>> => Part(t)
  <2> SUFFICES ASSUME t # <<>>
               PROVE  Part(t)
    OBVIOUS
  <2>1. 1 \in DOMAIN t /\ Len(t) \in DOMAIN t
    OBVIOUS
  <2>2. SubSeq(t, 1, Len(t)) = t
    BY SubSeqFull
  <2> QED  BY <2>1, <2>2, Zenon
<1>7. Part(x)
  <2> HIDE DEF x, object, list, Part
  <2>1. CASE x = t
    BY <2>1, <1>6, <1>10, Zenon
  <2>2. CASE x = Fenced(t)
    BY <2>2, <1>3, <1>10, Zenon
  <2>3. CASE x = object
    BY <2>3, <1>4, <1>10, Zenon
  <2>4. CASE x = list
    BY <2>4, <1>5, <1>10, Zenon
  <2> QED  BY <1>2, <2>1, <2>2, <2>3, <2>4, Zenon
<1>8. x \in Seq(Character)
  <2>1. PICK from \in DOMAIN t, to \in DOMAIN t : x = SubSeq(t, from, to)
    BY <1>7
  <2>2. \A i \in from .. to : i \in 1 .. Len(t)
    OBVIOUS
  <2>3. from \in Int /\ to \in Int
    OBVIOUS
  <2>4. SubSeq(t, from, to) \in Seq(Character)
    BY <2>2, <2>3, SubSeqProperties
  <2> HIDE DEF x
  <2> QED  BY <2>1, <2>4
<1>9. IsObject(x, 1, Len(x)) \/ IsObject(Repaired(x), 1, Len(x))
  <2> HIDE DEF x
  <2>1. Repaired(x) \in Seq(Character) /\ Len(Repaired(x)) = Len(x)
    BY <1>8, RepairedIs
  <2>2. \A y \in Seq(Character) : IsSpan(y) => IsObject(y, 1, Len(y))
    BY SpanIsObject DEF IsSpan
  <2> QED  BY <1>1, <1>8, <2>1, <2>2, Zenon
<1> QED  BY <1>7, <1>9, Zenon

\* No brace, quote or fence.
LEMMA ProseIs ==
  ASSUME NEW t \in Seq(Character), NEW from \in Int, NEW to \in Int, 1 <= from, to <= Len(t),
         ToSet(SubSeq(t, from, to)) \cap {"o", "c", "q", "f"} = {}
  PROVE  \A i \in from .. to : t[i] # "o" /\ t[i] # "f"
<1> SUFFICES ASSUME NEW i \in from .. to
             PROVE  t[i] # "o" /\ t[i] # "f"
  OBVIOUS
<1> DEFINE u == SubSeq(t, from, to)
<1>1. u = [n \in 1 .. to - from + 1 |-> t[n + from - 1]]
  BY DEF SubSeq
<1>2. i - from + 1 \in DOMAIN u /\ u[i - from + 1] = t[i]
  BY <1>1
<1> HIDE DEF u
<1>3. t[i] \in ToSet(u)
  BY <1>2, Zenon DEF ToSet
<1>4. ToSet(u) \cap {"o", "c", "q", "f"} = {}
  BY DEF u
<1> QED  BY <1>3, <1>4

\* An object in prose is found, and is what is loaded.
LEMMA ObjectIsLoaded ==
  ASSUME NEW t \in Seq(Character), NEW from \in DOMAIN t, NEW to \in DOMAIN t, IsObject(t, from, to),
         ToSet(SubSeq(t, 1, from - 1)) \cap {"o", "c", "q", "f"} = {},
         ToSet(SubSeq(t, to + 1, Len(t))) \cap {"o", "c", "q", "f"} = {},
         "f" \notin ToSet(SubSeq(t, from, to))
  PROVE  LoadsObject(t) /\ Loaded(t) = SubSeq(t, from, to)
<1> DEFINE object == SubSeq(t, from, to)
<1>1. /\ from \in Int /\ to \in Int /\ 1 <= from /\ from <= Len(t) /\ 1 <= to /\ to <= Len(t) /\ Len(t) \in Nat
      /\ DOMAIN t = 1 .. Len(t)
  OBVIOUS
<1>2. from < to /\ t[from] = "o"
  BY DEF IsObject, IsObjectOf
<1>3. \A i \in 1 .. from - 1 : t[i] # "o" /\ t[i] # "f"
  <2>1. 1 \in Int /\ from - 1 \in Int /\ 1 <= 1 /\ from - 1 <= Len(t)
    BY <1>1
  <2> QED  BY <2>1, ProseIs
<1>4. \A i \in to + 1 .. Len(t) : t[i] # "o" /\ t[i] # "f"
  <2>1. to + 1 \in Int /\ Len(t) \in Int /\ 1 <= to + 1 /\ Len(t) <= Len(t)
    BY <1>1
  <2> QED  BY <2>1, ProseIs
<1>5. object = [n \in 1 .. to - from + 1 |-> t[n + from - 1]]
  BY <1>1 DEF SubSeq
<1>6. /\ object \in Seq(Character) /\ Len(object) = to - from + 1 /\ DOMAIN object = 1 .. to - from + 1
      /\ \A i \in from .. to : i - from + 1 \in DOMAIN object /\ object[i - from + 1] = t[i]
  <2>1. \A n \in 1 .. to - from + 1 : n + from - 1 \in DOMAIN t
    BY <1>1
  <2> DEFINE size == to - from + 1
  <2>2. size \in Nat /\ object = [n \in 1 .. size |-> t[n + from - 1]]
    BY <1>1, <1>2, <1>5
  <2>3. \A n \in 1 .. size : t[n + from - 1] \in Character
    BY <2>1
  <2>4. \A i \in from .. to : i - from + 1 \in 1 .. size /\ (i - from + 1) + from - 1 = i
    BY <1>1
  <2> HIDE DEF object, size
  <2>5. object \in Seq(Character) /\ Len(object) = size /\ DOMAIN object = 1 .. size
    BY <2>2, <2>3
  <2>6. \A n \in 1 .. size : object[n] = t[n + from - 1]
    BY <2>2
  <2>7. \A i \in from .. to : i - from + 1 \in DOMAIN object /\ object[i - from + 1] = t[i]
    BY <2>4, <2>5, <2>6
  <2> QED  BY <2>5, <2>7 DEF size
<1> HIDE DEF object
<1>7. \A i \in from .. to : t[i] # "f"
  <2> SUFFICES ASSUME NEW i \in from .. to
               PROVE  t[i] # "f"
    OBVIOUS
  <2>1. t[i] \in ToSet(object)
    BY <1>6, Zenon DEF ToSet
  <2>2. "f" \notin ToSet(object)
    BY DEF object
  <2> QED  BY <2>1, <2>2, Zenon
<1>8. \A i \in DOMAIN t : t[i] # "f" /\ (i < from => t[i] # "o")
  BY <1>1, <1>3, <1>4, <1>7
<1>9. Fenced(t) = <<>>
  <2>1. {i \in DOMAIN t : t[i] = "f"} = {}
    BY <1>8
  <2>2. Cardinality({i \in DOMAIN t : t[i] = "f"}) < 2
    <3>1. Cardinality({}) = 0 /\ 0 < 2
      BY FS_EmptySet
    <3> QED  BY <2>1, <3>1, Zenon
  <2> QED  BY <2>2, Zenon DEF Fenced
<1>10. OpensAt(t, "o") = from
  <2>1. /\ OpensAt(t, "o") \in 1 .. Len(t) + 1
        /\ OpensAt(t, "o") # Len(t) + 1 => t[OpensAt(t, "o")] = "o"
        /\ OpensAt(t, "o") <= from
    BY <1>2, OpensAtIs
  <2> DEFINE m == OpensAt(t, "o")
  <2>2. m \in 1 .. Len(t) + 1 /\ (m # Len(t) + 1 => t[m] = "o") /\ m <= from
    BY <2>1
  <2> HIDE DEF m
  <2>3. m \in DOMAIN t /\ t[m] = "o"
    BY <1>1, <2>2
  <2>4. m = from
    BY <1>1, <1>8, <2>2, <2>3
  <2> QED  BY <2>4 DEF m
<1>11. BalancedSpan(t, "o", "c") = object
  <2>1. Len(t) \in to .. Len(t)
    BY <1>1
  <2>2. Balanced(SubSeq(t, from, Len(t)), "o", "c") = SubSeq(t, from, to)
    BY <2>1, ObjectIsBalanced
  <2>3. BalancedSpan(t, "o", "c") = Balanced(SubSeq(t, OpensAt(t, "o"), Len(t)), "o", "c")
    BY OpensAtIs
  <2> QED  BY <1>10, <2>2, <2>3 DEF object
<1>12. object # <<>>
  BY <1>1, <1>2, <1>6
<1>13. ExtractJson(t) = object
  BY <1>9, <1>11, <1>12, Zenon DEF ExtractJson
<1>14. Loaded(t) = object
  BY <1>12, <1>13, Zenon DEF Loaded
<1>15. BalancedSpan(object, "o", "c") = object
  <2>1. 1 \in DOMAIN object /\ object[1] = "o"
    <3>1. from \in from .. to /\ from - from + 1 = 1
      BY <1>1, <1>2
    <3> QED  BY <1>2, <1>6, <3>1
  <2> DEFINE m == OpensAt(object, "o")
  <2>2. m \in 1 .. Len(object) + 1 /\ m <= 1
    BY <1>6, <2>1, OpensAtIs
  <2>3. BalancedSpan(object, "o", "c") = Balanced(SubSeq(object, m, Len(object)), "o", "c")
    BY <1>6, OpensAtIs
  <2> HIDE DEF m
  <2>4. m = 1
    BY <1>6, <2>2
  <2>5. SubSeq(object, 1, Len(object)) = object
    BY <1>6, SubSeqFull
  <2>6. to \in to .. Len(t)
    BY <1>1
  <2>7. Balanced(SubSeq(t, from, to), "o", "c") = SubSeq(t, from, to)
    BY <2>6, ObjectIsBalanced
  <2> QED  BY <2>3, <2>4, <2>5, <2>7 DEF object
<1>16. LoadsObject(t)
  BY <1>12, <1>14, <1>15, Zenon DEF LoadsObject, IsSpan
<1> QED  BY <1>14, <1>16 DEF object

\* What a returned object was loaded from, and what the conversation has carried.
CorrectionsInv ==
  /\ reply \in Seq(Character) /\ messages \in Seq({"prompt", "assistant", "correction"})
  /\ attempt \in Nat /\ 1 <= attempt /\ attempt <= MaxAttempts
  /\ Len(messages) = 1 + 2 * (attempt - 1)
  /\ result = "valid" => LoadsObject(reply) /\ loaded = Loaded(reply)

LEMMA CorrectionsFollow ==
  ASSUME CorrectionsInv
  PROVE  CorrectionsBounded
<1>1. /\ reply \in Seq(Character) /\ attempt <= MaxAttempts /\ Len(messages) = 1 + 2 * (attempt - 1)
      /\ result = "valid" => LoadsObject(reply) /\ loaded = Loaded(reply)
  BY Zenon DEF CorrectionsInv
<1> DEFINE Prose(t) == ToSet(t) \cap {"o", "c", "q", "f"} = {}
<1>2. ASSUME NEW from \in DOMAIN reply, NEW to \in DOMAIN reply,
             Prose(SubSeq(reply, 1, from - 1)), Prose(SubSeq(reply, to + 1, Len(reply))),
             IsObject(reply, from, to), "f" \notin ToSet(SubSeq(reply, from, to))
      PROVE  LoadsObject(reply) /\ Loaded(reply) = SubSeq(reply, from, to)
  BY <1>1, <1>2, ObjectIsLoaded
<1>3. ASSUME result = "valid"
      PROVE  /\ IsObject(loaded, 1, Len(loaded)) \/ IsObject(Repaired(loaded), 1, Len(loaded))
             /\ \E from, to \in DOMAIN reply : loaded = SubSeq(reply, from, to)
  <2>1. LoadsObject(reply) /\ loaded = Loaded(reply)
    BY <1>1, <1>3
  <2>2. /\ \/ IsObject(Loaded(reply), 1, Len(Loaded(reply)))
           \/ IsObject(Repaired(Loaded(reply)), 1, Len(Loaded(reply)))
        /\ \E from, to \in DOMAIN reply : Loaded(reply) = SubSeq(reply, from, to)
    BY <1>1, <2>1, LoadedIsObject
  <2> QED  BY <2>1, <2>2
<1> HIDE DEF Prose
<1>4. CorrectionsBounded <=>
        /\ attempt <= MaxAttempts
        /\ Len(messages) = 1 + 2 * (attempt - 1)
        /\ \A from \in DOMAIN reply, to \in DOMAIN reply :
             Prose(SubSeq(reply, 1, from - 1)) /\ Prose(SubSeq(reply, to + 1, Len(reply)))
               /\ IsObject(reply, from, to) /\ "f" \notin ToSet(SubSeq(reply, from, to))
             => LoadsObject(reply) /\ Loaded(reply) = SubSeq(reply, from, to)
        /\ result = "valid" =>
             /\ IsObject(loaded, 1, Len(loaded)) \/ IsObject(Repaired(loaded), 1, Len(loaded))
             /\ \E from, to \in DOMAIN reply : loaded = SubSeq(reply, from, to)
  BY Zenon DEF CorrectionsBounded, Prose
<1> QED  BY <1>1, <1>2, <1>3, <1>4, Zenon

LEMMA CorrectionsBegin ==
  ASSUME StructuredInit
  PROVE  CorrectionsInv
<1>1. reply = <<>> /\ attempt = 1 /\ messages = <<"prompt">> /\ result = "pending"
  BY DEF StructuredInit
<1>2. MaxAttempts \in Nat /\ 1 <= MaxAttempts
  BY StructuredAssumption
<1> QED  BY <1>1, <1>2 DEF CorrectionsInv

LEMMA CorrectionsKept ==
  ASSUME CorrectionsInv, [StructuredNext]_structvars
  PROVE  CorrectionsInv'
<1>1. /\ reply \in Seq(Character) /\ messages \in Seq({"prompt", "assistant", "correction"})
      /\ attempt \in Nat /\ 1 <= attempt /\ attempt <= MaxAttempts
      /\ Len(messages) = 1 + 2 * (attempt - 1)
      /\ result = "valid" => LoadsObject(reply) /\ loaded = Loaded(reply)
  BY Zenon DEF CorrectionsInv
<1>2. MaxAttempts \in Nat /\ Alphabet \subseteq Character
  BY StructuredAssumption DEF Character
<1>3. ASSUME NEW c \in Alphabet, Write(c)
      PROVE  CorrectionsInv'
  <2>1. /\ result = "pending" /\ reply' = Append(reply, c) /\ UNCHANGED <<attempt, messages, result, loaded>>
    BY <1>3 DEF Write
  <2>2. reply' \in Seq(Character)
    BY <1>1, <1>2, <2>1
  <2> QED  BY <1>1, <2>1, <2>2 DEF CorrectionsInv
<1>4. CASE Truncated
  <2>1. result' = "truncated" /\ UNCHANGED <<reply, attempt, messages, loaded>>
    BY <1>4 DEF Truncated
  <2> QED  BY <1>1, <2>1 DEF CorrectionsInv
<1>5. CASE Validated
  <2>1. LoadsObject(reply) /\ loaded' = Loaded(reply) /\ UNCHANGED <<reply, attempt, messages>>
    BY <1>5 DEF Validated
  <2>2. LoadsObject(reply)' /\ loaded' = Loaded(reply)'
    <3>1. reply' = reply
      BY <2>1
    <3> QED  BY <2>1, <3>1
  <2> QED  BY <1>1, <2>1, <2>2 DEF CorrectionsInv
<1>6. CASE AskAgain
  <2>1. /\ result = "pending" /\ attempt < MaxAttempts /\ attempt' = attempt + 1
        /\ messages' = messages \o <<"assistant", "correction">> /\ reply' = <<>>
        /\ UNCHANGED <<result, loaded>>
    BY <1>6 DEF AskAgain
  <2>2. /\ messages' \in Seq({"prompt", "assistant", "correction"})
        /\ Len(messages') = Len(messages) + 2
    <3> DEFINE two == <<"assistant", "correction">>
               Said == {"prompt", "assistant", "correction"}
    <3>1. two \in Seq(Said) /\ Len(two) = 2
      OBVIOUS
    <3> HIDE DEF two
    <3>2. messages \in Seq(Said) /\ messages' = messages \o two
      BY <1>1, <2>1 DEF two
    <3> HIDE DEF Said
    <3>3. messages' \in Seq(Said) /\ Len(messages') = Len(messages) + Len(two)
      <4>1. \A s, u \in Seq(Said) : s \o u \in Seq(Said) /\ Len(s \o u) = Len(s) + Len(u)
        BY ConcatProperties
      <4> QED  BY <3>1, <3>2, <4>1, Zenon
    <3> QED  BY <3>1, <3>3 DEF Said
  <2>3. attempt' \in Nat /\ 1 <= attempt' /\ attempt' <= MaxAttempts /\ Len(messages') = 1 + 2 * (attempt' - 1)
    BY <1>1, <1>2, <2>1, <2>2
  <2> QED  BY <1>1, <2>1, <2>2, <2>3 DEF CorrectionsInv
<1>7. CASE GiveUp
  <2>1. result' = "exhausted" /\ UNCHANGED <<reply, attempt, messages, loaded>>
    BY <1>7 DEF GiveUp
  <2> QED  BY <1>1, <2>1 DEF CorrectionsInv
<1>8. CASE UNCHANGED structvars
  <2>1. UNCHANGED <<reply, attempt, messages, result, loaded>>
    BY <1>8 DEF structvars
  <2> QED  BY <1>1, <2>1 DEF CorrectionsInv
<1> QED  BY <1>3, <1>4, <1>5, <1>6, <1>7, <1>8 DEF StructuredNext

THEOREM CorrectionsStayBounded ==
  (StructuredInit /\ [][StructuredNext]_structvars) => []CorrectionsBounded
<1>1. StructuredInit => CorrectionsInv
  BY CorrectionsBegin
<1>2. CorrectionsInv /\ [StructuredNext]_structvars => CorrectionsInv'
  BY CorrectionsKept
<1>3. CorrectionsInv => CorrectionsBounded
  BY CorrectionsFollow
<1> QED  BY <1>1, <1>2, <1>3, PTL

-----------------------------------------------------------------------------
(* What the adapters do by themselves.                                     *)
Stages == {"idle", "sent", "body", "yielded", "over"}

ProvidersOK ==
  /\ call \in Calls
  /\ stage \in Stages
  /\ wire \in Seq(Lines)

\* A status is there once the body is, and an ending once the call is over; a
\* stream suspends on a text.
ProvidersInv ==
  /\ ProvidersOK
  /\ stage \in {"idle", "sent"} => status = Unasked
  /\ stage # "over" => ended = Pending
  /\ stage = "yielded" => wire # <<>> /\ wire[Len(wire)] = "delta"

Events == {"start", "token", "usage", "error", "done"}
Generators == {"none", "running", "returned", "raised"}

EventsOK ==
  /\ generator \in Generators
  /\ frames \in Seq([event : Events, text : Nat])
  /\ listening \in BOOLEAN
  /\ charges \in Nat
  /\ wasted \in Nat

\* What is sent while the loop over the texts runs, and what may follow it.
Streaming == \A i \in DOMAIN frames : frames[i].event \in {"start", "token"}
Concluded ==
  /\ Len(frames) >= 2
  /\ frames[Len(frames)].event = "done"
  /\ frames[Len(frames) - 1].event \in {"usage", "error"}
  /\ \A i \in 1 .. Len(frames) - 2 : frames[i].event \in {"start", "token"}

\* Where the generator is, the call below it is as well.
GeneratorInv ==
  /\ generator = "none" => frames = <<>> /\ listening
  /\ generator # "none" => stage # "idle"
  /\ generator \in {"returned", "raised"} => stage = "over"
  /\ generator = "raised" => Escaped(ended)
  /\ generator # "returned" => Streaming /\ charges = 0
  /\ generator = "returned" => (Streaming /\ ~listening) \/ Concluded
  /\ charges # 0 => charges = 1 /\ ended = Completed

\* Of the texts read all are shown but the one the stream is suspended on.
Unshown == IF stage = "yielded" THEN {Len(wire)} ELSE {}
TextsInv ==
  generator # "none" /\ ended # Closed => Told = Deltas(wire) \ Unshown /\ InOrder

\* A text is wasted at most while the generator waits for it.
WasteInv ==
  /\ wasted <= 1
  /\ listening \/ stage \notin {"yielded", "over"} => wasted = 0

EventsInv == ProvidersInv /\ EventsOK /\ GeneratorInv /\ TextsInv /\ WasteInv

-----------------------------------------------------------------------------
(* The adapters, whoever calls them.                                       *)
\* A call is a record of an adapter and one of its modes.
LEMMA CallsAre ==
  ASSUME NEW c \in Calls
  PROVE  /\ c = [adapter |-> c.adapter, mode |-> c.mode]
         /\ c.adapter \in {"openai", "anthropic", "service", "fake"}
         /\ c.mode \in {"complete", "stream", "embed"}
         /\ c.adapter = "service" => c.mode \in {"complete", "stream"}
BY DEF Calls, Modes

LEMMA WireGrows ==
  ASSUME wire \in Seq(Lines), NEW line \in Lines
  PROVE  /\ Append(wire, line) \in Seq(Lines)
         /\ Append(wire, line) # <<>>
         /\ Len(Append(wire, line)) = Len(wire) + 1
         /\ Append(wire, line)[Len(wire) + 1] = line
         /\ \A i \in DOMAIN wire : Append(wire, line)[i] = wire[i]
         /\ DOMAIN Append(wire, line) = DOMAIN wire \union {Len(wire) + 1}
         /\ Len(wire) \in Nat
         /\ DOMAIN wire = 1 .. Len(wire)
OBVIOUS

LEMMA LineKeepsProviders ==
  ASSUME ProvidersInv, NEW line \in Lines, Line(line)
  PROVE  ProvidersInv'
<1>1. ProvidersOK' /\ (stage' = "yielded" => line = "delta")
  BY WireGrows DEF Line, ProvidersInv, ProvidersOK, Stages
<1>2. wire' # <<>> /\ wire'[Len(wire')] = line
  BY WireGrows DEF Line, ProvidersInv, ProvidersOK
<1>3. stage' \in {"idle", "sent"} => FALSE
  BY DEF Line
<1>4. stage' # "over" => ended' = Pending
  BY DEF Line, ProvidersInv
<1> QED
  BY <1>1, <1>2, <1>3, <1>4 DEF ProvidersInv

\* Every step of an adapter that ends the call leaves the lines alone.
LEMMA OverKeepsProviders ==
  ASSUME ProvidersInv, stage' = "over", UNCHANGED <<call, wire>>
  PROVE  ProvidersInv'
BY DEF ProvidersInv, ProvidersOK, Stages

LEMMA SendKeepsProviders ==
  ASSUME NEW c \in Calls, Send(c)
  PROVE  ProvidersInv'
BY DEF Send, ProvidersInv, ProvidersOK, Stages

LEMMA VendorKeepsProviders ==
  ASSUME ProvidersInv, Vendor
  PROVE  ProvidersInv'
<1> USE DEF Over
<1>1. CASE NoKey \/ Scripted \/ BodyEnds
  BY <1>1, OverKeepsProviders DEF NoKey, Scripted, BodyEnds
<1>2. CASE Opened
  BY <1>2 DEF Opened, ProvidersInv, ProvidersOK, Stages
<1>3. ASSUME NEW code \in Statuses, NEW detail \in Details, RefusedBy(code, detail)
      PROVE  ProvidersInv'
  BY <1>3, OverKeepsProviders DEF RefusedBy
<1>4. ASSUME NEW ending, Parsed(ending) \/ Embedded(ending)
      PROVE  ProvidersInv'
  BY <1>4, OverKeepsProviders DEF Parsed, Embedded
<1>5. ASSUME NEW timeout \in BOOLEAN, Breaks(timeout)
      PROVE  ProvidersInv'
  BY <1>5, OverKeepsProviders DEF Breaks
<1> QED
  BY <1>1, <1>2, <1>3, <1>4, <1>5, LineKeepsProviders DEF Vendor

LEMMA CallerKeepsProviders ==
  ASSUME ProvidersInv, Pull \/ Close
  PROVE  ProvidersInv'
<1>1. CASE Pull
  BY <1>1 DEF Pull, ProvidersInv, ProvidersOK, Stages
<1>2. CASE Close
  BY <1>2, OverKeepsProviders DEF Close, Over
<1> QED
  BY <1>1, <1>2

LEMMA ProvidersInductive == ProvidersInv /\ [EventsNext]_eventvars => ProvidersInv'
<1> SUFFICES ASSUME ProvidersInv, [EventsNext]_eventvars
             PROVE  ProvidersInv'
  OBVIOUS
<1>1. ASSUME UNCHANGED providervars
      PROVE  ProvidersInv'
  BY <1>1 DEF providervars, ProvidersInv, ProvidersOK
<1>2. ASSUME NEW c \in Calls, Direct(c) \/ Generate(c)
      PROVE  ProvidersInv'
  BY <1>2, SendKeepsProviders DEF Direct, Generate
<1>3. CASE Upstream
  BY <1>3, VendorKeepsProviders DEF Upstream
<1>4. CASE PullDirectly \/ Show \/ Abort
  BY <1>4, CallerKeepsProviders DEF PullDirectly, Show, Abort
<1>5. CASE FailInBand \/ Raise \/ Finish \/ Leave
  BY <1>5, <1>1 DEF FailInBand, Raise, Finish, Leave
<1>6. CASE Cancel
  BY <1>6, OverKeepsProviders DEF Cancel, Over
<1>7. CASE UNCHANGED eventvars
  BY <1>7, <1>1 DEF eventvars
<1> QED
  BY <1>2, <1>3, <1>4, <1>5, <1>6, <1>7 DEF EventsNext

LEMMA ProvidersAlways == EventsSpec => []ProvidersInv
<1>1. EventsInit => ProvidersInv
  BY DEF EventsInit, ProvidersInit, ProvidersInv, ProvidersOK, Stages
<1> QED
  BY <1>1, ProvidersInductive, PTL DEF EventsSpec

-----------------------------------------------------------------------------
(* What is raised is retryable when a later attempt may pass.              *)
MayPass(code) == code \in {Unanswered, 429} \/ code >= 500

LEMMA EndingFields ==
  ASSUME NEW class, NEW retryable
  PROVE  Ending(class, retryable).class = class /\ Ending(class, retryable).retryable = retryable
BY DEF Ending

\* An error is retryable by its class.
LEMMA ErrorIsRetryable ==
  ASSUME NEW class
  PROVE  Error(class).retryable <=> class \in {"RateLimitError", "TransientError"}
BY Zenon DEF Error, Ending

\* The two tables say the same of every status.
LEMMA TablesAgree ==
  ASSUME NEW code \in Statuses, NEW detail \in Details
  PROVE  /\ classify_status(code, detail).retryable <=> MayPass(code)
         /\ ServiceStatus("complete", code).retryable <=> MayPass(code)
<1> DEFINE refusal == CASE detail = "context_length" -> "ContextLengthError"
                        [] detail = "content_filter" -> "ContentFilterError"
                        [] OTHER -> "InvalidRequestError"
<1>1. refusal \notin {"RateLimitError", "TransientError"}
  OBVIOUS
<1>2. classify_status(code, detail) =
        CASE code = 429 -> Error("RateLimitError")
          [] code \in {401, 403} -> Error("AuthError")
          [] code >= 500 -> Error("TransientError")
          [] code \in {400, 422} -> Error(refusal)
          [] OTHER -> Error("LLMError")
  BY DEF classify_status
<1> HIDE DEF refusal
<1>3. \/ code = 429 /\ classify_status(code, detail) = Error("RateLimitError")
      \/ code \in {401, 403} /\ classify_status(code, detail) = Error("AuthError")
      \/ code = 500 /\ classify_status(code, detail) = Error("TransientError")
      \/ code \in {400, 422} /\ classify_status(code, detail) = Error(refusal)
      \/ code = 404 /\ classify_status(code, detail) = Error("LLMError")
  BY <1>2 DEF Statuses
<1>4. classify_status(code, detail).retryable <=> MayPass(code)
  <2>1. \/ code = 429 /\ classify_status(code, detail).retryable
        \/ code \in {401, 403} /\ ~classify_status(code, detail).retryable
        \/ code = 500 /\ classify_status(code, detail).retryable
        \/ code \in {400, 422} /\ ~classify_status(code, detail).retryable
        \/ code = 404 /\ ~classify_status(code, detail).retryable
    BY <1>1, <1>3, ErrorIsRetryable
  <2> QED
    BY <2>1 DEF MayPass, Unanswered
<1>5. ServiceStatus("complete", code).retryable <=> MayPass(code)
  <2>1. ServiceStatus("complete", code).retryable <=> code >= 500 \/ code = 429
    BY EndingFields, Zenon DEF ServiceStatus
  <2> QED
    BY <2>1 DEF MayPass, Unanswered, Statuses
<1> QED
  BY <1>4, <1>5

\* A broken connection is retryable wherever it is caught.
LEMMA BrokenIsRetryable ==
  ASSUME NEW c \in Calls, NEW timeout \in BOOLEAN, ~Escaped(Broken(c, timeout))
  PROVE  Broken(c, timeout).retryable
BY CallsAre DEF Broken, Escaped, Error, Ending

\* A refusal is one of the vendor's statuses, told by one of the two tables.
LEMMA RefusalMayPass ==
  ASSUME ProvidersInv, NEW code \in Statuses, NEW detail \in Details, RefusedBy(code, detail)
  PROVE  RetryableIffMayPass'
<1>1. CASE call.adapter = "service"
  <2>1. CASE call.mode = "stream"
    <3>1. call' = [adapter |-> "service", mode |-> "stream"]
      BY <1>1, <2>1, CallsAre DEF RefusedBy, ProvidersInv, ProvidersOK
    <3> QED
      BY <3>1 DEF RetryableIffMayPass
  <2>2. CASE call.mode # "stream"
    <3>1. call.mode = "complete"
      BY <1>1, <2>2, CallsAre DEF ProvidersInv, ProvidersOK
    <3>2. ended' = ServiceStatus("complete", code) /\ status' = code
      BY <1>1, <3>1 DEF RefusedBy, Over
    <3> QED
      BY <3>2, TablesAgree DEF RetryableIffMayPass, MayPass
  <2> QED
    BY <2>1, <2>2
<1>2. CASE call.adapter # "service"
  <2>1. ended' = classify_status(code, detail) /\ status' = code
    BY <1>2 DEF RefusedBy, Over
  <2> QED
    BY <2>1, TablesAgree DEF RetryableIffMayPass, MayPass
<1> QED
  BY <1>1, <1>2

LEMMA BreakMayPass ==
  ASSUME ProvidersInv, NEW timeout \in BOOLEAN, Breaks(timeout)
  PROVE  RetryableIffMayPass'
<1>1. status' = Unanswered /\ ended' = Broken(call, timeout)
  BY DEF Breaks, Over
<1>2. Typed(ended') => ended'.retryable
  BY <1>1, BrokenIsRetryable DEF Typed, ProvidersInv, ProvidersOK
<1> QED
  BY <1>1, <1>2 DEF RetryableIffMayPass

\* The answers read whole are complete or escape, and say nothing of retries.
LEMMA AnswersAreNotTyped ==
  ASSUME NEW ending \in {Completed, NotJson, NoData, Closed, Pending}
  PROVE  ~Typed(ending)
<1>1. Escaped(NotJson) /\ Escaped(NoData)
  BY DEF Escaped, NotJson, NoData, Ending
<1> QED
  BY <1>1 DEF Typed

LEMMA RetryableInductive ==
  ProvidersInv /\ RetryableIffMayPass /\ [EventsNext]_eventvars => RetryableIffMayPass'
<1> SUFFICES ASSUME ProvidersInv, RetryableIffMayPass, [EventsNext]_eventvars
             PROVE  RetryableIffMayPass'
  OBVIOUS
<1>1. ASSUME UNCHANGED providervars
      PROVE  RetryableIffMayPass'
  BY <1>1 DEF providervars, RetryableIffMayPass
<1>2. ASSUME ended' \in {Completed, NotJson, NoData, Closed, Pending}
      PROVE  RetryableIffMayPass'
  BY <1>2, AnswersAreNotTyped DEF RetryableIffMayPass
<1>3. ASSUME NEW c \in Calls, Direct(c) \/ Generate(c)
      PROVE  RetryableIffMayPass'
  BY <1>3, <1>2 DEF Direct, Generate, Send
<1>4. CASE Upstream
  <2>1. CASE NoKey
    <3>1. status' = Unasked /\ ended' = Error("LLMError")
      BY <2>1 DEF NoKey, Over, ProvidersInv
    <3>2. ~ended'.retryable
      BY <3>1, ErrorIsRetryable
    <3> QED
      BY <3>1, <3>2 DEF RetryableIffMayPass, Unasked, Unanswered
  <2>2. CASE Scripted
    <3>1. status' = Unanswered /\ ended'.retryable
      BY <2>2, EndingFields DEF Scripted, Over
    <3> QED
      BY <3>1 DEF RetryableIffMayPass
  <2>3. CASE Opened \/ BodyEnds
    BY <2>3, <1>2 DEF Opened, BodyEnds, Over, ProvidersInv
  <2>4. ASSUME NEW ending \in {Completed, NotJson, NoData}, Parsed(ending) \/ Embedded(ending)
        PROVE  RetryableIffMayPass'
    BY <2>4, <1>2 DEF Parsed, Embedded, Over
  <2>5. ASSUME NEW line \in Lines, Line(line)
        PROVE  RetryableIffMayPass'
    BY <2>5, <1>2 DEF Line, ProvidersInv
  <2> QED
    BY <1>4, <2>1, <2>2, <2>3, <2>4, <2>5, RefusalMayPass, BreakMayPass DEF Upstream, Vendor
<1>5. CASE PullDirectly \/ Show \/ Abort
  BY <1>5, <1>2 DEF PullDirectly, Show, Abort, Pull, Close, Over, ProvidersInv
<1>6. CASE FailInBand \/ Raise \/ Finish \/ Leave
  BY <1>6, <1>1 DEF FailInBand, Raise, Finish, Leave
<1>7. CASE Cancel
  BY <1>7, <1>2 DEF Cancel, Over
<1>8. CASE UNCHANGED eventvars
  BY <1>8, <1>1 DEF eventvars
<1> QED
  BY <1>3, <1>4, <1>5, <1>6, <1>7, <1>8 DEF EventsNext

(* What an adapter raises is retryable exactly when the vendor gave no     *)
(* answer or one that may pass (429, 5xx), in both of the code's tables    *)
(* and for every adapter but the service's stream.                         *)
THEOREM OnlyPassingIsRetryable == EventsSpec => []RetryableIffMayPass
<1>1. EventsInit => RetryableIffMayPass
  BY DEF EventsInit, ProvidersInit, RetryableIffMayPass
<1> QED
  BY <1>1, ProvidersAlways, RetryableInductive, PTL DEF EventsSpec

-----------------------------------------------------------------------------
(* The generator over a stream.                                            *)
\* A token's frame at the end of the frames.
LEMMA FramesGrow ==
  ASSUME EventsOK, NEW event \in Events, NEW told \in Nat
  PROVE  LET longer == Append(frames, Frame(event, told))
         IN  /\ longer \in Seq([event : Events, text : Nat])
             /\ DOMAIN longer = DOMAIN frames \union {Len(frames) + 1}
             /\ DOMAIN frames = 1 .. Len(frames) /\ Len(frames) \in Nat
             /\ \A i \in DOMAIN frames : longer[i] = frames[i]
             /\ longer[Len(frames) + 1] = Frame(event, told)
<1>1. Frame(event, told) \in [event : Events, text : Nat]
  BY DEF Frame
<1> HIDE DEF Frame
<1> QED
  BY <1>1, AppendProperties, LenProperties DEF EventsOK

\* Two plain events at the end of the frames.
LEMMA FramesEnd ==
  ASSUME EventsOK, NEW first \in Events, NEW second \in Events
  PROVE  LET longer == frames \o <<Plain(first), Plain(second)>>
         IN  /\ longer \in Seq([event : Events, text : Nat])
             /\ Len(longer) = Len(frames) + 2
             /\ DOMAIN longer = 1 .. Len(frames) + 2
             /\ DOMAIN frames = 1 .. Len(frames) /\ Len(frames) \in Nat
             /\ \A i \in DOMAIN frames : longer[i] = frames[i]
             /\ longer[Len(frames) + 1] = Plain(first)
             /\ longer[Len(frames) + 2] = Plain(second)
<1> DEFINE ending == <<Plain(first), Plain(second)>>
           Event == [event : Events, text : Nat]
<1>1. Plain(first) \in Event /\ Plain(second) \in Event
  BY DEF Plain, Frame
<1> HIDE DEF Plain, Event
<1>2. ending \in Seq(Event) /\ Len(ending) = 2
      /\ ending[1] = Plain(first) /\ ending[2] = Plain(second)
  BY <1>1
<1>3. frames \in Seq(Event)
  BY DEF EventsOK, Event
<1> HIDE DEF ending
<1>4. /\ frames \o ending \in Seq(Event)
      /\ Len(frames \o ending) = Len(frames) + 2
      /\ \A i \in 1 .. Len(frames) + 2 :
           (frames \o ending)[i] = IF i <= Len(frames) THEN frames[i] ELSE ending[i - Len(frames)]
  <2>1. /\ frames \o ending \in Seq(Event)
        /\ Len(frames \o ending) = Len(frames) + Len(ending)
        /\ \A i \in 1 .. Len(frames) + Len(ending) :
             (frames \o ending)[i] = IF i <= Len(frames) THEN frames[i] ELSE ending[i - Len(frames)]
    BY <1>2, <1>3, ConcatProperties, Zenon
  <2> QED
    BY <2>1, <1>2
<1>5. /\ Len(frames) \in Nat /\ DOMAIN frames = 1 .. Len(frames)
      /\ DOMAIN (frames \o ending) = 1 .. Len(frames) + 2
  BY <1>3, <1>4, LenProperties
<1> QED
  BY <1>2, <1>4, <1>5 DEF ending, Event

LEMMA EventsTyped == EventsOK /\ ProvidersOK /\ [EventsNext]_eventvars => EventsOK'
<1> SUFFICES ASSUME EventsOK, ProvidersOK, [EventsNext]_eventvars
             PROVE  EventsOK'
  OBVIOUS
<1>1. ASSUME NEW c \in Calls, Generate(c)
      PROVE  EventsOK'
  <2>1. <<Plain("start")>> \in Seq([event : Events, text : Nat])
    BY DEF Plain, Frame, Events
  <2> QED
    BY <1>1, <2>1 DEF Generate, EventsOK, Generators
<1>2. CASE Show
  <2>1. frames' \in Seq([event : Events, text : Nat])
    BY <1>2, FramesGrow DEF Show, ProvidersOK, Events
  <2> QED
    BY <1>2, <2>1 DEF Show, EventsOK
<1>3. CASE FailInBand \/ Finish
  <2>1. frames' \in Seq([event : Events, text : Nat])
    BY <1>3, FramesEnd DEF FailInBand, Finish, Events
  <2> QED
    BY <1>3, <2>1 DEF FailInBand, Finish, EventsOK, Generators
<1>4. CASE Upstream
  BY <1>4 DEF Upstream, EventsOK
<1>5. CASE Abort \/ Raise \/ Leave \/ Cancel
  BY <1>5 DEF Abort, Raise, Leave, Cancel, EventsOK, Generators
<1>6. ASSUME UNCHANGED framevars
      PROVE  EventsOK'
  BY <1>6 DEF framevars, EventsOK
<1> QED
  BY <1>1, <1>2, <1>3, <1>4, <1>5, <1>6 DEF EventsNext, Direct, PullDirectly, eventvars

\* Which steps move the call, and to where.
LEMMA EndingKnown ==
  ASSUME NEW ending
  PROVE  /\ ~(Typed(ending) /\ ending = Completed)
         /\ ~(Escaped(ending) /\ (ending = Completed \/ ending = Pending \/ ending = Closed))
<1>1. ~Escaped(Completed) /\ ~Escaped(Pending) /\ ~Escaped(Closed)
  BY DEF Escaped, Completed, Pending, Closed, Ending
<1> QED
  BY <1>1 DEF Typed

LEMMA VendorMoves ==
  ASSUME Vendor
  PROVE  stage \in {"sent", "body"} /\ stage' \in {"body", "yielded", "over"}
BY DEF Vendor, NoKey, Scripted, Opened, BodyEnds, RefusedBy, Parsed, Embedded, Line,
       Breaks, Over

LEMMA GeneratorInductive ==
  ProvidersInv /\ EventsOK /\ GeneratorInv /\ [EventsNext]_eventvars => GeneratorInv'
<1> SUFFICES ASSUME ProvidersInv, EventsOK, GeneratorInv, [EventsNext]_eventvars
             PROVE  GeneratorInv'
  OBVIOUS
<1> USE DEF Generators
<1>1. ASSUME NEW c \in Calls, Direct(c)
      PROVE  GeneratorInv'
  BY <1>1 DEF Direct, Send, framevars, GeneratorInv, Streaming, Concluded
<1>2. ASSUME NEW c \in Calls, Generate(c)
      PROVE  GeneratorInv'
  <2>1. Streaming'
    BY <1>2 DEF Generate, Streaming, Plain, Frame
  <2>2. generator' = "running" /\ stage' = "sent" /\ charges' = 0
    BY <1>2 DEF Generate, Send, GeneratorInv
  <2> QED
    BY <2>1, <2>2 DEF GeneratorInv
<1>3. CASE Upstream
  BY <1>3, VendorMoves DEF Upstream, GeneratorInv, Streaming, Concluded, EventsOK
<1>4. CASE PullDirectly
  BY <1>4 DEF PullDirectly, Pull, Close, Over, framevars, GeneratorInv, Streaming, Concluded
<1>5. CASE Show
  <2>1. Streaming'
    <3>1. frames' = Append(frames, Frame("token", Len(wire)))
      BY <1>5 DEF Show
    <3>2. Streaming
      BY <1>5 DEF Show, GeneratorInv
    <3> QED
      BY <3>1, <3>2, FramesGrow DEF Streaming, ProvidersInv, ProvidersOK, Frame, Events
  <2>2. generator' = "running" /\ stage' = "body" /\ charges' = 0
    BY <1>5 DEF Show, Pull, GeneratorInv
  <2> QED
    BY <2>1, <2>2 DEF GeneratorInv
<1>6. CASE Abort \/ Cancel
  BY <1>6 DEF Abort, Cancel, Close, Over, GeneratorInv, Streaming, Concluded
<1>7. CASE FailInBand \/ Finish
  <2>1. PICK first \in {"usage", "error"} : frames' = frames \o <<Plain(first), Plain("done")>>
    BY <1>7 DEF FailInBand, Finish
  <2>2. Streaming /\ charges = 0 /\ stage = "over"
    BY <1>7 DEF FailInBand, Finish, GeneratorInv
  <2>3. Concluded'
    <3>1. /\ Len(frames') = Len(frames) + 2 /\ Len(frames) \in Nat
          /\ DOMAIN frames = 1 .. Len(frames)
          /\ \A i \in DOMAIN frames : frames'[i] = frames[i]
          /\ frames'[Len(frames) + 1] = Plain(first)
          /\ frames'[Len(frames) + 2] = Plain("done")
      BY <2>1, FramesEnd DEF Events
    <3>2. Len(frames') - 2 = Len(frames) /\ Len(frames') - 1 = Len(frames) + 1
      BY <3>1
    <3> QED
      BY <3>1, <3>2, <2>2 DEF Concluded, Streaming, Plain, Frame
  <2>4. charges' = 0 \/ (charges' = 1 /\ ended' = Completed)
    BY <1>7, <2>2 DEF FailInBand, Finish, providervars
  <2>5. generator' = "returned" /\ stage' = "over"
    BY <1>7, <2>2 DEF FailInBand, Finish, providervars
  <2> QED
    BY <2>3, <2>4, <2>5 DEF GeneratorInv
<1>8. CASE Raise
  BY <1>8 DEF Raise, providervars, GeneratorInv, Streaming
<1>9. CASE Leave
  BY <1>9 DEF Leave, providervars, GeneratorInv, Streaming
<1>10. CASE UNCHANGED eventvars
  BY <1>10 DEF eventvars, framevars, providervars, GeneratorInv, Streaming, Concluded
<1> QED
  BY <1>1, <1>2, <1>3, <1>4, <1>5, <1>6, <1>7, <1>8, <1>9, <1>10 DEF EventsNext

-----------------------------------------------------------------------------
(* The texts shown and the texts read.                                     *)
LEMMA ToldGrows ==
  ASSUME EventsOK, NEW n \in Nat \ {0}, frames' = Append(frames, Frame("token", n))
  PROVE  /\ Told' = Told \union {n}
         /\ InOrder /\ (\A told \in Told : told < n) => InOrder'
<1>1. /\ DOMAIN frames' = DOMAIN frames \union {Len(frames) + 1}
      /\ DOMAIN frames = 1 .. Len(frames) /\ Len(frames) \in Nat
      /\ \A i \in DOMAIN frames : frames'[i] = frames[i]
      /\ frames'[Len(frames) + 1] = Frame("token", n)
  BY FramesGrow DEF Events
<1>2. frames'[Len(frames) + 1].text = n
  BY <1>1 DEF Frame
<1>3. TokenFrames' = TokenFrames \union {Len(frames) + 1}
  BY <1>1, <1>2 DEF TokenFrames
<1>4. \A i \in TokenFrames : i \in 1 .. Len(frames) /\ frames'[i].text = frames[i].text
  BY <1>1 DEF TokenFrames
<1>5. Told' = Told \union {n}
  BY <1>2, <1>3, <1>4 DEF Told
<1>6. ASSUME InOrder, \A told \in Told : told < n
      PROVE  InOrder'
  <2> SUFFICES ASSUME NEW i \in TokenFrames', NEW j \in TokenFrames', i < j
               PROVE  frames'[i].text < frames'[j].text
    BY DEF InOrder
  <2>1. i \in TokenFrames
    BY <1>1, <1>3, <1>4
  <2>2. CASE j \in TokenFrames
    BY <1>4, <1>6, <2>1, <2>2 DEF InOrder
  <2>3. CASE j = Len(frames) + 1
    BY <1>2, <1>4, <1>6, <2>1, <2>3 DEF Told
  <2> QED
    BY <1>3, <2>2, <2>3
<1> QED
  BY <1>5, <1>6

LEMMA ToldKept ==
  ASSUME EventsOK, NEW first \in Events, NEW second \in Events,
         frames' = frames \o <<Plain(first), Plain(second)>>
  PROVE  Told' = Told /\ (InOrder => InOrder')
<1>1. /\ DOMAIN frames' = 1 .. Len(frames) + 2
      /\ DOMAIN frames = 1 .. Len(frames) /\ Len(frames) \in Nat
      /\ \A i \in DOMAIN frames : frames'[i] = frames[i]
      /\ frames'[Len(frames) + 1] = Plain(first)
      /\ frames'[Len(frames) + 2] = Plain(second)
  BY FramesEnd
<1>2. Plain(first).text = 0 /\ Plain(second).text = 0
  BY DEF Plain, Frame
<1>3. TokenFrames' = TokenFrames
  <2>1. DOMAIN frames' = DOMAIN frames \union {Len(frames) + 1, Len(frames) + 2}
    BY <1>1
  <2> QED
    BY <1>1, <1>2, <2>1 DEF TokenFrames
<1>4. \A i \in TokenFrames : frames'[i].text = frames[i].text
  BY <1>1 DEF TokenFrames
<1> QED
  BY <1>3, <1>4 DEF Told, InOrder

LEMMA LineTells ==
  ASSUME ProvidersInv, NEW line \in Lines, Line(line)
  PROVE  Deltas(wire) = Deltas(wire') \ Unshown'
<1>1. /\ wire' = Append(wire, line)
      /\ stage' = "yielded" <=> line = "delta"
  BY DEF Line
<1>2. /\ Len(wire') = Len(wire) + 1 /\ Len(wire) \in Nat
      /\ DOMAIN wire' = DOMAIN wire \union {Len(wire) + 1}
      /\ DOMAIN wire = 1 .. Len(wire)
      /\ \A i \in DOMAIN wire : wire'[i] = wire[i]
      /\ wire'[Len(wire) + 1] = line
  BY <1>1, WireGrows DEF ProvidersInv, ProvidersOK
<1>3. Deltas(wire') = Deltas(wire) \union (IF line = "delta" THEN {Len(wire) + 1} ELSE {})
  BY <1>2 DEF Deltas
<1>4. Len(wire) + 1 \notin Deltas(wire)
  BY <1>2 DEF Deltas
<1> QED
  BY <1>1, <1>2, <1>3, <1>4 DEF Unshown

LEMMA VendorTells ==
  ASSUME ProvidersInv, Vendor
  PROVE  Unshown = {} /\ ended # Closed /\ Deltas(wire) = Deltas(wire') \ Unshown'
<1>1. stage \in {"sent", "body"}
  BY VendorMoves
<1>2. Unshown = {} /\ ended # Closed
  BY <1>1 DEF Unshown, ProvidersInv, Pending, Closed, Ending
<1>3. CASE \E line \in Lines : Line(line)
  BY <1>2, <1>3, LineTells
<1>4. CASE ~ \E line \in Lines : Line(line)
  <2>1. wire' = wire /\ stage' # "yielded"
    BY <1>4 DEF Vendor, NoKey, Scripted, Opened, BodyEnds, RefusedBy, Parsed, Embedded,
                Breaks, Over
  <2> QED
    BY <1>2, <2>1 DEF Unshown
<1> QED
  BY <1>3, <1>4

LEMMA TextsInductive ==
  ProvidersInv /\ EventsOK /\ GeneratorInv /\ TextsInv /\ [EventsNext]_eventvars => TextsInv'
<1> SUFFICES ASSUME ProvidersInv, EventsOK, GeneratorInv, TextsInv, [EventsNext]_eventvars
             PROVE  TextsInv'
  OBVIOUS
<1>1. ASSUME NEW c \in Calls, Direct(c)
      PROVE  TextsInv'
  BY <1>1 DEF Direct, framevars, GeneratorInv, TextsInv
<1>2. ASSUME NEW c \in Calls, Generate(c)
      PROVE  TextsInv'
  <2>1. frames' = <<Plain("start")>> /\ wire' = <<>> /\ stage' = "sent"
    BY <1>2 DEF Generate, Send
  <2>2. TokenFrames' = {}
    BY <2>1 DEF TokenFrames, Plain, Frame
  <2>3. Told' = {} /\ InOrder' /\ Deltas(wire') = {}
    BY <2>1, <2>2 DEF Told, InOrder, Deltas
  <2> QED
    BY <2>3 DEF TextsInv
<1>3. CASE Upstream
  <2>1. Told' = Told /\ (InOrder => InOrder') /\ generator' = generator
    BY <1>3 DEF Upstream, Told, TokenFrames, InOrder
  <2>2. Vendor
    BY <1>3 DEF Upstream
  <2> QED
    BY <2>1, <2>2, VendorTells DEF TextsInv
<1>4. CASE PullDirectly
  BY <1>4 DEF PullDirectly, framevars, TextsInv
<1>5. CASE Show
  <2>1. /\ generator = "running" /\ stage = "yielded" /\ stage' = "body"
        /\ wire' = wire /\ frames' = Append(frames, Frame("token", Len(wire)))
    BY <1>5 DEF Show, Pull
  <2>2. /\ Len(wire) \in Nat \ {0} /\ Len(wire) \in Deltas(wire)
        /\ \A i \in Deltas(wire) : i \in 1 .. Len(wire)
    BY <2>1 DEF ProvidersInv, ProvidersOK, Deltas
  <2>3. ended # Closed
    BY <2>1 DEF ProvidersInv, Pending, Closed, Ending
  <2>4. Told = Deltas(wire) \ {Len(wire)} /\ InOrder
    BY <2>1, <2>3 DEF TextsInv, Unshown
  <2>5. \A told \in Told : told < Len(wire)
    BY <2>2, <2>4
  <2>6. Told' = Told \union {Len(wire)} /\ InOrder'
    BY <2>1, <2>2, <2>4, <2>5, ToldGrows
  <2>7. Told' = Deltas(wire') \ Unshown'
    BY <2>1, <2>2, <2>4, <2>6 DEF Unshown
  <2> QED
    BY <2>6, <2>7 DEF TextsInv
<1>6. CASE Abort \/ Cancel
  BY <1>6 DEF Abort, Cancel, Close, Over, TextsInv
<1>7. CASE FailInBand \/ Finish
  <2>1. Told' = Told /\ (InOrder => InOrder')
    BY <1>7, ToldKept DEF FailInBand, Finish, Events
  <2> QED
    BY <1>7, <2>1 DEF FailInBand, Finish, providervars, TextsInv, Unshown
<1>8. CASE Raise \/ Leave \/ UNCHANGED eventvars
  <2>1. Told' = Told /\ (InOrder => InOrder')
    BY <1>8 DEF Raise, Leave, eventvars, framevars, Told, TokenFrames, InOrder
  <2> QED
    BY <1>8, <2>1 DEF Raise, Leave, eventvars, framevars, providervars, TextsInv, Unshown
<1> QED
  BY <1>1, <1>2, <1>3, <1>4, <1>5, <1>6, <1>7, <1>8 DEF EventsNext

LEMMA WasteInductive ==
  ProvidersInv /\ EventsOK /\ GeneratorInv /\ WasteInv /\ [EventsNext]_eventvars => WasteInv'
<1> SUFFICES ASSUME ProvidersInv, EventsOK, GeneratorInv, WasteInv, [EventsNext]_eventvars
             PROVE  WasteInv'
  OBVIOUS
<1>1. ASSUME NEW c \in Calls, Direct(c) \/ Generate(c)
      PROVE  WasteInv'
  BY <1>1 DEF Direct, Generate, Send, framevars, WasteInv
<1>2. CASE Upstream
  BY <1>2, VendorMoves DEF Upstream, WasteInv
<1>3. CASE PullDirectly
  BY <1>3 DEF PullDirectly, Pull, Close, Over, framevars, GeneratorInv, WasteInv
<1>4. CASE Show
  BY <1>4 DEF Show, Pull, WasteInv
<1>5. CASE Abort \/ Cancel
  BY <1>5 DEF Abort, Cancel, Close, Over, WasteInv
<1>6. CASE FailInBand \/ Raise \/ Finish \/ Leave \/ UNCHANGED eventvars
  BY <1>6 DEF FailInBand, Raise, Finish, Leave, eventvars, framevars, providervars, WasteInv
<1> QED
  BY <1>1, <1>2, <1>3, <1>4, <1>5, <1>6 DEF EventsNext

LEMMA EventsAlways == EventsSpec => []EventsInv
<1>1. EventsInit => EventsInv
  <2> SUFFICES ASSUME EventsInit
               PROVE  EventsInv
    OBVIOUS
  <2>1. ProvidersInv
    BY DEF EventsInit, ProvidersInit, ProvidersInv, ProvidersOK, Stages
  <2>2. EventsOK /\ Streaming
    BY DEF EventsInit, EventsOK, Generators, Streaming
  <2>3. GeneratorInv /\ TextsInv /\ WasteInv
    BY <2>2 DEF EventsInit, ProvidersInit, GeneratorInv, TextsInv, WasteInv
  <2> QED
    BY <2>1, <2>2, <2>3 DEF EventsInv
<1>2. EventsInv /\ [EventsNext]_eventvars => EventsInv'
  BY ProvidersInductive, EventsTyped, GeneratorInductive, TextsInductive, WasteInductive
  DEF EventsInv, ProvidersInv
<1> QED
  BY <1>1, <1>2, PTL DEF EventsSpec

-----------------------------------------------------------------------------
(* The stream ends once: with usage or an error and done right after it,   *)
(* told to every client that stays, unless the failure escapes the handler *)
(* (chat_stream.generate, for any number of texts).                        *)
THEOREM EndsOnce == EventsSpec => []OneEnding
<1>1. EventsInv => OneEnding
  <2> SUFFICES ASSUME EventsInv
               PROVE  OneEnding
    OBVIOUS
  <2>1. Len(frames) \in Nat /\ DOMAIN frames = 1 .. Len(frames)
    BY DEF EventsInv, EventsOK
  <2>2. CASE Streaming
    <3>1. Ends = {}
      BY <2>2 DEF Streaming, Ends
    <3>2. Cardinality(Ends) = 0
      BY <3>1, FS_EmptySet
    <3>3. generator \in {"returned", "raised"} /\ listening => Escaped(ended)
      <4>1. ~Concluded
        BY <2>1, <2>2 DEF Streaming, Concluded
      <4> QED
        BY <4>1 DEF EventsInv, GeneratorInv
    <3> QED
      BY <2>2, <3>1, <3>2, <3>3 DEF OneEnding, Streaming
  <2>3. CASE Concluded
    <3>1. Ends = {Len(frames) - 1}
      <4>1. \A i \in DOMAIN frames :
              i \in 1 .. Len(frames) - 2 \/ i = Len(frames) - 1 \/ i = Len(frames)
        BY <2>1
      <4>2. Len(frames) - 1 \in DOMAIN frames
        BY <2>1, <2>3 DEF Concluded
      <4> QED
        BY <2>3, <4>1, <4>2 DEF Concluded, Ends
    <3>2. Cardinality(Ends) = 1
      BY <3>1, FS_Singleton
    <3>3. \A i \in DOMAIN frames : frames[i].event = "done" <=> i = Len(frames)
      <4>1. \A i \in DOMAIN frames :
              i \in 1 .. Len(frames) - 2 \/ i = Len(frames) - 1 \/ i = Len(frames)
        BY <2>1
      <4> QED
        BY <2>1, <2>3, <4>1 DEF Concluded
    <3> QED
      BY <2>1, <3>1, <3>2, <3>3 DEF OneEnding
  <2> QED
    BY <2>2, <2>3 DEF EventsInv, GeneratorInv
<1> QED
  BY <1>1, EventsAlways, PTL

(* A stream is charged for once at most, and only when it ran to its end   *)
(* and every text read was shown, in the order it came.                    *)
THEOREM ChargesForWholeAnswers == EventsSpec => []ChargedWhenWhole
<1>1. EventsInv => ChargedWhenWhole
  <2> SUFFICES ASSUME EventsInv, charges > 0
               PROVE  charges = 1 /\ ended = Completed /\ Told = Deltas(wire) /\ InOrder
    BY DEF ChargedWhenWhole
  <2>1. charges = 1 /\ ended = Completed
    BY DEF EventsInv, EventsOK, GeneratorInv
  <2>2. generator = "returned" /\ stage = "over"
    BY <2>1 DEF EventsInv, GeneratorInv, EventsOK, Generators
  <2>3. ended # Closed
    BY <2>1 DEF Completed, Closed, Ending
  <2> QED
    BY <2>1, <2>2, <2>3 DEF EventsInv, TextsInv, Unshown
<1> QED
  BY <1>1, EventsAlways, PTL

(* After the client has left, the vendor produces one more text at most.   *)
THEOREM WastesOneText == EventsSpec => []OneWastedText
<1>1. EventsInv => OneWastedText
  BY DEF EventsInv, WasteInv, OneWastedText
<1> QED
  BY <1>1, EventsAlways, PTL

-----------------------------------------------------------------------------
(* The chunks of a text: parts, and what is left of them without blanks.   *)

\* What a document, and the heading path in front of a chunk, are written with.
Letter == Characters \union {"n", ">"}
Text == Seq(Letter)

\* The lesser and the greater of two numbers.
LEMMA MinOfTwo ==
  ASSUME NEW a \in Nat, NEW b \in Nat
  PROVE  Min({a, b}) = IF a <= b THEN a ELSE b
<1>1. {a, b} \in SUBSET Nat /\ {a, b} # {}
  OBVIOUS
<1>2. Min({a, b}) \in {a, b} /\ \A x \in {a, b} : Min({a, b}) <= x
  BY <1>1, MinIsLeast
<1> QED  BY <1>2

LEMMA MaxOfTwo ==
  ASSUME NEW a \in Int, NEW b \in Int
  PROVE  Max({a, b}) = IF a >= b THEN a ELSE b
<1> DEFINE S == {a, b}
           m == IF a >= b THEN a ELSE b
<1>1. m \in S /\ \A x \in S : x \in Int /\ x <= m
  OBVIOUS
<1> HIDE DEF S, m
<1>2. Max(S) = m
  BY <1>1, MaxIs
<1> QED  BY <1>2 DEF S, m

\* A slice within a text, letter by letter.
LEMMA SliceIs ==
  ASSUME NEW t \in Text, NEW from \in Nat, NEW to \in Nat, from <= to, to <= Len(t)
  PROVE  /\ Slice(t, from, to) \in Text /\ Len(Slice(t, from, to)) = to - from
         /\ \A k \in 1 .. to - from : Slice(t, from, to)[k] = t[from + k]
<1>1. Len(t) \in Nat /\ t \in Seq(Letter)
  BY DEF Text
<1>2. Min({to, Len(t)}) = to
  BY <1>1, MinOfTwo
<1>3. Slice(t, from, to) = SubSeq(t, from + 1, to)
  BY <1>2 DEF Slice
<1>4. SubSeq(t, from + 1, to) \in Seq(Letter) /\ Len(SubSeq(t, from + 1, to)) = to - from
  BY <1>1
<1>5. \A k \in 1 .. to - from : SubSeq(t, from + 1, to)[k] = t[from + k]
  BY <1>1
<1> QED  BY <1>3, <1>4, <1>5 DEF Text

\* A slice past the end stops there.
LEMMA SliceStops ==
  ASSUME NEW t \in Text, NEW from \in Nat, NEW to \in Nat, Len(t) <= to
  PROVE  Slice(t, from, to) = Slice(t, from, Len(t))
<1>1. Len(t) \in Nat
  BY DEF Text
<1>2. Min({to, Len(t)}) = Len(t) /\ Min({Len(t), Len(t)}) = Len(t)
  BY <1>1, MinOfTwo
<1> QED  BY <1>2 DEF Slice

\* Two texts of the same letters are the same.
LEMMA TextsEqual ==
  ASSUME NEW u \in Text, NEW v \in Text, Len(u) = Len(v), \A k \in 1 .. Len(u) : u[k] = v[k]
  PROVE  u = v
BY SeqEqual DEF Text

\* The letters of two texts, one after the other.
LEMMA ConcatIs ==
  ASSUME NEW u \in Text, NEW v \in Text
  PROVE  /\ u \o v \in Text /\ Len(u \o v) = Len(u) + Len(v) /\ Len(u) \in Nat /\ Len(v) \in Nat
         /\ \A k \in 1 .. Len(u) : (u \o v)[k] = u[k]
         /\ \A k \in 1 .. Len(v) : (u \o v)[Len(u) + k] = v[k]
BY DEF Text

\* A slice and the slice after it.
LEMMA SlicesJoin ==
  ASSUME NEW t \in Text, NEW a \in Nat, NEW b \in Nat, NEW c \in Nat, a <= b, b <= c, c <= Len(t)
  PROVE  Slice(t, a, b) \o Slice(t, b, c) = Slice(t, a, c)
<1> DEFINE u == Slice(t, a, b)
           v == Slice(t, b, c)
           w == Slice(t, a, c)
<1>0. Len(t) \in Nat
  BY DEF Text
<1>1. b <= Len(t) /\ a <= c
  BY <1>0
<1>2. u \in Text /\ Len(u) = b - a /\ \A k \in 1 .. b - a : u[k] = t[a + k]
  BY <1>1, SliceIs
<1>3. v \in Text /\ Len(v) = c - b /\ \A k \in 1 .. c - b : v[k] = t[b + k]
  BY SliceIs
<1>4. w \in Text /\ Len(w) = c - a /\ \A k \in 1 .. c - a : w[k] = t[a + k]
  BY <1>1, SliceIs
<1>5. /\ u \o v \in Text /\ Len(u \o v) = Len(u) + Len(v)
      /\ \A k \in 1 .. Len(u) : (u \o v)[k] = u[k]
      /\ \A k \in 1 .. Len(v) : (u \o v)[Len(u) + k] = v[k]
  BY <1>2, <1>3, ConcatIs
<1> DEFINE j == u \o v
<1> HIDE DEF u, v, w, j
<1>6. j \in Text /\ Len(j) = c - a
  BY <1>2, <1>3, <1>5 DEF j
<1>7. ASSUME NEW k \in 1 .. c - a
      PROVE  j[k] = w[k]
  <2>1. CASE k <= b - a
    BY <1>2, <1>4, <1>5, <2>1 DEF j
  <2>2. CASE k > b - a
    <3>1. k - (b - a) \in 1 .. c - b /\ (b - a) + (k - (b - a)) = k /\ b + (k - (b - a)) = a + k
      BY <2>2
    <3>2. j[k] = v[k - (b - a)]
      BY <1>2, <1>3, <1>5, <3>1 DEF j
    <3> QED  BY <1>3, <1>4, <3>1, <3>2
  <2> QED  BY <2>1, <2>2
<1>8. j = w
  BY <1>4, <1>6, <1>7, TextsEqual
<1> QED  BY <1>8 DEF j, u, v, w

\* A slice of a slice.
LEMMA SliceWithin ==
  ASSUME NEW t \in Text, NEW a \in Nat, NEW b \in Nat, a <= b, b <= Len(t),
         NEW c \in Nat, NEW d \in Nat, c <= d, a + d <= b
  PROVE  Slice(Slice(t, a, b), c, d) = Slice(t, a + c, a + d)
<1> DEFINE u == Slice(t, a, b)
           v == Slice(u, c, d)
           w == Slice(t, a + c, a + d)
<1>0. Len(t) \in Nat
  BY DEF Text
<1>1. u \in Text /\ Len(u) = b - a /\ \A k \in 1 .. b - a : u[k] = t[a + k]
  BY SliceIs
<1>2. a + c \in Nat /\ a + d \in Nat /\ a + c <= a + d /\ a + d <= Len(t) /\ d <= b - a
  BY <1>0
<1>3. w \in Text /\ Len(w) = d - c /\ \A k \in 1 .. d - c : w[k] = t[a + c + k]
  <2>1. /\ w \in Text /\ Len(w) = (a + d) - (a + c)
        /\ \A k \in 1 .. (a + d) - (a + c) : w[k] = t[(a + c) + k]
    BY <1>2, SliceIs
  <2> QED  BY <2>1
<1> HIDE DEF u, w
<1>4. v \in Text /\ Len(v) = d - c /\ \A k \in 1 .. d - c : v[k] = u[c + k]
  BY <1>1, <1>2, SliceIs
<1> HIDE DEF v
<1>5. ASSUME NEW k \in 1 .. d - c
      PROVE  v[k] = w[k]
  <2>1. c + k \in 1 .. b - a /\ a + (c + k) = a + c + k
    BY <1>2
  <2>2. u[c + k] = t[a + (c + k)]
    BY <1>1, <2>1
  <2> QED  BY <1>3, <1>4, <2>1, <2>2
<1>6. v = w
  BY <1>3, <1>4, <1>5, TextsEqual
<1> QED  BY <1>6 DEF u, v, w

\* All of a text.
LEMMA SliceWhole ==
  ASSUME NEW t \in Text
  PROVE  Slice(t, 0, Len(t)) = t
<1>1. Len(t) \in Nat
  BY DEF Text
<1>2. Slice(t, 0, Len(t)) \in Text /\ Len(Slice(t, 0, Len(t))) = Len(t)
      /\ \A k \in 1 .. Len(t) : Slice(t, 0, Len(t))[k] = t[k]
  <2>1. \A a, b \in Nat : a <= b /\ b <= Len(t) =>
          /\ Slice(t, a, b) \in Text /\ Len(Slice(t, a, b)) = b - a
          /\ \A k \in 1 .. b - a : Slice(t, a, b)[k] = t[a + k]
    BY SliceIs
  <2>2. 0 \in Nat /\ 0 <= Len(t) /\ Len(t) <= Len(t) /\ Len(t) - 0 = Len(t)
    BY <1>1
  <2>3. /\ Slice(t, 0, Len(t)) \in Text /\ Len(Slice(t, 0, Len(t))) = Len(t) - 0
        /\ \A k \in 1 .. Len(t) - 0 : Slice(t, 0, Len(t))[k] = t[0 + k]
    BY <1>1, <2>1, <2>2, Zenon
  <2>4. \A k \in 1 .. Len(t) : 0 + k = k
    OBVIOUS
  <2> QED  BY <2>2, <2>3, <2>4
<1> QED  BY <1>2, TextsEqual

Blanks(u) == \A k \in 1 .. Len(u) : u[k] \in Blank

\* Stripping leaves no more than there was, and nothing only of blanks.
LEMMA StripIs ==
  ASSUME NEW u \in Text
  PROVE  /\ Strip(u) \in Text /\ Len(Strip(u)) <= Len(u)
         /\ Strip(u) = <<>> <=> Blanks(u)
<1> DEFINE solid == {i \in DOMAIN u : u[i] \notin Blank}
<1>1. u \in Seq(Letter) /\ Len(u) \in Nat /\ DOMAIN u = 1 .. Len(u)
  BY DEF Text
<1>2. CASE solid = {}
  <2>1. Strip(u) = <<>>
    BY <1>2 DEF Strip
  <2>2. Blanks(u)
    BY <1>1, <1>2 DEF Blanks
  <2>3. <<>> \in Text /\ Len(<<>>) = 0
    BY DEF Text
  <2> QED  BY <1>1, <2>1, <2>2, <2>3
<1>3. CASE solid # {}
  <2> DEFINE low == Min(solid)
             high == Max(solid)
  <2>1. solid \in SUBSET Nat /\ solid \in SUBSET (1 .. Len(u)) /\ 1 \in Int /\ Len(u) \in Int
    BY <1>1
  <2>2. low \in solid /\ \A x \in solid : low <= x
    <3> HIDE DEF solid
    <3> QED  BY <1>3, <2>1, MinIsLeast
  <2>3. high \in solid /\ \A x \in solid : x <= high
    <3> HIDE DEF solid
    <3> QED  BY <1>3, <2>1, MaxIsGreatest
  <2>4. Strip(u) = SubSeq(u, low, high)
    BY <1>3, Zenon DEF Strip
  <2>5. low \in 1 .. Len(u) /\ high \in 1 .. Len(u) /\ low <= high /\ u[low] \notin Blank
    BY <1>1, <2>2, <2>3
  <2> HIDE DEF low, high, solid
  <2>6. SubSeq(u, low, high) \in Seq(Letter) /\ Len(SubSeq(u, low, high)) = high - low + 1
    BY <1>1, <2>5
  <2>7. high - low + 1 <= Len(u) /\ high - low + 1 # 0
    BY <1>1, <2>5
  <2>8. Strip(u) # <<>>
    <3>1. Len(<<>>) = 0
      OBVIOUS
    <3> QED  BY <2>4, <2>6, <2>7, <3>1, Zenon
  <2>9. ~Blanks(u)
    BY <2>5 DEF Blanks
  <2> QED  BY <2>4, <2>6, <2>7, <2>8, <2>9 DEF Text
<1> QED  BY <1>2, <1>3

\* Blanks in front are stripped.
LEMMA StripFront ==
  ASSUME NEW u \in Text, NEW v \in Text, Blanks(u)
  PROVE  Len(Strip(u \o v)) <= Len(v)
<1> DEFINE w == u \o v
           solid == {i \in DOMAIN w : w[i] \notin Blank}
<1>1. /\ w \in Text /\ Len(w) = Len(u) + Len(v) /\ Len(u) \in Nat /\ Len(v) \in Nat
      /\ \A k \in 1 .. Len(u) : w[k] = u[k]
  BY ConcatIs
<1> HIDE DEF w
<1>2. w \in Seq(Letter) /\ DOMAIN w = 1 .. Len(w) /\ Len(w) \in Nat
  BY <1>1 DEF Text
<1>3. CASE solid = {}
  <2>1. Strip(w) = <<>>
    BY <1>3 DEF Strip
  <2> QED  BY <1>1, <2>1 DEF w
<1>4. CASE solid # {}
  <2> DEFINE low == Min(solid)
             high == Max(solid)
  <2>1. solid \in SUBSET Nat /\ solid \in SUBSET (1 .. Len(w)) /\ 1 \in Int /\ Len(w) \in Int
    BY <1>2
  <2>2. low \in solid /\ high \in solid
    <3> HIDE DEF solid
    <3> QED  BY <1>4, <2>1, MinIsLeast, MaxIsGreatest
  <2>3. Strip(w) = SubSeq(w, low, high)
    BY <1>4, Zenon DEF Strip
  <2>4. low \in 1 .. Len(w) /\ high \in 1 .. Len(w) /\ w[low] \notin Blank
    BY <1>2, <2>2
  <2>5. low > Len(u)
    BY <1>1, <2>4 DEF Blanks
  <2> HIDE DEF low, high, solid
  <2>6. Len(SubSeq(w, low, high)) <= Len(v)
    <3>1. CASE low <= high
      <4>1. Len(SubSeq(w, low, high)) = high - low + 1
        BY <1>2, <2>4, <3>1
      <4> QED  BY <1>1, <2>4, <2>5, <4>1
    <3>2. CASE low > high
      <4>1. SubSeq(w, low, high) = <<>>
        BY <1>2, <2>4, <3>2
      <4> QED  BY <1>1, <4>1
    <3> QED  BY <2>4, <3>1, <3>2
  <2> QED  BY <2>3, <2>6 DEF w
<1> QED  BY <1>3, <1>4

\* What is left of a list of which each place holds one thing or nothing: where each
\* thing left comes from.
Gathers(at, seqs) ==
  /\ at \in [1 .. Len(FlattenSeq(seqs)) -> 1 .. Len(seqs)]
  /\ \A i \in 1 .. Len(FlattenSeq(seqs)) : seqs[at[i]] = <<FlattenSeq(seqs)[i]>>
  /\ \A i, j \in 1 .. Len(FlattenSeq(seqs)) : i < j => at[i] < at[j]
  /\ \A n \in 1 .. Len(seqs) : seqs[n] # <<>> => \E i \in 1 .. Len(FlattenSeq(seqs)) : at[i] = n

\* One place more.
LEMMA GathersMore ==
  ASSUME NEW X, NEW seqs \in Seq(Seq(X)), NEW u \in Seq(X), Len(u) <= 1, NEW at, Gathers(at, seqs)
  PROVE  \E other : Gathers(other, Append(seqs, u))
<1> DEFINE more == Append(seqs, u)
           F == FlattenSeq(seqs)
           G == FlattenSeq(more)
           L == Len(seqs)
           m == Len(F)
<1>1. /\ more \in Seq(Seq(X)) /\ Len(more) = L + 1 /\ more[L + 1] = u /\ L \in Nat
      /\ \A i \in 1 .. L : more[i] = seqs[i]
  BY AppendElements
<1>2. F \in Seq(X) /\ m \in Nat
  BY FlattenSeqProperties
<1>3. G = F \o u
  BY FlattenSeqAppend
<1>4. /\ at \in [1 .. m -> 1 .. L] /\ \A i \in 1 .. m : seqs[at[i]] = <<F[i]>>
      /\ \A i, j \in 1 .. m : i < j => at[i] < at[j]
      /\ \A n \in 1 .. L : seqs[n] # <<>> => \E i \in 1 .. m : at[i] = n
  BY DEF Gathers
<1> HIDE DEF more, F, G, L, m
<1>5. CASE Len(u) = 0
  <2>1. u = <<>> /\ G = F
    BY <1>2, <1>3, <1>5
  <2>2. Len(G) = m
    BY <2>1 DEF m
  <2>3. at \in [1 .. m -> 1 .. Len(more)]
    BY <1>1, <1>4
  <2>4. \A i \in 1 .. m : more[at[i]] = <<G[i]>>
    BY <1>1, <1>4, <2>1
  <2>5. \A n \in 1 .. Len(more) : more[n] # <<>> => \E i \in 1 .. m : at[i] = n
    <3>1. \A n \in 1 .. Len(more) : n \in 1 .. L \/ n = L + 1
      BY <1>1
    <3> QED  BY <1>1, <1>4, <2>1, <3>1
  <2>6. Gathers(at, more)
    BY <1>4, <2>2, <2>3, <2>4, <2>5 DEF Gathers, G
  <2> QED  BY <2>6 DEF more
<1>6. CASE Len(u) = 1
  <2>1. u = <<u[1]>> /\ u[1] \in X
    BY <1>6
  <2>2. /\ G \in Seq(X) /\ Len(G) = m + 1 /\ G[m + 1] = u[1]
        /\ \A i \in 1 .. m : G[i] = F[i]
    <3>1. G = Append(F, u[1])
      <4>1. \A v \in Seq(X) : \A x \in X : v \o <<x>> = Append(v, x)
        OBVIOUS
      <4> QED  BY <1>2, <1>3, <2>1, <4>1, Zenon
    <3> QED  BY <1>2, <2>1, <3>1, AppendElements DEF m
  <2> DEFINE to == [i \in 1 .. m + 1 |-> IF i = m + 1 THEN L + 1 ELSE at[i]]
  <2>3. \A i \in 1 .. m + 1 : i \in 1 .. m \/ i = m + 1
    BY <1>2
  <2>4. \A i \in 1 .. m : i \in 1 .. m + 1 /\ i # m + 1
    BY <1>2
  <2>5. to[m + 1] = L + 1 /\ \A i \in 1 .. m : to[i] = at[i] /\ at[i] \in 1 .. L
    BY <1>2, <1>4, <2>4
  <2>6. to \in [1 .. m + 1 -> 1 .. L + 1]
    <3>1. \A i \in 1 .. m : at[i] \in 1 .. L + 1
      BY <1>1, <1>4
    <3>2. L + 1 \in 1 .. L + 1
      BY <1>1
    <3> QED  BY <2>3, <3>1, <3>2
  <2> HIDE DEF to
  <2>7. \A i \in 1 .. m + 1 : more[to[i]] = <<G[i]>>
    <3> SUFFICES ASSUME NEW i \in 1 .. m + 1
                 PROVE  more[to[i]] = <<G[i]>>
      OBVIOUS
    <3>1. CASE i = m + 1
      BY <1>1, <2>1, <2>2, <2>5, <3>1, Zenon
    <3>2. CASE i \in 1 .. m
      <4>1. to[i] = at[i] /\ at[i] \in 1 .. L /\ G[i] = F[i] /\ seqs[at[i]] = <<F[i]>>
        BY <1>4, <2>2, <2>5, <3>2, Zenon
      <4> QED  BY <1>1, <4>1, Zenon
    <3> QED  BY <2>3, <3>1, <3>2
  <2>8. \A i, j \in 1 .. m + 1 : i < j => to[i] < to[j]
    <3> SUFFICES ASSUME NEW i \in 1 .. m + 1, NEW j \in 1 .. m + 1, i < j
                 PROVE  to[i] < to[j]
      OBVIOUS
    <3>1. i \in 1 .. m
      BY <1>2
    <3>2. CASE j = m + 1
      <4>1. L \in Nat /\ to[j] = L + 1 /\ to[i] \in 1 .. L
        BY <1>1, <2>5, <3>1, <3>2, Zenon
      <4> QED  BY <4>1
    <3>3. CASE j \in 1 .. m
      BY <1>4, <2>5, <3>1, <3>3
    <3> QED  BY <2>3, <3>2, <3>3
  <2>9. \A n \in 1 .. L + 1 : more[n] # <<>> => \E i \in 1 .. m + 1 : to[i] = n
    <3>1. \A n \in 1 .. L + 1 : n \in 1 .. L \/ n = L + 1
      BY <1>1
    <3>2. m + 1 \in 1 .. m + 1
      BY <1>2
    <3> QED  BY <1>1, <1>4, <2>4, <2>5, <3>1, <3>2
  <2>10. Gathers(to, more)
    BY <1>1, <2>2, <2>6, <2>7, <2>8, <2>9 DEF Gathers, G
  <2> QED  BY <2>10 DEF more
<1>7. Len(u) \in Nat
  OBVIOUS
<1>8. Len(u) = 0 \/ Len(u) = 1
  <2>1. \A n \in Nat : n <= 1 => n = 0 \/ n = 1
    OBVIOUS
  <2> QED  BY <1>7, <2>1, Zenon
<1> QED  BY <1>5, <1>6, <1>8, Zenon

\* There is always such an account.
LEMMA GathersOne ==
  ASSUME NEW X, NEW seqs \in Seq(Seq(X)), \A i \in 1 .. Len(seqs) : Len(seqs[i]) <= 1
  PROVE  FlattenSeq(seqs) \in Seq(X) /\ \E at : Gathers(at, seqs)
<1> DEFINE Single(s) == \A i \in 1 .. Len(s) : Len(s[i]) <= 1
           S == {s \in Seq(Seq(X)) : Single(s) => \E at : Gathers(at, s)}
<1>1. <<>> \in S
  <2>1. <<>> \in Seq(Seq(X)) /\ FlattenSeq(<<>>) = <<>> /\ Len(<<>>) = 0 /\ 1 .. 0 = {}
    BY DEF FlattenSeq
  <2>2. [i \in {} |-> 0] \in [{} -> {}]
    OBVIOUS
  <2>3. Gathers([i \in {} |-> 0], <<>>)
    BY <2>1, <2>2 DEF Gathers
  <2> QED  BY <2>1, <2>3
<1>2. ASSUME NEW s \in Seq(Seq(X)), NEW u \in Seq(X), s \in S
      PROVE  Append(s, u) \in S
  <2> DEFINE more == Append(s, u)
  <2>1. /\ more \in Seq(Seq(X)) /\ Len(more) = Len(s) + 1 /\ more[Len(s) + 1] = u /\ Len(s) \in Nat
        /\ \A i \in 1 .. Len(s) : more[i] = s[i]
    BY AppendElements
  <2> HIDE DEF more
  <2>2. ASSUME Single(more)
        PROVE  \E at : Gathers(at, more)
    <3>1. \A i \in 1 .. Len(s) : i \in 1 .. Len(more)
      BY <2>1
    <3>2. Len(s) + 1 \in 1 .. Len(more)
      BY <2>1
    <3>3. Single(s) /\ Len(u) <= 1
      BY <2>1, <2>2, <3>1, <3>2
    <3>4. PICK at : Gathers(at, s)
      BY <1>2, <3>3
    <3> QED  BY <3>3, <3>4, GathersMore DEF more
  <2>3. more \in S
    BY <2>1, <2>2
  <2> QED  BY <2>3 DEF more
<1>3. Seq(Seq(X)) \subseteq S
  <2> HIDE DEF S
  <2> QED  BY <1>1, <1>2, SeqInduction
<1>4. \E at : Gathers(at, seqs)
  BY <1>3
<1> QED  BY <1>4, FlattenSeqProperties

PieceOf == [text : Text, start : Nat]
ChunkOf == [text : Text, start : Nat, end : Nat]

\* A piece is what stands in a text at its place.
Stands(p, t) ==
  p \in PieceOf /\ p.start + Len(p.text) <= Len(t) /\ p.text = Slice(t, p.start, p.start + Len(p.text))

\* What is kept of a piece.
LEMMA KeptIs ==
  ASSUME NEW p \in PieceOf
  PROVE  /\ Kept(p) \in Seq(ChunkOf) /\ Len(Kept(p)) <= 1
         /\ Kept(p) = <<>> <=> Blanks(p.text)
         /\ \A c : Kept(p) = <<c>> => c = [text |-> Strip(p.text), start |-> p.start, end |-> p.start + Len(p.text)]
<1> DEFINE k == [text |-> Strip(p.text), start |-> p.start, end |-> p.start + Len(p.text)]
<1>1. p.text \in Text /\ p.start \in Nat /\ Len(p.text) \in Nat
  BY DEF PieceOf, Text
<1>2. Strip(p.text) \in Text /\ (Strip(p.text) = <<>> <=> Blanks(p.text))
  BY <1>1, StripIs
<1>3. k \in ChunkOf
  <2>1. p.start + Len(p.text) \in Nat
    BY <1>1
  <2> QED  BY <1>1, <1>2, <2>1 DEF ChunkOf
<1>4. Kept(p) = IF Strip(p.text) = <<>> THEN <<>> ELSE <<k>>
  BY DEF Kept
<1> HIDE DEF k
<1>5. <<k>> \in Seq(ChunkOf) /\ Len(<<k>>) = 1 /\ <<k>> # <<>> /\ <<>> \in Seq(ChunkOf) /\ Len(<<>>) = 0
  BY <1>3
<1>6. \A c : (<<k>> = <<c>> => c = k) /\ <<>> # <<c>>
  OBVIOUS
<1>7. Kept(p) \in Seq(ChunkOf) /\ Len(Kept(p)) <= 1 /\ (Kept(p) = <<>> <=> Blanks(p.text))
  <2>1. CASE Strip(p.text) = <<>>
    BY <1>2, <1>4, <1>5, <2>1
  <2>2. CASE Strip(p.text) # <<>>
    <3>1. Kept(p) = <<k>>
      BY <1>4, <2>2
    <3> QED  BY <1>2, <1>5, <2>2, <3>1
  <2> QED  BY <2>1, <2>2
<1>8. \A c : Kept(p) = <<c>> => c = k
  BY <1>4, <1>6, Zenon
<1> QED  BY <1>7, <1>8 DEF k

\* The chunk at each place, and the piece it comes from.
FinalizedFrom(at, made, pieces) ==
  /\ at \in [1 .. Len(made) -> 1 .. Len(pieces)]
  /\ \A i \in 1 .. Len(made) :
       /\ ~Blanks(pieces[at[i]].text)
       /\ made[i] = [text |-> Strip(pieces[at[i]].text), start |-> pieces[at[i]].start,
                       end |-> pieces[at[i]].start + Len(pieces[at[i]].text)]
  /\ \A i, j \in 1 .. Len(made) : i < j => at[i] < at[j]
  /\ \A n \in 1 .. Len(pieces) : ~Blanks(pieces[n].text) => \E i \in 1 .. Len(made) : at[i] = n

LEMMA FinalizeIs ==
  ASSUME NEW pieces \in Seq(PieceOf)
  PROVE  Finalize(pieces) \in Seq(ChunkOf) /\ \E at : FinalizedFrom(at, Finalize(pieces), pieces)
<1> DEFINE seqs == [i \in DOMAIN pieces |-> Kept(pieces[i])]
           made == Finalize(pieces)
<1>1. DOMAIN pieces = 1 .. Len(pieces) /\ Len(pieces) \in Nat /\ \A i \in 1 .. Len(pieces) : pieces[i] \in PieceOf
  OBVIOUS
<1>2. \A i \in 1 .. Len(pieces) : seqs[i] = Kept(pieces[i])
  BY <1>1
<1>3. \A i \in 1 .. Len(pieces) : Kept(pieces[i]) \in Seq(ChunkOf) /\ Len(Kept(pieces[i])) <= 1
  BY <1>1, KeptIs
<1>4. seqs \in Seq(Seq(ChunkOf)) /\ Len(seqs) = Len(pieces)
  BY <1>1, <1>3
<1>5. made = FlattenSeq(seqs)
  BY DEF Finalize
<1> HIDE DEF seqs, made
<1>6. \A i \in 1 .. Len(seqs) : Len(seqs[i]) <= 1
  BY <1>2, <1>3, <1>4
<1>7. made \in Seq(ChunkOf) /\ \E at : Gathers(at, seqs)
  BY <1>4, <1>5, <1>6, GathersOne
<1>8. PICK at : Gathers(at, seqs)
  BY <1>7
<1>9. /\ at \in [1 .. Len(made) -> 1 .. Len(pieces)]
      /\ \A i \in 1 .. Len(made) : seqs[at[i]] = <<made[i]>>
      /\ \A i, j \in 1 .. Len(made) : i < j => at[i] < at[j]
      /\ \A n \in 1 .. Len(pieces) : seqs[n] # <<>> => \E i \in 1 .. Len(made) : at[i] = n
  BY <1>4, <1>5, <1>8 DEF Gathers
<1>10. ASSUME NEW i \in 1 .. Len(made)
       PROVE  /\ ~Blanks(pieces[at[i]].text)
              /\ made[i] = [text |-> Strip(pieces[at[i]].text), start |-> pieces[at[i]].start,
                              end |-> pieces[at[i]].start + Len(pieces[at[i]].text)]
  <2>1. at[i] \in 1 .. Len(pieces)
    BY <1>9
  <2>2. pieces[at[i]] \in PieceOf /\ Kept(pieces[at[i]]) = <<made[i]>>
    BY <1>1, <1>2, <1>9, <2>1, Zenon
  <2>3. <<made[i]>> # <<>>
    OBVIOUS
  <2> QED  BY <2>2, <2>3, KeptIs, Zenon
<1>11. ASSUME NEW n \in 1 .. Len(pieces), ~Blanks(pieces[n].text)
       PROVE  \E i \in 1 .. Len(made) : at[i] = n
  <2>1. Kept(pieces[n]) # <<>>
    BY <1>1, <1>11, KeptIs
  <2> QED  BY <1>2, <1>9, <2>1
<1>12. FinalizedFrom(at, made, pieces)
  BY <1>9, <1>10, <1>11 DEF FinalizedFrom
<1> QED  BY <1>7, <1>12 DEF made

\* Every letter that is not blank is in a piece that stands in the text.
Covers(pieces, t) ==
  \A k \in 1 .. Len(t) : t[k] \notin Blank =>
    \E n \in 1 .. Len(pieces) : pieces[n].start < k /\ k <= pieces[n].start + Len(pieces[n].text)

\* Pieces that stand in the text and cover it make chunks that trace it.
LEMMA PiecesTrace ==
  ASSUME text \in Text, NEW pieces \in Seq(PieceOf),
         \A n \in 1 .. Len(pieces) : Stands(pieces[n], text), Covers(pieces, text)
  PROVE  Traces(Finalize(pieces))
<1> DEFINE made == Finalize(pieces)
<1>1. PICK at : FinalizedFrom(at, made, pieces)
  BY FinalizeIs
<1>2. made \in Seq(ChunkOf)
  BY FinalizeIs
<1> HIDE DEF made
<1>3. DOMAIN made = 1 .. Len(made) /\ DOMAIN text = 1 .. Len(text)
  BY <1>2 DEF Text
<1>4. at \in [1 .. Len(made) -> 1 .. Len(pieces)]
  BY <1>1 DEF FinalizedFrom
<1>5. \A i \in 1 .. Len(made) :
        /\ made[i].text = Strip(pieces[at[i]].text) /\ made[i].start = pieces[at[i]].start
        /\ made[i].end = pieces[at[i]].start + Len(pieces[at[i]].text)
  <2> SUFFICES ASSUME NEW i \in 1 .. Len(made)
               PROVE  /\ made[i].text = Strip(pieces[at[i]].text) /\ made[i].start = pieces[at[i]].start
                      /\ made[i].end = pieces[at[i]].start + Len(pieces[at[i]].text)
    OBVIOUS
  <2> DEFINE p == pieces[at[i]]
  <2>1. made[i] = [text |-> Strip(p.text), start |-> p.start, end |-> p.start + Len(p.text)]
    BY <1>1, Zenon DEF FinalizedFrom
  <2> HIDE DEF p
  <2>2. made[i].text = Strip(p.text) /\ made[i].start = p.start /\ made[i].end = p.start + Len(p.text)
    BY <2>1
  <2> QED  BY <2>2 DEF p
<1>6. ASSUME NEW i \in DOMAIN made
      PROVE  /\ made[i].end <= Len(text)
             /\ made[i].text = Strip(Slice(text, made[i].start, made[i].end))
  <2>1. Stands(pieces[at[i]], text)
    BY <1>3, <1>4
  <2> QED  BY <1>3, <1>5, <2>1 DEF Stands
<1>7. ASSUME NEW k \in DOMAIN text, text[k] \notin Blank
      PROVE  \E i \in DOMAIN made : made[i].start < k /\ k <= made[i].end
  <2>1. PICK n \in 1 .. Len(pieces) : pieces[n].start < k /\ k <= pieces[n].start + Len(pieces[n].text)
    BY <1>3, <1>7 DEF Covers
  <2>2. ~Blanks(pieces[n].text)
    <3> DEFINE p == pieces[n]
    <3>1. Stands(p, text) /\ p.start < k /\ k <= p.start + Len(p.text)
      BY <2>1
    <3> HIDE DEF p
    <3>2. /\ p.start \in Nat /\ p.text \in Text /\ Len(p.text) \in Nat /\ Len(text) \in Nat
          /\ p.start + Len(p.text) <= Len(text)
      BY <3>1 DEF Stands, PieceOf, Text
    <3>3. p.text = Slice(text, p.start, p.start + Len(p.text))
      BY <3>1 DEF Stands
    <3> DEFINE e == p.start + Len(p.text)
    <3>4. e \in Nat /\ p.start <= e /\ e <= Len(text) /\ e - p.start = Len(p.text)
      BY <3>2
    <3>5. \A j \in 1 .. e - p.start : Slice(text, p.start, e)[j] = text[p.start + j]
      <4> HIDE DEF e
      <4> QED  BY <3>2, <3>4, SliceIs
    <3>6. k - p.start \in 1 .. Len(p.text) /\ p.start + (k - p.start) = k
      <4>1. k \in 1 .. Len(text)
        BY <1>3
      <4> QED  BY <3>1, <3>2, <4>1
    <3>7. p.text[k - p.start] = text[k]
      BY <3>3, <3>4, <3>5, <3>6
    <3>8. ~Blanks(p.text)
      BY <1>7, <3>6, <3>7 DEF Blanks
    <3> QED  BY <3>8 DEF p
  <2>3. PICK i \in 1 .. Len(made) : at[i] = n
    BY <1>1, <2>2 DEF FinalizedFrom
  <2> QED  BY <1>3, <1>5, <2>1, <2>3
<1>8. Traces(made)
  BY <1>6, <1>7 DEF Traces
<1> QED  BY <1>8 DEF made

-----------------------------------------------------------------------------
(* The windows of the fixed chunker.                                       *)

LEMMA DivIs ==
  ASSUME NEW a \in Nat, NEW s \in Nat \ {0}
  PROVE  a \div s \in Nat /\ (a \div s) * s <= a /\ a < (a \div s) * s + s
OBVIOUS

LEMMA TimesGrows ==
  ASSUME NEW a \in Nat, NEW b \in Nat, NEW s \in Nat, a <= b
  PROVE  a * s <= b * s
OBVIOUS

LEMMA TimesNext ==
  ASSUME NEW a \in Int, NEW s \in Nat
  PROVE  (a + 1) * s = a * s + s /\ a * s \in Int
OBVIOUS

\* Consecutive steps, as many as the length takes: each begins within the length, and
\* each position is in one.
LEMMA StepsCover ==
  ASSUME NEW L \in Nat, NEW s \in Nat \ {0}, NEW n, n = (L + s - 1) \div s
  PROVE  /\ n \in Nat
         /\ \A i \in 1 .. n : (i - 1) * s \in Nat /\ (i - 1) * s < L
         /\ \A k \in 1 .. L : \E i \in 1 .. n : (i - 1) * s < k /\ k <= (i - 1) * s + s
<1>1. L + s - 1 \in Nat
  OBVIOUS
<1>2. n \in Nat /\ n * s <= L + s - 1 /\ L + s - 1 < n * s + s
  BY <1>1, DivIs
<1>3. n * s \in Int
  BY <1>2
<1>4. ASSUME NEW i \in 1 .. n
      PROVE  (i - 1) * s \in Nat /\ (i - 1) * s < L
  <2>1. i - 1 \in Nat /\ n - 1 \in Nat /\ i - 1 <= n - 1 /\ s \in Nat /\ (n - 1) + 1 = n
    BY <1>2
  <2>2. (i - 1) * s <= (n - 1) * s
    BY <2>1, TimesGrows
  <2>3. ((n - 1) + 1) * s = (n - 1) * s + s /\ (n - 1) * s \in Int
    BY <2>1, TimesNext
  <2>4. (i - 1) * s \in Nat
    BY <2>1
  <2> DEFINE x == (i - 1) * s
             y == (n - 1) * s
             z == n * s
  <2>5. x <= y /\ z = y + s /\ x \in Nat /\ y \in Int /\ z <= L + s - 1
    BY <1>2, <2>1, <2>2, <2>3, <2>4
  <2> HIDE DEF x, y, z
  <2>6. x < L
    BY <2>5
  <2> QED  BY <2>5, <2>6 DEF x
<1>5. ASSUME NEW k \in 1 .. L
      PROVE  \E i \in 1 .. n : (i - 1) * s < k /\ k <= (i - 1) * s + s
  <2> DEFINE q == (k - 1) \div s
  <2>1. q \in Nat /\ q * s <= k - 1 /\ k - 1 < q * s + s
    <3>1. k - 1 \in Nat
      OBVIOUS
    <3> QED  BY <3>1, DivIs
  <2> HIDE DEF q
  <2>2. q < n
    <3> SUFFICES ASSUME n <= q
                 PROVE  FALSE
      BY <1>2, <2>1
    <3>1. n * s <= q * s
      BY <1>2, <2>1, TimesGrows
    <3> DEFINE x == q * s
               z == n * s
    <3>2. x \in Int /\ z \in Int /\ z <= x /\ x <= k - 1 /\ L + s - 1 < z + s
      BY <1>2, <1>3, <2>1, <3>1
    <3> HIDE DEF x, z
    <3> QED  BY <3>2
  <2>3. q + 1 \in 1 .. n /\ (q + 1) - 1 = q
    BY <1>2, <2>1, <2>2
  <2>4. ((q + 1) - 1) * s < k /\ k <= ((q + 1) - 1) * s + s
    <3> DEFINE x == q * s
    <3>1. x \in Int /\ x <= k - 1 /\ k - 1 < x + s
      BY <2>1
    <3> HIDE DEF x
    <3>2. x < k /\ k <= x + s
      BY <3>1
    <3> QED  BY <2>3, <3>2 DEF x
  <2> QED  BY <2>3, <2>4
<1> QED  BY <1>2, <1>4, <1>5

Step == ChunkSize - Overlap

LEMMA SizesTyped == ChunkSize \in Nat \ {0} /\ Overlap \in Nat /\ Step \in Nat \ {0} /\ Step <= ChunkSize
BY ChunkingAssumption DEF Step

\* Each window stands in the text; where it begins and ends.
LEMMA WindowsAre ==
  ASSUME NEW t \in Text
  PROVE  /\ Windows(t) \in Seq(PieceOf)
         /\ \A i \in 1 .. Len(Windows(t)) :
              LET p == Windows(t)[i]
              IN  /\ Stands(p, t) /\ p.start = (i - 1) * Step /\ (i - 1) * Step \in Nat
                  /\ (i - 1) * Step < Len(t) /\ Len(p.text) <= ChunkSize
                  /\ p.start + Len(p.text) =
                       IF (i - 1) * Step + ChunkSize <= Len(t) THEN (i - 1) * Step + ChunkSize ELSE Len(t)
         /\ \A k \in 1 .. Len(t) : \E i \in 1 .. Len(Windows(t)) :
              (i - 1) * Step < k /\ k <= (i - 1) * Step + Step
<1> DEFINE L == Len(t)
           n == (L + Step - 1) \div Step
           W(i) == Piece(Slice(t, (i - 1) * Step, (i - 1) * Step + ChunkSize), (i - 1) * Step)
           w == Windows(t)
<1>1. L \in Nat
  BY DEF Text
<1>2. /\ n \in Nat
      /\ \A i \in 1 .. n : (i - 1) * Step \in Nat /\ (i - 1) * Step < L
      /\ \A k \in 1 .. L : \E i \in 1 .. n : (i - 1) * Step < k /\ k <= (i - 1) * Step + Step
  <2> DEFINE m == n
  <2>1. m = (L + Step - 1) \div Step
    OBVIOUS
  <2> HIDE DEF m, L
  <2>2. /\ m \in Nat
        /\ \A i \in 1 .. m : (i - 1) * Step \in Nat /\ (i - 1) * Step < L
        /\ \A k \in 1 .. L : \E i \in 1 .. m : (i - 1) * Step < k /\ k <= (i - 1) * Step + Step
    BY <1>1, <2>1, SizesTyped, StepsCover
  <2> QED  BY <2>2 DEF m
<1>3. w = [i \in 1 .. n |-> W(i)]
  BY Zenon DEF Windows, Step
<1> HIDE DEF n
<1>4. ASSUME NEW i \in 1 .. n
      PROVE  LET p == W(i)
             IN  /\ p \in PieceOf
                 /\ Stands(p, t) /\ p.start = (i - 1) * Step /\ (i - 1) * Step \in Nat
                 /\ (i - 1) * Step < Len(t) /\ Len(p.text) <= ChunkSize
                 /\ p.start + Len(p.text) =
                      IF (i - 1) * Step + ChunkSize <= Len(t) THEN (i - 1) * Step + ChunkSize ELSE Len(t)
  <2> DEFINE a == (i - 1) * Step
             b == a + ChunkSize
             e == IF b <= L THEN b ELSE L
  <2>1. a \in Nat /\ a < L
    BY <1>2
  <2> HIDE DEF a
  <2>2. b \in Nat /\ e \in Nat /\ a <= e /\ e <= L /\ e - a <= ChunkSize /\ a + (e - a) = e
    BY <1>1, <2>1, SizesTyped
  <2>3. Slice(t, a, b) = Slice(t, a, e)
    <3>1. CASE b <= L
      BY <3>1
    <3>2. CASE ~(b <= L)
      <4>1. L <= b /\ e = L
        BY <1>1, <2>2, <3>2
      <4> HIDE DEF b, e
      <4>2. Slice(t, a, b) = Slice(t, a, L)
        BY <2>1, <2>2, <4>1, SliceStops
      <4> QED  BY <4>1, <4>2
    <3> QED  BY <3>1, <3>2
  <2> HIDE DEF b, e, L
  <2>4. Slice(t, a, e) \in Text /\ Len(Slice(t, a, e)) = e - a
    BY <1>1, <2>1, <2>2, SliceIs DEF L
  <2> DEFINE u == Slice(t, a, e)
             p == Piece(u, a)
  <2>5. p.text = u /\ p.start = a /\ p \in PieceOf
    BY <2>1, <2>4 DEF Piece, PieceOf
  <2>6. W(i) = p
    BY <2>3 DEF a, b
  <2> HIDE DEF W, p, u
  <2>7. p.start + Len(p.text) = e /\ Len(p.text) <= ChunkSize
    BY <2>2, <2>4, <2>5 DEF u
  <2>8. Stands(p, t)
    BY <2>2, <2>5, <2>7 DEF Stands, u, L
  <2> QED  BY <2>1, <2>5, <2>6, <2>7, <2>8 DEF a, b, e, L
<1> HIDE DEF W
<1>5. w \in Seq(PieceOf) /\ Len(w) = n /\ \A i \in 1 .. n : w[i] = W(i)
  <2>1. \A i \in 1 .. n : W(i) \in PieceOf
    BY <1>4
  <2> QED  BY <1>2, <1>3, <2>1
<1> QED  BY <1>2, <1>4, <1>5, Zenon DEF L, w

\* What the fixed chunker finalizes: the windows, or all but the last.
LEMMA FixedIs ==
  ASSUME NEW t \in Text
  PROVE  \E n \in Nat :
           /\ n <= Len(Windows(t))
           /\ Fixed(t) = Finalize(SubSeq(Windows(t), 1, n))
           /\ \/ /\ n = Len(Windows(t))
                 /\ n > 1 => Windows(t)[n].start + Len(Windows(t)[n].text) > Windows(t)[n - 1].start + ChunkSize
              \/ /\ n = Len(Windows(t)) - 1 /\ n > 0
                 /\ Windows(t)[n + 1].start + Len(Windows(t)[n + 1].text) <= Windows(t)[n].start + ChunkSize
<1> DEFINE w == Windows(t)
           m == Len(w)
           Inside == m > 1 /\ Last(w).start + Len(Last(w).text) <= w[m - 1].start + ChunkSize
<1>1. w \in Seq(PieceOf) /\ m \in Nat
  BY WindowsAre
<1>2. Fixed(t) = Finalize(IF Inside THEN Front(w) ELSE w)
  BY Zenon DEF Fixed
<1>3. Last(w) = w[m]
  BY DEF Last
<1>4. SubSeq(w, 1, m) = w
  BY <1>1
<1>5. Front(w) = SubSeq(w, 1, m - 1)
  BY Zenon DEF Front
<1> HIDE DEF w, m
<1>6. \A i \in 1 .. m : w[i].start + Len(w[i].text) \in Int /\ w[i].start + ChunkSize \in Int
  <2> SUFFICES ASSUME NEW i \in 1 .. m
               PROVE  w[i].start + Len(w[i].text) \in Int /\ w[i].start + ChunkSize \in Int
    OBVIOUS
  <2> DEFINE p == w[i]
  <2>1. p \in PieceOf
    BY <1>1 DEF m
  <2> HIDE DEF p
  <2>2. p.start \in Nat /\ Len(p.text) \in Nat
    BY <2>1 DEF PieceOf, Text
  <2>3. p.start + Len(p.text) \in Int /\ p.start + ChunkSize \in Int
    BY <2>2, SizesTyped
  <2> QED  BY <2>3 DEF p
<1>7. CASE Inside
  <2>1. m - 1 \in Nat /\ m - 1 <= m /\ m - 1 > 0 /\ (m - 1) + 1 = m
    BY <1>1, <1>7
  <2>2. Fixed(t) = Finalize(SubSeq(w, 1, m - 1))
    BY <1>2, <1>5, <1>7
  <2>3. w[(m - 1) + 1].start + Len(w[(m - 1) + 1].text) <= w[m - 1].start + ChunkSize
    BY <1>3, <1>7, <2>1
  <2> QED  BY <2>1, <2>2, <2>3 DEF m, w
<1>8. CASE ~Inside
  <2>1. Fixed(t) = Finalize(SubSeq(w, 1, m))
    BY <1>2, <1>4, <1>8
  <2>2. m > 1 => w[m].start + Len(w[m].text) > w[m - 1].start + ChunkSize
    <3> SUFFICES ASSUME m > 1
                 PROVE  w[m].start + Len(w[m].text) > w[m - 1].start + ChunkSize
      OBVIOUS
    <3> DEFINE x == w[m].start + Len(w[m].text)
               y == w[m - 1].start + ChunkSize
    <3>1. m \in 1 .. m /\ m - 1 \in 1 .. m
      BY <1>1
    <3>2. x \in Int /\ y \in Int
      BY <1>6, <3>1
    <3>3. ~(x <= y)
      BY <1>3, <1>8
    <3> HIDE DEF x, y
    <3>4. x > y
      BY <3>2, <3>3
    <3> QED  BY <3>4 DEF x, y
  <2>3. m \in Nat /\ m <= m
    BY <1>1
  <2> QED  BY <2>1, <2>2, <2>3 DEF m, w
<1> QED  BY <1>7, <1>8

\* A window dropped is within the one before it, and so nothing is lost.
LEMMA FixedTraces ==
  ASSUME text \in Text
  PROVE  Traces(Fixed(text))
<1> DEFINE w == Windows(text)
           m == Len(w)
           L == Len(text)
           Begin(i) == (i - 1) * Step
<1>1. /\ w \in Seq(PieceOf)
      /\ \A i \in 1 .. m :
           /\ Stands(w[i], text) /\ w[i].start = Begin(i) /\ Begin(i) \in Nat /\ Begin(i) < L
           /\ w[i].start + Len(w[i].text) = IF Begin(i) + ChunkSize <= L THEN Begin(i) + ChunkSize ELSE L
      /\ \A k \in 1 .. L : \E i \in 1 .. m : Begin(i) < k /\ k <= Begin(i) + Step
  BY WindowsAre
<1>2. PICK n \in Nat :
        /\ n <= m /\ Fixed(text) = Finalize(SubSeq(w, 1, n))
        /\ \/ n = m
           \/ /\ n = m - 1 /\ n > 0
              /\ w[n + 1].start + Len(w[n + 1].text) <= w[n].start + ChunkSize
  BY FixedIs
<1>3. L \in Nat /\ m \in Nat
  BY <1>1 DEF Text
<1> HIDE DEF w, L, Begin
<1> DEFINE pieces == SubSeq(w, 1, n)
<1>4. pieces \in Seq(PieceOf) /\ Len(pieces) = n /\ \A i \in 1 .. n : pieces[i] = w[i] /\ i \in 1 .. m
  BY <1>1, <1>2, <1>3
<1> HIDE DEF pieces
<1>5. \A i \in 1 .. Len(pieces) : Stands(pieces[i], text)
  BY <1>1, <1>4
<1>6. ASSUME NEW k \in 1 .. L
      PROVE  \E i \in 1 .. n : pieces[i].start < k /\ k <= pieces[i].start + Len(pieces[i].text)
  <2>1. PICK i \in 1 .. m : Begin(i) < k /\ k <= Begin(i) + Step
    BY <1>1
  <2>2. \A j \in 1 .. m : Begin(j) < k /\ k <= Begin(j) + ChunkSize =>
                            w[j].start < k /\ k <= w[j].start + Len(w[j].text)
    <3> SUFFICES ASSUME NEW j \in 1 .. m, Begin(j) < k, k <= Begin(j) + ChunkSize
                 PROVE  w[j].start < k /\ k <= w[j].start + Len(w[j].text)
      OBVIOUS
    <3>1. /\ w[j].start = Begin(j)
          /\ w[j].start + Len(w[j].text) = IF Begin(j) + ChunkSize <= L THEN Begin(j) + ChunkSize ELSE L
      BY <1>1
    <3>2. k <= L
      BY <1>3
    <3> QED  BY <3>1, <3>2
  <2>3. CASE i \in 1 .. n
    <3>1. Begin(i) \in Nat /\ Step <= ChunkSize /\ Step \in Nat /\ ChunkSize \in Nat
      BY <1>1, SizesTyped
    <3>2. Begin(i) < k /\ k <= Begin(i) + ChunkSize
      BY <2>1, <3>1
    <3>3. w[i].start < k /\ k <= w[i].start + Len(w[i].text)
      BY <2>2, <3>2
    <3> QED  BY <1>4, <2>3, <3>3
  <2>4. CASE i \notin 1 .. n
    <3>1. /\ i = n + 1 /\ n = m - 1 /\ n > 0
          /\ w[n + 1].start + Len(w[n + 1].text) <= w[n].start + ChunkSize
      BY <1>2, <1>3, <2>4
    <3>2. n \in 1 .. n /\ n \in 1 .. m
      BY <1>3, <3>1
    <3> DEFINE a == Begin(n)
               b == Begin(n + 1)
               e == w[n + 1].start + Len(w[n + 1].text)
    <3>3. a \in Nat /\ b \in Nat /\ w[n].start = a /\ e = IF b + ChunkSize <= L THEN b + ChunkSize ELSE L
      BY <1>1, <3>1, <3>2
    <3>4. b = a + Step
      <4>1. (n + 1) - 1 = (n - 1) + 1 /\ n - 1 \in Int /\ Step \in Nat
        BY SizesTyped
      <4>2. ((n - 1) + 1) * Step = (n - 1) * Step + Step
        BY <4>1, TimesNext
      <4> QED  BY <4>1, <4>2 DEF Begin
    <3>5. b < k /\ k <= b + Step /\ e <= a + ChunkSize
      BY <2>1, <3>1, <3>3
    <3> HIDE DEF a, b, e
    <3>6. a < k /\ k <= a + ChunkSize
      BY <1>3, <3>3, <3>4, <3>5, SizesTyped
    <3>7. w[n].start < k /\ k <= w[n].start + Len(w[n].text)
      BY <2>2, <3>2, <3>6 DEF a
    <3> QED  BY <1>4, <3>2, <3>7
  <2> QED  BY <2>3, <2>4
<1>7. Covers(pieces, text)
  BY <1>4, <1>6 DEF Covers, L
<1>8. Traces(Finalize(pieces))
  BY <1>4, <1>5, <1>7, PiecesTrace
<1> QED  BY <1>2, <1>8 DEF pieces

\* With an overlap of at most half a window, each window but the last ends before
\* the next, and the last does when it is not dropped.
LEMMA WindowsEndLater ==
  ASSUME NEW t \in Text, 2 * Overlap <= ChunkSize, NEW n \in Nat, n <= Len(Windows(t)),
         \/ n = Len(Windows(t)) - 1
         \/ n > 1 => Windows(t)[n].start + Len(Windows(t)[n].text) > Windows(t)[n - 1].start + ChunkSize,
         NEW a \in 1 .. n, NEW b \in 1 .. n, a < b
  PROVE  Windows(t)[a].start + Len(Windows(t)[a].text) < Windows(t)[b].start + Len(Windows(t)[b].text)
<1> DEFINE w == Windows(t)
           m == Len(w)
           L == Len(t)
           Begin(i) == (i - 1) * Step
           End(i) == w[i].start + Len(w[i].text)
<1>1. /\ w \in Seq(PieceOf)
      /\ \A i \in 1 .. m :
           /\ w[i].start = Begin(i) /\ Begin(i) \in Nat /\ Begin(i) < L
           /\ End(i) = IF Begin(i) + ChunkSize <= L THEN Begin(i) + ChunkSize ELSE L
  BY WindowsAre
<1>2. L \in Nat /\ m \in Nat
  BY <1>1 DEF Text
<1>3. \/ n = m - 1
      \/ n > 1 => End(n) > w[n - 1].start + ChunkSize
  OBVIOUS
<1>4. n <= m
  OBVIOUS
<1>5. \A i, j \in 1 .. m : i <= j => Begin(i) <= Begin(j)
  <2> SUFFICES ASSUME NEW i \in 1 .. m, NEW j \in 1 .. m, i <= j
               PROVE  Begin(i) <= Begin(j)
    OBVIOUS
  <2>1. i - 1 \in Nat /\ j - 1 \in Nat /\ i - 1 <= j - 1 /\ Step \in Nat
    BY <1>2, SizesTyped
  <2> QED  BY <2>1, TimesGrows
<1>6. \A i \in 1 .. m : i + 1 \in 1 .. m => Begin(i + 1) = Begin(i) + Step
  <2> SUFFICES ASSUME NEW i \in 1 .. m
               PROVE  Begin(i + 1) = Begin(i) + Step
    OBVIOUS
  <2>1. i - 1 \in Int /\ (i + 1) - 1 = (i - 1) + 1 /\ Step \in Nat
    BY <1>2, SizesTyped
  <2>2. ((i - 1) + 1) * Step = (i - 1) * Step + Step
    BY <2>1, TimesNext
  <2> QED  BY <2>1, <2>2
<1>7. ChunkSize \in Nat /\ Step \in Nat /\ Step > 0 /\ ChunkSize <= 2 * Step
  BY SizesTyped DEF Step
<1>8. a \in 1 .. m /\ b \in 1 .. m /\ a \in Int /\ b \in Int
  BY <1>2, <1>4
<1> HIDE DEF Begin, End, w, m, L
<1>9. Begin(a) + Step <= Begin(b) /\ Begin(a) \in Nat /\ Begin(b) \in Nat
  <2>1. a + 1 \in 1 .. m /\ a + 1 <= b
    BY <1>2, <1>8
  <2>2. Begin(a + 1) = Begin(a) + Step /\ Begin(a + 1) <= Begin(b)
    BY <1>5, <1>6, <1>8, <2>1
  <2> QED  BY <1>1, <1>8, <2>2
<1>10. /\ End(a) = IF Begin(a) + ChunkSize <= L THEN Begin(a) + ChunkSize ELSE L
       /\ End(b) = IF Begin(b) + ChunkSize <= L THEN Begin(b) + ChunkSize ELSE L
  BY <1>1, <1>8
<1>11. ASSUME Begin(b) + ChunkSize <= L
       PROVE  End(a) < End(b)
  BY <1>2, <1>7, <1>9, <1>10, <1>11
<1>12. ASSUME ~(Begin(b) + ChunkSize <= L)
       PROVE  End(a) < End(b)
  <2>1. Begin(a) + ChunkSize < L
    <3>1. CASE b < m
      <4>1. b + 1 \in 1 .. m /\ b \in 1 .. m
        BY <1>2, <1>8, <3>1
      <4>2. Begin(b + 1) = Begin(b) + Step /\ Begin(b + 1) < L /\ Begin(b + 1) \in Nat
        BY <1>1, <1>6, <4>1
      <4> QED  BY <1>2, <1>7, <1>9, <4>2
    <3>2. CASE ~(b < m)
      <4>1. b = n /\ n = m /\ n > 1
        BY <1>2, <1>4, <1>8, <3>2
      <4>2. End(b) > w[n - 1].start + ChunkSize /\ n # m - 1
        BY <1>2, <1>3, <4>1
      <4>3. n - 1 \in 1 .. m /\ a <= n - 1
        BY <1>2, <1>8, <4>1
      <4>4. w[n - 1].start = Begin(n - 1) /\ Begin(n - 1) \in Nat /\ Begin(a) <= Begin(n - 1)
        BY <1>1, <1>5, <1>8, <4>3
      <4>5. End(b) = L
        BY <1>10, <1>12
      <4> QED  BY <1>2, <1>7, <1>9, <4>2, <4>4, <4>5
    <3> QED  BY <3>1, <3>2
  <2> QED  BY <1>2, <1>7, <1>9, <1>10, <1>12, <2>1
<1>13. End(a) < End(b)
  BY <1>11, <1>12
<1> QED  BY <1>13 DEF End, w

\* The chunks of the fixed chunker fit, and each ends after the one before it.
LEMMA FixedFits ==
  ASSUME NEW t \in Text
  PROVE  /\ \A i \in DOMAIN Fixed(t) : Len(Fixed(t)[i].text) <= ChunkSize
         /\ 2 * Overlap <= ChunkSize =>
              \A i \in 2 .. Len(Fixed(t)) : Fixed(t)[i].end > Fixed(t)[i - 1].end
<1> DEFINE w == Windows(t)
           m == Len(w)
           made == Fixed(t)
<1>1. /\ w \in Seq(PieceOf)
      /\ \A i \in 1 .. m : Len(w[i].text) <= ChunkSize /\ w[i].text \in Text /\ w[i].start \in Nat
  BY WindowsAre DEF Stands, PieceOf
<1>2. PICK n \in Nat :
        /\ n <= m /\ made = Finalize(SubSeq(w, 1, n))
        /\ \/ /\ n = m
              /\ n > 1 => w[n].start + Len(w[n].text) > w[n - 1].start + ChunkSize
           \/ /\ n = m - 1 /\ n > 0
              /\ w[n + 1].start + Len(w[n + 1].text) <= w[n].start + ChunkSize
  BY FixedIs
<1>3. m \in Nat
  BY <1>1
<1>4. /\ 2 * Overlap <= ChunkSize =>
           \A a, b \in 1 .. n : a < b => w[a].start + Len(w[a].text) < w[b].start + Len(w[b].text)
  BY <1>2, WindowsEndLater
<1> DEFINE pieces == SubSeq(w, 1, n)
<1> HIDE DEF w, made
<1>5. pieces \in Seq(PieceOf) /\ Len(pieces) = n /\ \A i \in 1 .. n : pieces[i] = w[i] /\ i \in 1 .. m
  BY <1>1, <1>2, <1>3
<1>6. made \in Seq(ChunkOf) /\ \E at : FinalizedFrom(at, made, pieces)
  BY <1>2, <1>5, FinalizeIs
<1>7. PICK at : FinalizedFrom(at, made, pieces)
  BY <1>6
<1> HIDE DEF pieces
<1>8. DOMAIN made = 1 .. Len(made) /\ Len(made) \in Nat
  BY <1>6
<1>9. at \in [1 .. Len(made) -> 1 .. n] /\ \A i, j \in 1 .. Len(made) : i < j => at[i] < at[j]
  BY <1>5, <1>7 DEF FinalizedFrom
<1>10. ASSUME NEW i \in 1 .. Len(made)
       PROVE  /\ at[i] \in 1 .. n
              /\ made[i].text = Strip(w[at[i]].text)
              /\ made[i].end = w[at[i]].start + Len(w[at[i]].text)
  <2>1. at[i] \in 1 .. n
    BY <1>9
  <2>2. made[i] = [text |-> Strip(pieces[at[i]].text), start |-> pieces[at[i]].start,
                     end |-> pieces[at[i]].start + Len(pieces[at[i]].text)]
    BY <1>7, Zenon DEF FinalizedFrom
  <2>3. pieces[at[i]] = w[at[i]]
    BY <1>5, <2>1
  <2> DEFINE p == w[at[i]]
  <2>4. made[i] = [text |-> Strip(p.text), start |-> p.start, end |-> p.start + Len(p.text)]
    BY <2>2, <2>3, Zenon
  <2> HIDE DEF p
  <2>5. made[i].text = Strip(p.text) /\ made[i].end = p.start + Len(p.text)
    BY <2>4
  <2> QED  BY <2>1, <2>5 DEF p
<1>11. \A i \in DOMAIN made : Len(made[i].text) <= ChunkSize
  <2> SUFFICES ASSUME NEW i \in 1 .. Len(made)
               PROVE  Len(made[i].text) <= ChunkSize
    BY <1>8
  <2> DEFINE u == w[at[i]].text
  <2>1. u \in Text /\ Len(u) <= ChunkSize /\ made[i].text = Strip(u)
    BY <1>1, <1>5, <1>10
  <2> HIDE DEF u
  <2>2. Len(Strip(u)) <= Len(u) /\ Strip(u) \in Text
    BY <2>1, StripIs
  <2>3. Len(u) \in Nat /\ Len(Strip(u)) \in Nat
    BY <2>1, <2>2 DEF Text
  <2> QED  BY <2>1, <2>2, <2>3, SizesTyped
<1>12. ASSUME 2 * Overlap <= ChunkSize, NEW i \in 2 .. Len(made)
       PROVE  made[i].end > made[i - 1].end
  <2>1. i \in 1 .. Len(made) /\ i - 1 \in 1 .. Len(made) /\ i - 1 < i
    BY <1>8
  <2>2. at[i - 1] < at[i] /\ at[i] \in 1 .. n /\ at[i - 1] \in 1 .. n
    BY <1>9, <1>10, <2>1
  <2> DEFINE p == w[at[i]]
             q == w[at[i - 1]]
  <2>3. q.start + Len(q.text) < p.start + Len(p.text)
    BY <1>4, <1>12, <2>2
  <2>4. p.start \in Nat /\ p.text \in Text /\ q.start \in Nat /\ q.text \in Text
    BY <1>1, <1>5, <2>2
  <2>5. made[i].end = p.start + Len(p.text) /\ made[i - 1].end = q.start + Len(q.text)
    BY <1>10, <2>1
  <2> HIDE DEF p, q
  <2>6. Len(p.text) \in Nat /\ Len(q.text) \in Nat
    BY <2>4 DEF Text
  <2> QED  BY <2>3, <2>4, <2>5, <2>6
<1> QED  BY <1>11, <1>12 DEF made

-----------------------------------------------------------------------------
(* Folds: a fold is run from the left, one position after the other.       *)

\* A function on the sets of positions that folds, and what is known of its steps.
Folded(f, A, base, step, n) ==
  /\ f \in [SUBSET (1 .. n) -> A] /\ f[{}] = base
  /\ \A S \in SUBSET (1 .. n) : S # {} =>
       /\ Max(S) \in 1 .. n /\ f[S \ {Max(S)}] \in A
       /\ f[S] = step[<<f[S \ {Max(S)}], Max(S)>>]

LEMMA FoldWitness ==
  ASSUME NEW A, NEW base \in A, NEW n \in Nat, NEW step \in [A \X (1 .. n) -> A]
  PROVE  \E f : Folded(f, A, base, step, n)
<1>1. PICK f \in [SUBSET (1 .. n) -> A] : FoldsTo(f, base, step, n)
  <2>1. CanFold(A, base, step, n)
    BY FoldExists
  <2> QED  BY <2>1 DEF CanFold
<1>2. f[{}] = base
  BY <1>1 DEF FoldsTo
<1>3. ASSUME NEW S \in SUBSET (1 .. n), S # {}
      PROVE  Max(S) \in 1 .. n /\ f[S \ {Max(S)}] \in A /\ f[S] = step[<<f[S \ {Max(S)}], Max(S)>>]
  <2>1. 1 \in Int /\ n \in Int
    OBVIOUS
  <2>2. Max(S) \in S
    BY <1>3, <2>1, MaxIsGreatest
  <2>3. S \ {Max(S)} \in SUBSET (1 .. n)
    OBVIOUS
  <2>4. f[S] = IF S = {} THEN base ELSE step[<<f[S \ {Max(S)}], Max(S)>>]
    BY <1>1 DEF FoldsTo
  <2> QED  BY <1>3, <2>2, <2>3, <2>4
<1> QED  BY <1>1, <1>2, <1>3 DEF Folded

\* The first positions, and the last of them.
LEMMA FirstPositions ==
  ASSUME NEW n \in Nat
  PROVE  /\ 1 .. 0 = {}
         /\ \A k \in 1 .. n : /\ 1 .. k \in SUBSET (1 .. n) /\ 1 .. k # {} /\ Max(1 .. k) = k
                              /\ (1 .. k) \ {k} = 1 .. k - 1
<1>1. 1 .. 0 = {}
  OBVIOUS
<1>2. ASSUME NEW k \in 1 .. n
      PROVE  /\ 1 .. k \in SUBSET (1 .. n) /\ 1 .. k # {} /\ Max(1 .. k) = k
             /\ (1 .. k) \ {k} = 1 .. k - 1
  <2>1. k \in Nat \ {0} /\ 1 .. k \in SUBSET (1 .. n)
    OBVIOUS
  <2> QED  BY <2>1, LastPosition
<1> QED  BY <1>1, <1>2

\* What a fold does with each position, given that it stays within its values.
Stepwise(F, A, base, step, n) ==
  /\ F[{}] = base
  /\ \A k \in 1 .. n : F[1 .. k - 1] \in A => F[1 .. k] = step[<<F[1 .. k - 1], k>>]
Runs(g, F, A, base, step, n) ==
  /\ g \in [0 .. n -> A] /\ g[0] = base /\ g[n] = F[1 .. n]
  /\ \A k \in 1 .. n : g[k] = step[<<g[k - 1], k>>]

LEMMA FoldRuns ==
  ASSUME NEW A, NEW base \in A, NEW n \in Nat, NEW step \in [A \X (1 .. n) -> A], NEW F,
         Stepwise(F, A, base, step, n)
  PROVE  \E g : Runs(g, F, A, base, step, n)
<1>0. F[{}] = base /\ \A k \in 1 .. n : F[1 .. k - 1] \in A => F[1 .. k] = step[<<F[1 .. k - 1], k>>]
  BY DEF Stepwise
<1> DEFINE S == {k \in Nat : k <= n => F[1 .. k] \in A}
<1>1. 0 \in S
  BY <1>0, FirstPositions
<1>2. ASSUME NEW k \in Nat, k \in S
      PROVE  k + 1 \in S
  <2> SUFFICES ASSUME k + 1 <= n
               PROVE  F[1 .. k + 1] \in A
    OBVIOUS
  <2>1. k + 1 \in 1 .. n /\ (k + 1) - 1 = k /\ F[1 .. k] \in A
    BY <1>2
  <2>2. F[1 .. k + 1] = step[<<F[1 .. k], k + 1>>]
    BY <1>0, <2>1
  <2>3. <<F[1 .. k], k + 1>> \in A \X (1 .. n)
    BY <2>1
  <2> QED  BY <2>2, <2>3
<1>3. Nat \subseteq S
  <2> HIDE DEF S
  <2> QED  BY <1>1, <1>2, SetInduction
<1>4. \A k \in 0 .. n : F[1 .. k] \in A
  BY <1>3
<1> DEFINE g == [k \in 0 .. n |-> F[1 .. k]]
<1>5. g \in [0 .. n -> A]
  BY <1>4
<1>6. \A k \in 0 .. n : g[k] = F[1 .. k]
  OBVIOUS
<1>7. 0 \in 0 .. n /\ n \in 0 .. n /\ \A k \in 1 .. n : k \in 0 .. n /\ k - 1 \in 0 .. n
  OBVIOUS
<1> HIDE DEF g
<1>8. g[0] = base /\ g[n] = F[1 .. n]
  BY <1>0, <1>6, <1>7, FirstPositions, Zenon
<1>9. \A k \in 1 .. n : g[k] = step[<<g[k - 1], k>>]
  BY <1>0, <1>4, <1>6, <1>7, Zenon
<1> QED  BY <1>5, <1>8, <1>9 DEF Runs

-----------------------------------------------------------------------------
(* A text in parts: joined again, they are the text.                       *)

\* Parts joined one after the other.
LEMMA JoinConcat ==
  ASSUME NEW X, NEW ps \in Seq(Seq(X))
  PROVE  \A qs \in Seq(Seq(X)) : FlattenSeq(ps \o qs) = FlattenSeq(ps) \o FlattenSeq(qs)
<1> DEFINE S == {qs \in Seq(Seq(X)) : FlattenSeq(ps \o qs) = FlattenSeq(ps) \o FlattenSeq(qs)}
<1>1. FlattenSeq(ps) \in Seq(X)
  BY FlattenSeqProperties
<1>2. <<>> \in S
  <2>1. FlattenSeq(<<>>) = <<>> /\ ps \o <<>> = ps /\ <<>> \in Seq(Seq(X))
    BY DEF FlattenSeq
  <2>2. FlattenSeq(ps) \o <<>> = FlattenSeq(ps)
    BY <1>1, ConcatEmptySeq
  <2> QED  BY <2>1, <2>2
<1>3. ASSUME NEW qs \in Seq(Seq(X)), NEW u \in Seq(X), qs \in S
      PROVE  Append(qs, u) \in S
  <2> DEFINE both == ps \o qs
             more == Append(qs, u)
  <2>1. both \in Seq(Seq(X)) /\ more \in Seq(Seq(X)) /\ ps \o more = Append(both, u)
    OBVIOUS
  <2>2. FlattenSeq(Append(both, u)) = FlattenSeq(both) \o u
    BY <2>1, FlattenSeqAppend
  <2>3. FlattenSeq(more) = FlattenSeq(qs) \o u /\ FlattenSeq(qs) \in Seq(X)
    BY FlattenSeqAppend, FlattenSeqProperties
  <2>4. FlattenSeq(both) = FlattenSeq(ps) \o FlattenSeq(qs)
    BY <1>3
  <2> HIDE DEF both, more
  <2>5. \A v, w, x \in Seq(X) : (v \o w) \o x = v \o (w \o x)
    OBVIOUS
  <2>6. FlattenSeq(ps \o more) = FlattenSeq(ps) \o FlattenSeq(more)
    <3>1. FlattenSeq(ps \o more) = FlattenSeq(both) \o u
      BY <2>1, <2>2, Zenon
    <3>2. (FlattenSeq(ps) \o FlattenSeq(qs)) \o u = FlattenSeq(ps) \o (FlattenSeq(qs) \o u)
      BY <1>1, <2>3, <2>5, Zenon
    <3> QED  BY <2>3, <2>4, <3>1, <3>2, Zenon
  <2> QED  BY <2>1, <2>6 DEF more
<1>4. Seq(Seq(X)) \subseteq S
  <2> HIDE DEF S
  <2> QED  BY <1>2, <1>3, SeqInduction
<1> QED  BY <1>4

\* One part, and none.
LEMMA JoinOne ==
  ASSUME NEW X
  PROVE  FlattenSeq(<<>>) = <<>> /\ \A u \in Seq(X) : FlattenSeq(<<u>>) = u
<1>1. FlattenSeq(<<>>) = <<>>
  BY DEF FlattenSeq
<1>2. ASSUME NEW u \in Seq(X)
      PROVE  FlattenSeq(<<u>>) = u
  <2>1. <<>> \in Seq(Seq(X)) /\ Append(<<>>, u) = <<u>> /\ <<>> \o u = u
    OBVIOUS
  <2>2. FlattenSeq(Append(<<>>, u)) = FlattenSeq(<<>>) \o u
    BY <2>1, FlattenSeqAppend
  <2> QED  BY <1>1, <2>1, <2>2, Zenon
<1> QED  BY <1>1, <1>2

\* The first parts and the next.
LEMMA JoinNext ==
  ASSUME NEW X, NEW ps \in Seq(Seq(X)), NEW n \in Nat, n + 1 <= Len(ps)
  PROVE  /\ SubSeq(ps, 1, n) \in Seq(Seq(X)) /\ FlattenSeq(SubSeq(ps, 1, n)) \in Seq(X)
         /\ FlattenSeq(SubSeq(ps, 1, n + 1)) = FlattenSeq(SubSeq(ps, 1, n)) \o ps[n + 1]
<1> DEFINE front == SubSeq(ps, 1, n)
<1>1. front \in Seq(Seq(X)) /\ ps[n + 1] \in Seq(X) /\ SubSeq(ps, 1, n + 1) = Append(front, ps[n + 1])
  OBVIOUS
<1> HIDE DEF front
<1>2. FlattenSeq(Append(front, ps[n + 1])) = FlattenSeq(front) \o ps[n + 1] /\ FlattenSeq(front) \in Seq(X)
  BY <1>1, FlattenSeqAppend, FlattenSeqProperties
<1> QED  BY <1>1, <1>2, Zenon DEF front

\* Slices in a row, from the start of a text to its end.
Tiles(f, ps, t) ==
  /\ f \in [0 .. Len(ps) -> Nat] /\ f[0] = 0 /\ f[Len(ps)] = Len(t)
  /\ \A i \in 1 .. Len(ps) : /\ f[i - 1] <= f[i] /\ f[i] <= Len(t) /\ ps[i] = Slice(t, f[i - 1], f[i])

\* Slices in a row join to the text.
LEMMA TilesJoin ==
  ASSUME NEW t \in Text, NEW ps \in Seq(Text), NEW f, Tiles(f, ps, t)
  PROVE  FlattenSeq(ps) = t
<1> DEFINE n == Len(ps)
           S == {k \in Nat : k <= n => FlattenSeq(SubSeq(ps, 1, k)) = Slice(t, 0, f[k])}
<1>1. n \in Nat /\ ps \in Seq(Seq(Letter)) /\ Len(t) \in Nat
  BY DEF Text
<1>2. /\ f \in [0 .. n -> Nat] /\ f[0] = 0 /\ f[n] = Len(t)
      /\ \A i \in 1 .. n : /\ f[i - 1] <= f[i] /\ f[i] <= Len(t) /\ ps[i] = Slice(t, f[i - 1], f[i])
  BY DEF Tiles
<1> HIDE DEF n
<1>3. 0 \in S
  <2>1. SubSeq(ps, 1, 0) = <<>> /\ FlattenSeq(<<>>) = <<>>
    BY <1>1, JoinOne
  <2>2. Slice(t, 0, 0) \in Seq(Letter) /\ Len(Slice(t, 0, 0)) = 0
    <3>1. \A a, b \in Nat : a <= b /\ b <= Len(t) => Slice(t, a, b) \in Text /\ Len(Slice(t, a, b)) = b - a
      BY SliceIs
    <3>2. 0 \in Nat /\ 0 <= 0 /\ 0 <= Len(t) /\ 0 - 0 = 0
      BY <1>1
    <3> QED  BY <3>1, <3>2, Zenon DEF Text
  <2>3. Slice(t, 0, 0) = <<>>
    <3>1. \A u \in Seq(Letter) : Len(u) = 0 => u = <<>>
      OBVIOUS
    <3> QED  BY <2>2, <3>1, Zenon
  <2> QED  BY <1>2, <2>1, <2>3
<1>4. ASSUME NEW k \in Nat, k \in S
      PROVE  k + 1 \in S
  <2> SUFFICES ASSUME k + 1 <= n
               PROVE  FlattenSeq(SubSeq(ps, 1, k + 1)) = Slice(t, 0, f[k + 1])
    OBVIOUS
  <2>1. k + 1 \in 1 .. n /\ (k + 1) - 1 = k /\ k \in 0 .. n /\ k + 1 \in 0 .. n
    BY <1>1
  <2>2. f[k] \in Nat /\ f[k + 1] \in Nat /\ f[k] <= f[k + 1] /\ f[k + 1] <= Len(t) /\ ps[k + 1] = Slice(t, f[k], f[k + 1])
    BY <1>2, <2>1
  <2>3. FlattenSeq(SubSeq(ps, 1, k)) = Slice(t, 0, f[k])
    BY <1>1, <1>4
  <2>4. FlattenSeq(SubSeq(ps, 1, k + 1)) = FlattenSeq(SubSeq(ps, 1, k)) \o ps[k + 1]
    BY <1>1, JoinNext DEF n
  <2>5. \A a, b, c \in Nat : a <= b /\ b <= c /\ c <= Len(t) => Slice(t, a, b) \o Slice(t, b, c) = Slice(t, a, c)
    BY SlicesJoin
  <2>6. Slice(t, 0, f[k]) \o Slice(t, f[k], f[k + 1]) = Slice(t, 0, f[k + 1])
    <3>1. 0 \in Nat /\ 0 <= f[k]
      BY <2>2
    <3> QED  BY <2>2, <2>5, <3>1, Zenon
  <2> QED  BY <2>2, <2>3, <2>4, <2>6, Zenon
<1>5. Nat \subseteq S
  <2> HIDE DEF S
  <2> QED  BY <1>3, <1>4, SetInduction
<1>6. FlattenSeq(SubSeq(ps, 1, n)) = Slice(t, 0, f[n])
  BY <1>1, <1>5
<1>7. SubSeq(ps, 1, n) = ps
  BY <1>1 DEF n
<1> QED  BY <1>2, <1>6, <1>7, SliceWhole, Zenon

\* Parts that join to a text are slices of it in a row.
LEMMA JoinTiles ==
  ASSUME NEW ps \in Seq(Text)
  PROVE  /\ FlattenSeq(ps) \in Text
         /\ \E f : /\ Tiles(f, ps, FlattenSeq(ps))
                   /\ \A i \in 1 .. Len(ps) : f[i] = f[i - 1] + Len(ps[i])
                   /\ \A i \in 0 .. Len(ps) : f[i] = Len(FlattenSeq(SubSeq(ps, 1, i)))
<1> DEFINE n == Len(ps)
           t == FlattenSeq(ps)
           J(i) == FlattenSeq(SubSeq(ps, 1, i))
           f == [i \in 0 .. n |-> Len(J(i))]
<1>1. n \in Nat /\ ps \in Seq(Seq(Letter)) /\ \A i \in 1 .. n : ps[i] \in Text
  BY DEF Text
<1>2. \A i \in 0 .. n : J(i) \in Text /\ Len(J(i)) \in Nat
  <2> SUFFICES ASSUME NEW i \in 0 .. n
               PROVE  J(i) \in Text /\ Len(J(i)) \in Nat
    OBVIOUS
  <2>1. SubSeq(ps, 1, i) \in Seq(Seq(Letter))
    BY <1>1
  <2>2. J(i) \in Seq(Letter)
    BY <2>1, FlattenSeqProperties
  <2> QED  BY <2>2 DEF Text
<1>3. J(0) = <<>> /\ J(n) = t
  <2>1. SubSeq(ps, 1, 0) = <<>> /\ SubSeq(ps, 1, n) = ps
    BY <1>1
  <2> QED  BY <2>1, JoinOne, Zenon
<1>4. \A i \in 1 .. n : J(i) = J(i - 1) \o ps[i]
  <2> SUFFICES ASSUME NEW i \in 1 .. n
               PROVE  J(i) = J(i - 1) \o ps[i]
    OBVIOUS
  <2>1. i - 1 \in Nat /\ (i - 1) + 1 = i /\ i <= Len(ps)
    BY <1>1
  <2>2. \A k \in Nat : k + 1 <= Len(ps) => J(k + 1) = J(k) \o ps[k + 1]
    BY <1>1, JoinNext
  <2> HIDE DEF J
  <2>3. J((i - 1) + 1) = J(i - 1) \o ps[(i - 1) + 1]
    BY <2>1, <2>2
  <2> QED  BY <2>1, <2>3
<1>5. \A i \in 0 .. n : f[i] = Len(J(i))
  OBVIOUS
<1>6. f \in [0 .. n -> Nat]
  BY <1>2
<1> HIDE DEF f, n, t, J
<1>7. \A i \in 1 .. n : i \in 0 .. n /\ i - 1 \in 0 .. n
  BY <1>1
<1>8. \A i \in 1 .. n : f[i] = f[i - 1] + Len(ps[i]) /\ Len(ps[i]) \in Nat
  <2> SUFFICES ASSUME NEW i \in 1 .. n
               PROVE  f[i] = f[i - 1] + Len(ps[i]) /\ Len(ps[i]) \in Nat
    OBVIOUS
  <2>1. \A u, v \in Text : Len(u \o v) = Len(u) + Len(v) /\ Len(v) \in Nat
    BY ConcatIs
  <2>2. J(i - 1) \in Text /\ ps[i] \in Text /\ J(i) = J(i - 1) \o ps[i]
    BY <1>1, <1>2, <1>4, <1>7, Zenon
  <2>3. f[i] = Len(J(i)) /\ f[i - 1] = Len(J(i - 1))
    BY <1>5, <1>7, Zenon
  <2> QED  BY <2>1, <2>2, <2>3, Zenon
\* What is joined so far is the start of the whole.
<1>9. ASSUME NEW i \in 0 .. n
      PROVE  f[i] <= f[n] /\ \A k \in 1 .. f[i] : t[k] = J(i)[k]
  <2> DEFINE S == {d \in Nat : i + d <= n => /\ f[i] <= f[i + d]
                                             /\ \A k \in 1 .. f[i] : J(i + d)[k] = J(i)[k]}
  <2>1. 0 \in S
    <3>1. i + 0 = i /\ f[i] \in Nat
      BY <1>6
    <3> QED  BY <3>1
  <2>2. ASSUME NEW d \in Nat, d \in S
        PROVE  d + 1 \in S
    <3> SUFFICES ASSUME i + (d + 1) <= n
                 PROVE  f[i] <= f[i + (d + 1)] /\ \A k \in 1 .. f[i] : J(i + (d + 1))[k] = J(i)[k]
      OBVIOUS
    <3> DEFINE m == i + d
    <3>1. i + (d + 1) = m + 1 /\ m + 1 \in 1 .. n /\ (m + 1) - 1 = m /\ m \in 0 .. n
      BY <1>1
    <3>2. f[i] <= f[m] /\ \A k \in 1 .. f[i] : J(m)[k] = J(i)[k]
      BY <2>2, <3>1
    <3> HIDE DEF m
    <3>3. f[m + 1] = f[m] + Len(ps[m + 1]) /\ Len(ps[m + 1]) \in Nat /\ f[m] \in Nat /\ f[i] \in Nat
      BY <1>6, <1>8, <3>1
    <3>4. J(m + 1) = J(m) \o ps[m + 1] /\ J(m) \in Text /\ ps[m + 1] \in Text /\ Len(J(m)) = f[m]
      BY <1>1, <1>2, <1>4, <1>5, <3>1
    <3>5. \A k \in 1 .. f[m] : J(m + 1)[k] = J(m)[k]
      <4>1. \A u, v \in Text : \A k \in 1 .. Len(u) : (u \o v)[k] = u[k]
        BY ConcatIs
      <4>2. \A k \in 1 .. Len(J(m)) : (J(m) \o ps[m + 1])[k] = J(m)[k]
        BY <3>4, <4>1, Zenon
      <4> QED  BY <3>4, <4>2, Zenon
    <3>6. \A k \in 1 .. f[i] : k \in 1 .. f[m]
      BY <3>2, <3>3
    <3>7. f[i] <= f[m + 1]
      BY <3>2, <3>3
    <3>8. \A k \in 1 .. f[i] : J(m + 1)[k] = J(i)[k]
      BY <3>2, <3>5, <3>6
    <3> QED  BY <3>1, <3>7, <3>8
  <2>3. Nat \subseteq S
    <3> HIDE DEF S
    <3> QED  BY <2>1, <2>2, SetInduction
  <2>4. n - i \in Nat /\ i + (n - i) = n
    BY <1>1
  <2>5. n - i \in S
    BY <2>3, <2>4
  <2> QED  BY <1>3, <2>4, <2>5
<1>10. t \in Text /\ f[n] = Len(t) /\ f[0] = 0
  <2>1. 0 \in 0 .. n /\ n \in 0 .. n /\ Len(<<>>) = 0
    BY <1>1
  <2> QED  BY <1>2, <1>3, <1>5, <2>1
<1>11. ASSUME NEW i \in 1 .. n
       PROVE  f[i - 1] <= f[i] /\ f[i] <= Len(t) /\ ps[i] = Slice(t, f[i - 1], f[i])
  <2> DEFINE a == f[i - 1]
             b == f[i]
             p == ps[i]
  <2>1. a \in Nat /\ b \in Nat /\ b = a + Len(p) /\ Len(p) \in Nat /\ p \in Text
    BY <1>1, <1>6, <1>7, <1>8
  <2>2. b <= Len(t) /\ \A k \in 1 .. b : t[k] = J(i)[k]
    BY <1>7, <1>9, <1>10
  <2>3. J(i) = J(i - 1) \o p /\ J(i - 1) \in Text /\ Len(J(i - 1)) = a
    BY <1>2, <1>4, <1>5, <1>7
  <2> HIDE DEF a, b, p
  <2>4. \A k \in 1 .. Len(p) : J(i)[a + k] = p[k]
    <3>1. \A u, v \in Text : \A k \in 1 .. Len(v) : (u \o v)[Len(u) + k] = v[k]
      BY ConcatIs
    <3> QED  BY <2>1, <2>3, <3>1, Zenon
  <2>5. a <= b /\ b - a = Len(p)
    BY <2>1
  <2>6. /\ Slice(t, a, b) \in Text /\ Len(Slice(t, a, b)) = b - a
        /\ \A k \in 1 .. b - a : Slice(t, a, b)[k] = t[a + k]
    BY <1>10, <2>1, <2>2, <2>5, SliceIs
  <2>7. \A k \in 1 .. Len(p) : p[k] = Slice(t, a, b)[k]
    <3> SUFFICES ASSUME NEW k \in 1 .. Len(p)
                 PROVE  p[k] = Slice(t, a, b)[k]
      OBVIOUS
    <3>1. a + k \in 1 .. b
      BY <2>1
    <3> QED  BY <2>2, <2>4, <2>5, <2>6, <3>1
  <2>8. p = Slice(t, a, b)
    BY <2>1, <2>5, <2>6, <2>7, TextsEqual
  <2> QED  BY <2>2, <2>5, <2>8 DEF a, b, p
<1>12. Tiles(f, ps, t)
  BY <1>6, <1>10, <1>11 DEF Tiles, n
<1>13. \A i \in 0 .. n : f[i] = Len(FlattenSeq(SubSeq(ps, 1, i)))
  BY <1>5 DEF J
<1> QED  BY <1>8, <1>10, <1>12, <1>13 DEF n, t

-----------------------------------------------------------------------------
(* Splitting loses nothing: what _split_text returns joins to the text.    *)

Reading == [out : Seq(Text), part : Text]
ReadSoFar(acc) == FlattenSeq(acc.out) \o acc.part

\* A list of texts with one more.
LEMMA JoinAppend ==
  ASSUME NEW ps \in Seq(Text), NEW u \in Text
  PROVE  /\ Append(ps, u) \in Seq(Text) /\ FlattenSeq(ps) \in Text
         /\ FlattenSeq(Append(ps, u)) = FlattenSeq(ps) \o u
BY FlattenSeqAppend, FlattenSeqProperties DEF Text

\* Nothing in front or behind, and what is in brackets.
LEMMA ConcatLaws ==
  /\ <<>> \in Text /\ Len(<<>>) = 0
  /\ \A u \in Text : u \o <<>> = u /\ <<>> \o u = u
  /\ \A u, v, w \in Text : (u \o v) \o w = u \o (v \o w)
  /\ \A u, v \in Text : u \o v \in Text
  /\ \A u \in Text : \A c \in Letter : Append(u, c) \in Text
  /\ \A u, v \in Text : \A c \in Letter : u \o Append(v, c) = Append(u \o v, c)
BY DEF Text

\* A character more is read.
LEMMA ReadPartKeeps ==
  ASSUME NEW acc \in Reading, NEW c \in Letter, NEW separator
  PROVE  /\ ReadPart(acc, c, separator) \in Reading
         /\ ReadSoFar(ReadPart(acc, c, separator)) = Append(ReadSoFar(acc), c)
<1> DEFINE part == Append(acc.part, c)
           r == ReadPart(acc, c, separator)
           joined == FlattenSeq(acc.out)
<1>1. acc.out \in Seq(Text) /\ acc.part \in Text
  BY DEF Reading
<1>2. part \in Text /\ joined \in Text /\ joined \o part = Append(joined \o acc.part, c)
  <2>1. joined \in Text
    BY <1>1, FlattenSeqProperties DEF Text
  <2> HIDE DEF joined
  <2> QED  BY <1>1, <2>1, ConcatLaws, Zenon
<1> HIDE DEF part, joined
<1>3. CASE Suffix(part, Len(separator)) = separator
  <2>1. r = [out |-> Append(acc.out, part), part |-> <<>>]
    BY <1>3, Zenon DEF ReadPart, part
  <2>2. Append(acc.out, part) \in Seq(Text) /\ FlattenSeq(Append(acc.out, part)) = joined \o part
    BY <1>1, <1>2, JoinAppend DEF joined
  <2> DEFINE more == Append(acc.out, part)
  <2> HIDE DEF more
  <2>3. r.out = more /\ r.part = <<>> /\ more \in Seq(Text)
    BY <2>1, <2>2 DEF more
  <2>4. r \in Reading
    <3>1. <<>> \in Text
      BY ConcatLaws
    <3> QED  BY <2>1, <2>2, <3>1 DEF Reading
  <2>5. ReadSoFar(r) = joined \o part
    <3>1. ReadSoFar(r) = FlattenSeq(more) \o <<>>
      BY <2>3, Zenon DEF ReadSoFar
    <3>2. FlattenSeq(more) = joined \o part /\ joined \o part \in Text
      BY <1>2, <2>2, ConcatLaws, Zenon DEF more
    <3> QED  BY <3>1, <3>2, ConcatLaws, Zenon
  <2> QED  BY <1>2, <2>4, <2>5, Zenon DEF ReadSoFar, r, joined
<1>4. CASE Suffix(part, Len(separator)) # separator
  <2>1. r = [acc EXCEPT !.part = part]
    BY <1>4, Zenon DEF ReadPart, part
  <2>2. r \in Reading /\ r.out = acc.out /\ r.part = part
    BY <1>1, <1>2, <2>1 DEF Reading
  <2> QED  BY <1>2, <2>2, Zenon DEF ReadSoFar, r, joined
<1> QED  BY <1>3, <1>4

\* The parts of a text join to it.
LEMMA PartsJoin ==
  ASSUME NEW t \in Text, NEW separator
  PROVE  Parts(t, separator) \in Seq(Text) /\ FlattenSeq(Parts(t, separator)) = t
<1> DEFINE n == Len(t)
           base == [out |-> <<>>, part |-> <<>>]
           On(acc, c) == ReadPart(acc, c, separator)
           IsFold(f) == f = [S \in SUBSET DOMAIN t |->
                               IF S = {} THEN base ELSE On(f[S \ {Max(S)}], t[Max(S)])]
           F == CHOOSE f : IsFold(f)
           step == [p \in Reading \X (1 .. n) |-> On(p[1], t[p[2]])]
<1>1. n \in Nat /\ DOMAIN t = 1 .. n /\ \A k \in 1 .. n : t[k] \in Letter
  BY DEF Text
<1>2. Parts(t, separator) = Append(F[DOMAIN t].out, F[DOMAIN t].part)
  BY Zenon DEF Parts, FoldLeft, MapThenFoldSet
<1>3. base \in Reading /\ ReadSoFar(base) = <<>>
  <2>1. base.out = <<>> /\ base.part = <<>> /\ <<>> \in Seq(Text) /\ <<>> \in Text /\ FlattenSeq(<<>>) = <<>>
    BY JoinOne, ConcatLaws
  <2>2. ReadSoFar(base) = <<>> \o <<>>
    BY <2>1, Zenon DEF ReadSoFar
  <2> QED  BY <2>1, <2>2, ConcatLaws DEF Reading
<1>4. \A acc \in Reading : \A c \in Letter :
        On(acc, c) \in Reading /\ ReadSoFar(On(acc, c)) = Append(ReadSoFar(acc), c)
  BY ReadPartKeeps
<1> HIDE DEF On, base
<1>5. /\ step \in [Reading \X (1 .. n) -> Reading]
      /\ \A x \in Reading : \A m \in 1 .. n : step[<<x, m>>] = On(x, t[m])
  BY <1>1, <1>4
<1> HIDE DEF step, n
<1> DEFINE Next(f, S) == IF S = {} THEN base ELSE On(f[S \ {Max(S)}], t[Max(S)])
<1>6. PICK f : Folded(f, Reading, base, step, n)
  BY <1>1, <1>3, <1>5, FoldWitness, Zenon
<1>7. IsFold(f)
  <2>1. f \in [SUBSET (1 .. n) -> Reading]
    BY <1>6 DEF Folded
  <2>2. f = [S \in SUBSET (1 .. n) |-> f[S]]
    BY <2>1
  <2>3. \A S \in SUBSET (1 .. n) : f[S] = Next(f, S)
    BY <1>5, <1>6, Zenon DEF Folded
  <2>4. f = [S \in SUBSET (1 .. n) |-> Next(f, S)]
    BY <2>2, <2>3, Zenon
  <2> QED  BY <1>1, <2>4, Zenon
<1>8. \A S \in SUBSET (1 .. n) : F[S] = Next(F, S)
  <2>1. IsFold(F)
    BY <1>7, Zenon
  <2> QED  BY <1>1, <2>1, Zenon
<1> HIDE DEF F, IsFold
<1>9. Stepwise(F, Reading, base, step, n)
  <2>1. F[{}] = base
    BY <1>8, Zenon
  <2>2. ASSUME NEW k \in 1 .. n, F[1 .. k - 1] \in Reading
        PROVE  F[1 .. k] = step[<<F[1 .. k - 1], k>>]
    <3>1. 1 .. k \in SUBSET (1 .. n) /\ 1 .. k # {} /\ Max(1 .. k) = k /\ (1 .. k) \ {k} = 1 .. k - 1
      BY <1>1, FirstPositions, Zenon
    <3>2. F[1 .. k] = On(F[1 .. k - 1], t[k])
      BY <1>8, <3>1, Zenon
    <3> QED  BY <1>5, <2>2, <3>2, Zenon
  <2> QED  BY <2>1, <2>2, Zenon DEF Stepwise
<1>9a. PICK g : Runs(g, F, Reading, base, step, n)
  BY <1>1, <1>3, <1>5, <1>9, FoldRuns, Zenon
<1>10. /\ g \in [0 .. n -> Reading] /\ g[0] = base /\ g[n] = F[1 .. n]
       /\ \A k \in 1 .. n : g[k] = step[<<g[k - 1], k>>]
  BY <1>9a DEF Runs
<1> DEFINE N == {k \in Nat : k <= n => ReadSoFar(g[k]) = SubSeq(t, 1, k)}
<1>11. 0 \in N
  <2>1. SubSeq(t, 1, 0) = <<>>
    BY DEF Text
  <2> QED  BY <1>3, <1>10, <2>1
<1>12. ASSUME NEW k \in Nat, k \in N
       PROVE  k + 1 \in N
  <2> SUFFICES ASSUME k + 1 <= n
               PROVE  ReadSoFar(g[k + 1]) = SubSeq(t, 1, k + 1)
    OBVIOUS
  <2>1. k + 1 \in 1 .. n /\ (k + 1) - 1 = k /\ k \in 0 .. n
    BY <1>1
  <2>2. g[k] \in Reading /\ t[k + 1] \in Letter /\ ReadSoFar(g[k]) = SubSeq(t, 1, k)
    BY <1>1, <1>10, <1>12, <2>1
  <2>3. g[k + 1] = On(g[k], t[k + 1])
    BY <1>5, <1>10, <2>1, <2>2
  <2>4. ReadSoFar(g[k + 1]) = Append(SubSeq(t, 1, k), t[k + 1])
    BY <1>4, <2>2, <2>3
  <2>5. Append(SubSeq(t, 1, k), t[k + 1]) = SubSeq(t, 1, k + 1)
    BY <2>1 DEF Text, n
  <2> QED  BY <2>4, <2>5
<1>13. Nat \subseteq N
  <2> HIDE DEF N
  <2> QED  BY <1>11, <1>12, SetInduction
<1>14. ReadSoFar(g[n]) = t
  <2>1. n \in N
    BY <1>1, <1>13
  <2>2. SubSeq(t, 1, n) = t
    BY DEF Text, n
  <2> QED  BY <1>1, <2>1, <2>2
<1>15. g[n] \in Reading /\ Parts(t, separator) = Append(g[n].out, g[n].part)
  <2>1. n \in 0 .. n
    BY <1>1
  <2> QED  BY <1>1, <1>2, <1>10, <2>1
<1>16. g[n].out \in Seq(Text) /\ g[n].part \in Text
  BY <1>15 DEF Reading
<1> QED  BY <1>14, <1>15, <1>16, JoinAppend DEF ReadSoFar

Merging == [out : Seq(Text), buffer : Text]
MergedSoFar(acc) == FlattenSeq(acc.out) \o acc.buffer

\* Flushing the buffer.
LEMMA FlushJoins ==
  ASSUME NEW acc \in Merging
  PROVE  Flush(acc) \in Seq(Text) /\ FlattenSeq(Flush(acc)) = MergedSoFar(acc) /\ MergedSoFar(acc) \in Text
<1>1. acc.out \in Seq(Text) /\ acc.buffer \in Text
  BY DEF Merging
<1>2. FlattenSeq(acc.out) \in Text
  BY <1>1, FlattenSeqProperties DEF Text
<1>3. MergedSoFar(acc) \in Text
  BY <1>1, <1>2, ConcatLaws, Zenon DEF MergedSoFar
<1>4. CASE acc.buffer = <<>>
  <2>1. Flush(acc) = acc.out
    BY <1>4 DEF Flush
  <2>2. MergedSoFar(acc) = FlattenSeq(acc.out)
    BY <1>2, <1>4, ConcatLaws, Zenon DEF MergedSoFar
  <2> QED  BY <1>1, <1>3, <2>1, <2>2
<1>5. CASE acc.buffer # <<>>
  <2>1. Flush(acc) = Append(acc.out, acc.buffer)
    BY <1>5 DEF Flush
  <2> QED  BY <1>1, <1>3, <2>1, JoinAppend, Zenon DEF MergedSoFar
<1> QED  BY <1>4, <1>5

\* A part more is merged.
LEMMA MergeKeeps ==
  ASSUME NEW acc \in Merging, NEW part \in Text, NEW size \in Nat
  PROVE  /\ Merge(acc, part, size) \in Merging
         /\ MergedSoFar(Merge(acc, part, size)) = MergedSoFar(acc) \o part
<1> DEFINE r == Merge(acc, part, size)
           flushed == Flush(acc)
           joined == FlattenSeq(acc.out)
<1>1. acc.out \in Seq(Text) /\ acc.buffer \in Text
  BY DEF Merging
<1>2. joined \in Text
  BY <1>1, FlattenSeqProperties DEF Text
<1>3. flushed \in Seq(Text) /\ FlattenSeq(flushed) = MergedSoFar(acc) /\ MergedSoFar(acc) \in Text
  BY FlushJoins
<1>4. MergedSoFar(acc) = joined \o acc.buffer
  BY DEF MergedSoFar
<1> HIDE DEF flushed, joined
<1>5. \/ Len(part) > size /\ r = [out |-> Append(flushed, part), buffer |-> <<>>]
      \/ r = [acc EXCEPT !.buffer = acc.buffer \o part]
      \/ r = [out |-> flushed, buffer |-> part]
  <2>0. Len(part) > size <=> ~(Len(part) <= size)
    BY DEF Text
  <2>1. CASE Len(part) > size
    BY <2>0, <2>1, Zenon DEF Merge, flushed
  <2>2. CASE ~(Len(part) > size) /\ Len(part) <= size /\ Len(acc.buffer) + Len(part) <= size
    BY <2>2, Zenon DEF Merge
  <2>3. CASE ~(Len(part) > size) /\ ~(Len(part) <= size /\ Len(acc.buffer) + Len(part) <= size)
    BY <2>3, Zenon DEF Merge, flushed
  <2> QED  BY <2>1, <2>2, <2>3, Zenon
<1> HIDE DEF r
<1>6. CASE r = [out |-> Append(flushed, part), buffer |-> <<>>]
  <2> DEFINE more == Append(flushed, part)
  <2>1. more \in Seq(Text) /\ FlattenSeq(more) = FlattenSeq(flushed) \o part
    BY <1>3, JoinAppend
  <2> HIDE DEF more
  <2>2. r.out = more /\ r.buffer = <<>> /\ r = [out |-> more, buffer |-> <<>>]
    BY <1>6 DEF more
  <2>3. r \in Merging
    <3>1. <<>> \in Text
      BY ConcatLaws
    <3> QED  BY <2>1, <2>2, <3>1 DEF Merging
  <2>4. MergedSoFar(r) = FlattenSeq(more) \o <<>>
    BY <2>2, Zenon DEF MergedSoFar
  <2>5. FlattenSeq(more) \in Text /\ FlattenSeq(more) = MergedSoFar(acc) \o part
    <3>1. FlattenSeq(more) = MergedSoFar(acc) \o part
      BY <1>3, <2>1, Zenon
    <3>2. MergedSoFar(acc) \o part \in Text
      BY <1>3, ConcatLaws, Zenon
    <3> QED  BY <3>1, <3>2, Zenon
  <2> QED  BY <2>3, <2>4, <2>5, ConcatLaws, Zenon DEF r
<1>7. CASE r = [acc EXCEPT !.buffer = acc.buffer \o part]
  <2> DEFINE u == acc.buffer \o part
  <2>1. u \in Text
    BY <1>1, ConcatLaws, Zenon
  <2>2. (joined \o acc.buffer) \o part = joined \o u
    <3>1. \A x, y, z \in Text : (x \o y) \o z = x \o (y \o z)
      BY ConcatLaws
    <3>2. joined \in Text /\ acc.buffer \in Text /\ part \in Text
      BY <1>1, <1>2
    <3> QED  BY <3>1, <3>2, Zenon
  <2> HIDE DEF u
  <2>3. r \in Merging /\ r.out = acc.out /\ r.buffer = u
    BY <1>1, <1>7, <2>1 DEF Merging, u
  <2> QED  BY <1>4, <2>2, <2>3, Zenon DEF MergedSoFar, r, joined
<1>8. CASE r = [out |-> flushed, buffer |-> part]
  <2>1. r \in Merging /\ r.out = flushed /\ r.buffer = part
    BY <1>3, <1>8 DEF Merging
  <2> QED  BY <1>3, <2>1, Zenon DEF MergedSoFar, r
<1> QED  BY <1>5, <1>6, <1>7, <1>8, Zenon

\* Merged parts join to what the parts do.
LEMMA MergedJoin ==
  ASSUME NEW ps \in Seq(Text), NEW size \in Nat
  PROVE  Merged(ps, size) \in Seq(Text) /\ FlattenSeq(Merged(ps, size)) = FlattenSeq(ps)
<1> DEFINE n == Len(ps)
           base == [out |-> <<>>, buffer |-> <<>>]
           On(acc, part) == Merge(acc, part, size)
           IsFold(f) == f = [S \in SUBSET DOMAIN ps |->
                               IF S = {} THEN base ELSE On(f[S \ {Max(S)}], ps[Max(S)])]
           F == CHOOSE f : IsFold(f)
           step == [p \in Merging \X (1 .. n) |-> On(p[1], ps[p[2]])]
<1>1. n \in Nat /\ DOMAIN ps = 1 .. n /\ \A k \in 1 .. n : ps[k] \in Text
  OBVIOUS
<1>2. Merged(ps, size) = Flush(F[DOMAIN ps])
  BY Zenon DEF Merged, FoldLeft, MapThenFoldSet
<1>3. base \in Merging /\ MergedSoFar(base) = <<>>
  <2>1. base.out = <<>> /\ base.buffer = <<>> /\ <<>> \in Seq(Text) /\ <<>> \in Text /\ FlattenSeq(<<>>) = <<>>
    BY JoinOne, ConcatLaws
  <2>2. MergedSoFar(base) = <<>> \o <<>>
    BY <2>1, Zenon DEF MergedSoFar
  <2> QED  BY <2>1, <2>2, ConcatLaws DEF Merging
<1>4. \A acc \in Merging : \A part \in Text :
        On(acc, part) \in Merging /\ MergedSoFar(On(acc, part)) = MergedSoFar(acc) \o part
  BY MergeKeeps
<1> HIDE DEF On, base
<1>5. /\ step \in [Merging \X (1 .. n) -> Merging]
      /\ \A x \in Merging : \A m \in 1 .. n : step[<<x, m>>] = On(x, ps[m])
  BY <1>1, <1>4
<1> HIDE DEF step, n
<1> DEFINE Next(f, S) == IF S = {} THEN base ELSE On(f[S \ {Max(S)}], ps[Max(S)])
<1>6. PICK f : Folded(f, Merging, base, step, n)
  BY <1>1, <1>3, <1>5, FoldWitness, Zenon
<1>7. IsFold(f)
  <2>1. f \in [SUBSET (1 .. n) -> Merging]
    BY <1>6 DEF Folded
  <2>2. f = [S \in SUBSET (1 .. n) |-> f[S]]
    BY <2>1
  <2>3. \A S \in SUBSET (1 .. n) : f[S] = Next(f, S)
    BY <1>5, <1>6, Zenon DEF Folded
  <2>4. f = [S \in SUBSET (1 .. n) |-> Next(f, S)]
    BY <2>2, <2>3, Zenon
  <2> QED  BY <1>1, <2>4, Zenon
<1>8. \A S \in SUBSET (1 .. n) : F[S] = Next(F, S)
  <2>1. IsFold(F)
    BY <1>7, Zenon
  <2> QED  BY <1>1, <2>1, Zenon
<1> HIDE DEF F, IsFold
<1>9. Stepwise(F, Merging, base, step, n)
  <2>1. F[{}] = base
    BY <1>8, Zenon
  <2>2. ASSUME NEW k \in 1 .. n, F[1 .. k - 1] \in Merging
        PROVE  F[1 .. k] = step[<<F[1 .. k - 1], k>>]
    <3>1. 1 .. k \in SUBSET (1 .. n) /\ 1 .. k # {} /\ Max(1 .. k) = k /\ (1 .. k) \ {k} = 1 .. k - 1
      BY <1>1, FirstPositions, Zenon
    <3>2. F[1 .. k] = On(F[1 .. k - 1], ps[k])
      BY <1>8, <3>1, Zenon
    <3> QED  BY <1>5, <2>2, <3>2, Zenon
  <2> QED  BY <2>1, <2>2, Zenon DEF Stepwise
<1>9a. PICK g : Runs(g, F, Merging, base, step, n)
  BY <1>1, <1>3, <1>5, <1>9, FoldRuns, Zenon
<1>10. /\ g \in [0 .. n -> Merging] /\ g[0] = base /\ g[n] = F[1 .. n]
       /\ \A k \in 1 .. n : g[k] = step[<<g[k - 1], k>>]
  BY <1>9a DEF Runs
<1> DEFINE N == {k \in Nat : k <= n => MergedSoFar(g[k]) = FlattenSeq(SubSeq(ps, 1, k))}
<1>11. 0 \in N
  <2>1. SubSeq(ps, 1, 0) = <<>> /\ FlattenSeq(<<>>) = <<>>
    BY JoinOne
  <2> QED  BY <1>3, <1>10, <2>1
<1>12. ASSUME NEW k \in Nat, k \in N
       PROVE  k + 1 \in N
  <2> SUFFICES ASSUME k + 1 <= n
               PROVE  MergedSoFar(g[k + 1]) = FlattenSeq(SubSeq(ps, 1, k + 1))
    OBVIOUS
  <2>1. k + 1 \in 1 .. n /\ (k + 1) - 1 = k /\ k \in 0 .. n
    BY <1>1
  <2>2. g[k] \in Merging /\ ps[k + 1] \in Text /\ MergedSoFar(g[k]) = FlattenSeq(SubSeq(ps, 1, k))
    BY <1>1, <1>10, <1>12, <2>1
  <2>3. g[k + 1] = On(g[k], ps[k + 1])
    BY <1>5, <1>10, <2>1, <2>2
  <2>4. MergedSoFar(g[k + 1]) = FlattenSeq(SubSeq(ps, 1, k)) \o ps[k + 1]
    BY <1>4, <2>2, <2>3
  <2>5. FlattenSeq(SubSeq(ps, 1, k + 1)) = FlattenSeq(SubSeq(ps, 1, k)) \o ps[k + 1]
    BY JoinNext DEF Text, n
  <2> QED  BY <2>4, <2>5
<1>13. Nat \subseteq N
  <2> HIDE DEF N
  <2> QED  BY <1>11, <1>12, SetInduction
<1>14. MergedSoFar(g[n]) = FlattenSeq(ps)
  <2>1. n \in N /\ n <= n
    BY <1>1, <1>13
  <2>2. SubSeq(ps, 1, n) = ps
    BY DEF n
  <2>3. MergedSoFar(g[n]) = FlattenSeq(SubSeq(ps, 1, n))
    BY <2>1
  <2> QED  BY <2>2, <2>3, Zenon
<1>15. g[n] \in Merging /\ Merged(ps, size) = Flush(g[n])
  <2>1. n \in 0 .. n
    BY <1>1
  <2> QED  BY <1>1, <1>2, <1>10, <2>1
<1> QED  BY <1>14, <1>15, FlushJoins

UpTo(ps, size) == \A i \in 1 .. Len(ps) : Len(ps[i]) <= size

\* The slices of a size, one after the other.
LEMMA SlicesAre ==
  ASSUME NEW t \in Text, NEW size \in Nat \ {0}
  PROVE  Slices(t, size) \in Seq(Text) /\ FlattenSeq(Slices(t, size)) = t /\ UpTo(Slices(t, size), size)
<1> DEFINE L == Len(t)
           n == (L + size - 1) \div size
           P(i) == Slice(t, (i - 1) * size, i * size)
           End(i) == IF i * size <= L THEN i * size ELSE L
           f == [i \in 0 .. n |-> End(i)]
           r == Slices(t, size)
<1>1. L \in Nat
  BY DEF Text
<1>2. n \in Nat /\ (\A i \in 1 .. n : (i - 1) * size \in Nat /\ (i - 1) * size < L) /\ n * size >= L
  <2> DEFINE m == n
  <2>1. m = (L + size - 1) \div size /\ L + size - 1 \in Nat
    BY <1>1
  <2> HIDE DEF L
  <2>2. L + size - 1 < m * size + size
    BY <2>1, DivIs
  <2> HIDE DEF m
  <2>3. m \in Nat /\ \A i \in 1 .. m : (i - 1) * size \in Nat /\ (i - 1) * size < L
    BY <1>1, <2>1, StepsCover
  <2>4. m * size >= L
    <3> DEFINE x == m * size
    <3>1. x \in Int /\ L + size - 1 < x + size
      BY <2>2, <2>3
    <3> HIDE DEF x
    <3>2. x >= L
      BY <1>1, <3>1
    <3> QED  BY <3>2 DEF x
  <2> QED  BY <2>3, <2>4 DEF m
<1>3. r = [i \in 1 .. n |-> P(i)]
  BY Zenon DEF Slices
<1> HIDE DEF n
<1>4. \A i \in 0 .. n : i * size \in Nat
  OBVIOUS
<1>5. \A i \in 0 .. n : f[i] = End(i)
  OBVIOUS
<1>6. ASSUME NEW i \in 1 .. n
      PROVE  /\ f[i - 1] = (i - 1) * size /\ f[i - 1] \in Nat /\ f[i] \in Nat
             /\ f[i - 1] <= f[i] /\ f[i] <= L /\ f[i] - f[i - 1] <= size
             /\ P(i) = Slice(t, f[i - 1], f[i])
  <2> DEFINE a == (i - 1) * size
             b == i * size
  <2>1. i - 1 \in 0 .. n /\ i \in 0 .. n /\ (i - 1) + 1 = i /\ i - 1 \in Int
    BY <1>2
  <2>2. b = a + size /\ a \in Nat /\ a < L /\ b \in Nat
    <3>1. ((i - 1) + 1) * size = (i - 1) * size + size
      BY <2>1, TimesNext
    <3> QED  BY <1>2, <1>4, <2>1, <3>1
  <2>3. f[i - 1] = (IF a <= L THEN a ELSE L) /\ f[i] = (IF b <= L THEN b ELSE L)
    BY <1>5, <2>1
  <2> HIDE DEF a, b, f
  <2>4. f[i - 1] = a /\ f[i] \in Nat /\ a <= f[i] /\ f[i] <= L /\ f[i] - a <= size
    BY <1>1, <2>2, <2>3
  <2>5. Slice(t, a, b) = Slice(t, a, f[i])
    <3>1. CASE b <= L
      BY <2>3, <3>1
    <3>2. CASE ~(b <= L)
      <4>1. f[i] = Len(t) /\ Len(t) <= b
        BY <1>1, <2>2, <2>3, <3>2
      <4>2. Slice(t, a, b) = Slice(t, a, Len(t))
        BY <2>2, <4>1, SliceStops
      <4> QED  BY <4>1, <4>2
    <3> QED  BY <3>1, <3>2
  <2> QED  BY <2>2, <2>4, <2>5 DEF a, b
<1>7. f \in [0 .. n -> Nat] /\ f[0] = 0 /\ f[n] = L
  <2>1. \A i \in 0 .. n : End(i) \in Nat
    BY <1>1, <1>4
  <2>2. 0 * size = 0 /\ 0 \in 0 .. n /\ n \in 0 .. n
    BY <1>2
  <2>3. End(0) = 0
    BY <1>1, <2>2
  <2>4. End(n) = L
    <3> DEFINE x == n * size
    <3>1. x \in Nat /\ x >= L
      BY <1>2, <1>4, <2>2
    <3> HIDE DEF x
    <3>2. (IF x <= L THEN x ELSE L) = L
      BY <1>1, <3>1
    <3> QED  BY <3>2 DEF x
  <2>5. f \in [0 .. n -> Nat]
    BY <2>1
  <2> QED  BY <1>5, <2>2, <2>3, <2>4, <2>5
<1> HIDE DEF f, End, L
<1>8. \A i \in 1 .. n : P(i) \in Text /\ Len(P(i)) <= size
  <2> SUFFICES ASSUME NEW i \in 1 .. n
               PROVE  P(i) \in Text /\ Len(P(i)) <= size
    OBVIOUS
  <2> HIDE DEF P
  <2>1. Slice(t, f[i - 1], f[i]) \in Text /\ Len(Slice(t, f[i - 1], f[i])) = f[i] - f[i - 1]
    BY <1>6, SliceIs DEF L
  <2> QED  BY <1>6, <2>1
<1> HIDE DEF P
<1>9. r \in Seq(Text) /\ Len(r) = n /\ \A i \in 1 .. n : r[i] = P(i)
  BY <1>2, <1>3, <1>8
<1> HIDE DEF r
<1>10. Tiles(f, r, t)
  BY <1>6, <1>7, <1>9 DEF Tiles, L
<1>11. FlattenSeq(r) = t
  BY <1>9, <1>10, TilesJoin
<1>12. UpTo(r, size)
  BY <1>8, <1>9 DEF UpTo
<1> QED  BY <1>9, <1>11, <1>12 DEF r

\* One level of the split, for one text.
LEMMA SplitOneJoins ==
  ASSUME NEW t \in Text, NEW size \in Nat \ {0}, NEW separator
  PROVE  /\ SplitOne(t, size, separator) \in Seq(Text) /\ FlattenSeq(SplitOne(t, size, separator)) = t
         /\ separator = <<>> => UpTo(SplitOne(t, size, separator), size)
<1> DEFINE r == SplitOne(t, size, separator)
<1>1. Len(t) \in Nat /\ (Len(t) > size <=> ~(Len(t) <= size))
  BY DEF Text
<1>2. CASE Len(t) <= size
  <2>1. r = <<t>>
    BY <1>1, <1>2, Zenon DEF SplitOne
  <2>2. <<t>> \in Seq(Text) /\ FlattenSeq(<<t>>) = t
    BY JoinOne DEF Text
  <2>3. UpTo(<<t>>, size)
    BY <1>2 DEF UpTo
  <2> QED  BY <2>1, <2>2, <2>3, Zenon
<1>3. CASE ~(Len(t) <= size) /\ separator = <<>>
  <2>1. r = Slices(t, size)
    BY <1>1, <1>3, Zenon DEF SplitOne
  <2>2. Slices(t, size) \in Seq(Text) /\ FlattenSeq(Slices(t, size)) = t /\ UpTo(Slices(t, size), size)
    BY SlicesAre
  <2> QED  BY <2>1, <2>2, Zenon
<1>4. CASE ~(Len(t) <= size) /\ separator # <<>>
  <2>1. r = Merged(Parts(t, separator), size)
    BY <1>1, <1>4, Zenon DEF SplitOne
  <2>2. Parts(t, separator) \in Seq(Text) /\ FlattenSeq(Parts(t, separator)) = t
    BY PartsJoin
  <2> DEFINE ps == Parts(t, separator)
  <2> HIDE DEF ps
  <2>3. Merged(ps, size) \in Seq(Text) /\ FlattenSeq(Merged(ps, size)) = FlattenSeq(ps)
    BY <2>2, MergedJoin DEF ps
  <2> QED  BY <1>4, <2>1, <2>2, <2>3, Zenon DEF ps
<1> QED  BY <1>2, <1>3, <1>4, Zenon

\* One level of the split, for all texts.
LEMMA SplitAllJoins ==
  ASSUME NEW size \in Nat \ {0}, NEW separator
  PROVE  \A ts \in Seq(Text) :
           /\ SplitAll(ts, size, separator) \in Seq(Text)
           /\ FlattenSeq(SplitAll(ts, size, separator)) = FlattenSeq(ts)
           /\ separator = <<>> => UpTo(SplitAll(ts, size, separator), size)
<1> DEFINE One(u) == SplitOne(u, size, separator)
           All(ts) == SplitAll(ts, size, separator)
           Each(ts) == [i \in DOMAIN ts |-> One(ts[i])]
           S == {ts \in Seq(Text) : /\ All(ts) \in Seq(Text) /\ FlattenSeq(All(ts)) = FlattenSeq(ts)
                                    /\ separator = <<>> => UpTo(All(ts), size)}
<1>1. \A u \in Text : One(u) \in Seq(Text) /\ FlattenSeq(One(u)) = u /\ (separator = <<>> => UpTo(One(u), size))
  BY SplitOneJoins
<1>2. \A ts \in Seq(Text) : All(ts) = FlattenSeq(Each(ts))
  BY DEF SplitAll
<1> HIDE DEF One, All
<1>3. <<>> \in S
  <2>1. <<>> \in Seq(Text) /\ Len(<<>>) = 0
    OBVIOUS
  <2>2. Each(<<>>) = <<>>
    OBVIOUS
  <2>3. FlattenSeq(<<>>) = <<>>
    BY JoinOne
  <2>4. All(<<>>) = <<>>
    BY <1>2, <2>1, <2>2, <2>3, Zenon
  <2>5. UpTo(<<>>, size)
    BY DEF UpTo
  <2> QED  BY <2>1, <2>3, <2>4, <2>5
<1>4. ASSUME NEW ts \in Seq(Text), NEW u \in Text, ts \in S
      PROVE  Append(ts, u) \in S
  <2> DEFINE more == Append(ts, u)
  <2>1. /\ more \in Seq(Text) /\ Len(more) = Len(ts) + 1 /\ more[Len(ts) + 1] = u /\ Len(ts) \in Nat
        /\ \A i \in 1 .. Len(ts) : more[i] = ts[i]
    BY AppendElements
  <2>2. DOMAIN more = 1 .. Len(ts) + 1 /\ DOMAIN ts = 1 .. Len(ts) /\ \A i \in 1 .. Len(ts) : ts[i] \in Text
    BY <2>1
  <2> HIDE DEF more
  <2>3. Each(ts) \in Seq(Seq(Text)) /\ Len(Each(ts)) = Len(ts)
    <3>1. \A i \in 1 .. Len(ts) : One(ts[i]) \in Seq(Text)
      BY <1>1, <2>2
    <3> QED  BY <2>1, <2>2, <3>1
  <2>4. Each(more) = Append(Each(ts), One(u))
    <3>1. \A i \in 1 .. Len(ts) + 1 : Each(more)[i] = One(more[i])
      BY <2>2
    <3>2. \A i \in 1 .. Len(ts) : Each(ts)[i] = One(ts[i])
      BY <2>2
    <3>3. One(u) \in Seq(Text) /\ \A i \in 1 .. Len(ts) + 1 : One(more[i]) \in Seq(Text)
      <4>1. \A i \in 1 .. Len(ts) + 1 : more[i] \in Text
        BY <2>1
      <4> QED  BY <1>1, <4>1
    <3>4. Each(more) \in Seq(Seq(Text)) /\ Len(Each(more)) = Len(ts) + 1
      BY <2>1, <2>2, <3>3
    <3> DEFINE e == Each(ts)
               m == Each(more)
               a == Append(e, One(u))
    <3> HIDE DEF e, m, Each
    <3>5. e \in Seq(Seq(Text)) /\ Len(e) = Len(ts) /\ m \in Seq(Seq(Text)) /\ Len(m) = Len(ts) + 1
      BY <2>3, <3>4 DEF e, m
    <3>6. /\ a \in Seq(Seq(Text)) /\ Len(a) = Len(e) + 1 /\ a[Len(e) + 1] = One(u)
          /\ \A i \in 1 .. Len(e) : a[i] = e[i]
      BY <3>3, <3>5, AppendElements
    <3> HIDE DEF a
    <3>7. \A i \in 1 .. Len(ts) + 1 : m[i] = a[i]
      <4> SUFFICES ASSUME NEW i \in 1 .. Len(ts) + 1
                   PROVE  m[i] = a[i]
        OBVIOUS
      <4>1. m[i] = One(more[i])
        BY <3>1 DEF m
      <4>2. CASE i = Len(ts) + 1
        BY <2>1, <3>5, <3>6, <4>1, <4>2, Zenon
      <4>3. CASE i \in 1 .. Len(ts)
        BY <2>1, <3>2, <3>5, <3>6, <4>1, <4>3, Zenon DEF e
      <4> QED  BY <2>1, <4>2, <4>3
    <3>8. m = a
      BY <3>5, <3>6, <3>7, SeqEqual
    <3> QED  BY <3>8 DEF m, a, e
  <2>5. FlattenSeq(Append(Each(ts), One(u))) = FlattenSeq(Each(ts)) \o One(u)
    <3>1. One(u) \in Seq(Text)
      BY <1>1
    <3> HIDE DEF Each
    <3> QED  BY <2>3, <3>1, FlattenSeqAppend
  <2> HIDE DEF Each
  <2>6. All(more) = All(ts) \o One(u)
    BY <1>2, <2>1, <2>4, <2>5, Zenon
  <2>7. /\ All(ts) \in Seq(Text) /\ FlattenSeq(All(ts)) = FlattenSeq(ts)
        /\ separator = <<>> => UpTo(All(ts), size)
    BY <1>4
  <2>8. One(u) \in Seq(Text) /\ FlattenSeq(One(u)) = u /\ (separator = <<>> => UpTo(One(u), size))
    BY <1>1
  <2>9. All(more) \in Seq(Text)
    BY <2>6, <2>7, <2>8
  <2>10. FlattenSeq(All(more)) = FlattenSeq(more)
    <3>1. FlattenSeq(All(ts) \o One(u)) = FlattenSeq(All(ts)) \o FlattenSeq(One(u))
      BY <2>7, <2>8, JoinConcat DEF Text
    <3>2. FlattenSeq(more) = FlattenSeq(ts) \o u
      BY JoinAppend DEF more
    <3> QED  BY <2>6, <2>7, <2>8, <3>1, <3>2, Zenon
  <2>11. separator = <<>> => UpTo(All(more), size)
    <3> SUFFICES ASSUME separator = <<>>
                 PROVE  UpTo(All(more), size)
      OBVIOUS
    <3> DEFINE a == All(ts)
               b == One(u)
               c == a \o b
    <3>1. a \in Seq(Text) /\ b \in Seq(Text) /\ UpTo(a, size) /\ UpTo(b, size)
      BY <2>7, <2>8
    <3> HIDE DEF a, b
    <3>2. /\ Len(c) = Len(a) + Len(b) /\ Len(a) \in Nat /\ Len(b) \in Nat
          /\ \A i \in 1 .. Len(c) : c[i] = IF i <= Len(a) THEN a[i] ELSE b[i - Len(a)]
      BY <3>1
    <3> HIDE DEF c
    <3>3. ASSUME NEW i \in 1 .. Len(c)
          PROVE  Len(c[i]) <= size
      <4>1. CASE i <= Len(a)
        <5>1. i \in 1 .. Len(a)
          BY <3>2, <4>1
        <5> QED  BY <3>1, <3>2, <4>1, <5>1 DEF UpTo
      <4>2. CASE ~(i <= Len(a))
        <5>1. i - Len(a) \in 1 .. Len(b)
          BY <3>2, <4>2
        <5> QED  BY <3>1, <3>2, <4>2, <5>1 DEF UpTo
      <4> QED  BY <4>1, <4>2
    <3> QED  BY <2>6, <3>3 DEF UpTo, a, b, c
  <2> QED  BY <2>1, <2>9, <2>10, <2>11 DEF more
<1>5. Seq(Text) \subseteq S
  <2> HIDE DEF S
  <2> QED  BY <1>3, <1>4, SeqInduction
<1> QED  BY <1>5 DEF All

\* The five levels of _split_text.
LEMMA SplitTextJoins ==
  ASSUME NEW t \in Text, NEW size \in Nat \ {0}
  PROVE  /\ SplitText(t, size) \in Seq(Text) /\ FlattenSeq(SplitText(t, size)) = t
         /\ UpTo(SplitText(t, size), size)
<1> DEFINE Cut(ts, n) == SplitAll(ts, size, Separators[n])
           a == <<t>>
           b == Cut(a, 1)
           c == Cut(b, 2)
           d == Cut(c, 3)
           e == Cut(d, 4)
<1>1. \A n : \A ts \in Seq(Text) : /\ Cut(ts, n) \in Seq(Text) /\ FlattenSeq(Cut(ts, n)) = FlattenSeq(ts)
                                   /\ Separators[n] = <<>> => UpTo(Cut(ts, n), size)
  BY SplitAllJoins
<1>2. a \in Seq(Text) /\ FlattenSeq(a) = t
  BY JoinOne DEF Text
<1>3. SplitText(t, size) = Cut(e, 5)
  BY Zenon DEF SplitText
<1>4. Separators[5] = <<>>
  BY DEF Separators
<1> HIDE DEF Cut, a
<1>5. b \in Seq(Text) /\ FlattenSeq(b) = t
  BY <1>1, <1>2, Zenon
<1> HIDE DEF b
<1>6. c \in Seq(Text) /\ FlattenSeq(c) = t
  BY <1>1, <1>5, Zenon
<1> HIDE DEF c
<1>7. d \in Seq(Text) /\ FlattenSeq(d) = t
  BY <1>1, <1>6, Zenon
<1> HIDE DEF d
<1>8. e \in Seq(Text) /\ FlattenSeq(e) = t
  BY <1>1, <1>7, Zenon
<1> QED  BY <1>1, <1>3, <1>4, <1>8, Zenon

-----------------------------------------------------------------------------
(* The recursive chunker.                                                  *)

Placing == [pieces : Seq(PieceOf), cursor : Nat]

\* The tail of a text is a slice of it, no longer than what was asked for.
LEMMA SuffixIs ==
  ASSUME NEW u \in Text, NEW n \in Nat
  PROVE  /\ Suffix(u, n) \in Text /\ Len(Suffix(u, n)) <= n /\ Len(Suffix(u, n)) <= Len(u)
         /\ Suffix(u, n) = Slice(u, Len(u) - Len(Suffix(u, n)), Len(u))
<1> DEFINE L == Len(u)
           a == IF 0 >= L - n THEN 0 ELSE L - n
<1>1. L \in Nat
  BY DEF Text
<1>2. Max({0, L - n}) = a
  <2>1. 0 \in Int /\ L - n \in Int
    BY <1>1
  <2> QED  BY <2>1, MaxOfTwo
<1>3. Suffix(u, n) = Slice(u, a, L)
  BY <1>2 DEF Suffix
<1>4. a \in Nat /\ a <= L /\ L <= L /\ L - a <= n /\ L - a <= L /\ L - (L - a) = a
  BY <1>1
<1> HIDE DEF a
<1>5. Slice(u, a, L) \in Text /\ Len(Slice(u, a, L)) = L - a
  BY <1>1, <1>4, SliceIs
<1> QED  BY <1>3, <1>4, <1>5

\* A part that stands at the cursor is found there.
LEMMA FindIs ==
  ASSUME NEW t \in Text, NEW u \in Text, NEW cursor \in Nat
  PROVE  /\ Find(t, u, cursor) \in Nat
         /\ cursor + Len(u) <= Len(t) /\ u = Slice(t, cursor, cursor + Len(u)) => Find(t, u, cursor) = cursor
<1> DEFINE hits == {i \in cursor .. Len(t) - Len(u) : Slice(t, i, i + Len(u)) = u}
<1>1. Len(t) \in Nat /\ Len(u) \in Nat
  BY DEF Text
<1>2. Find(t, u, cursor) = IF hits = {} THEN cursor ELSE Min(hits)
  BY DEF Find
<1>3. hits \in SUBSET Nat /\ \A i \in hits : cursor <= i
  BY <1>1
<1>4. cursor + Len(u) <= Len(t) /\ u = Slice(t, cursor, cursor + Len(u)) => cursor \in hits
  BY <1>1
<1> HIDE DEF hits
<1>5. hits # {} => Min(hits) \in hits /\ \A i \in hits : Min(hits) <= i
  BY <1>3, MinIsLeast
<1>6. ASSUME cursor \in hits
      PROVE  Min(hits) = cursor
  <2> DEFINE m == Min(hits)
  <2>1. m \in hits /\ m <= cursor
    BY <1>5, <1>6
  <2> HIDE DEF m
  <2>2. m \in Nat /\ cursor <= m
    BY <1>3, <2>1
  <2>3. m = cursor
    BY <2>1, <2>2
  <2> QED  BY <2>3 DEF m
<1> QED  BY <1>2, <1>3, <1>4, <1>5, <1>6

\* What is placed is a piece.
LEMMA PlaceTyped ==
  ASSUME NEW t \in Text, NEW raw \in Seq(Text), NEW overlap \in Nat,
         NEW acc \in Placing, NEW i \in 1 .. Len(raw)
  PROVE  Place(acc, i, t, raw, overlap) \in Placing
<1> DEFINE start == Find(t, raw[i], acc.cursor)
           tail == IF i > 1 THEN Suffix(raw[i - 1], overlap) ELSE <<>>
           u == tail \o raw[i]
           s == Max({0, start - Len(tail)})
<1>1. acc.pieces \in Seq(PieceOf) /\ acc.cursor \in Nat
  BY DEF Placing
<1>2. raw[i] \in Text /\ Len(raw[i]) \in Nat
  BY DEF Text
<1>3. start \in Nat
  BY <1>1, <1>2, FindIs
<1>4. tail \in Text
  <2>1. CASE i > 1
    <3>1. raw[i - 1] \in Text
      BY <2>1
    <3>2. Suffix(raw[i - 1], overlap) \in Text
      BY <3>1, SuffixIs
    <3> QED  BY <2>1, <3>2
  <2>2. CASE ~(i > 1)
    BY <2>2, ConcatLaws
  <2> QED  BY <2>1, <2>2
<1> HIDE DEF tail, start
<1>5. u \in Text /\ Len(tail) \in Nat
  BY <1>2, <1>4, ConcatIs
<1>6. s \in Nat
  <2>1. start - Len(tail) \in Int /\ 0 \in Int
    BY <1>3, <1>5
  <2>2. s = IF 0 >= start - Len(tail) THEN 0 ELSE start - Len(tail)
    BY <2>1, MaxOfTwo
  <2> QED  BY <2>1, <2>2
<1>7. Place(acc, i, t, raw, overlap) = [pieces |-> Append(acc.pieces, Piece(u, s)), cursor |-> start + Len(raw[i])]
  BY Zenon DEF Place, start, tail
<1> HIDE DEF u, s
<1>8. Piece(u, s) \in PieceOf
  BY <1>5, <1>6 DEF Piece, PieceOf
<1>9. Append(acc.pieces, Piece(u, s)) \in Seq(PieceOf) /\ start + Len(raw[i]) \in Nat
  BY <1>1, <1>2, <1>3, <1>8
<1> QED  BY <1>7, <1>9 DEF Placing

\* The fold of the recursive chunker, one raw part after the other.
LEMMA RecursiveRuns ==
  ASSUME NEW t \in Text, NEW size, NEW overlap \in Nat, SplitText(t, size) \in Seq(Text)
  PROVE  \E g : /\ g \in [0 .. Len(SplitText(t, size)) -> Placing] /\ g[0] = [pieces |-> <<>>, cursor |-> 0]
                /\ \A k \in 1 .. Len(SplitText(t, size)) : g[k] = Place(g[k - 1], k, t, SplitText(t, size), overlap)
                /\ Recursive(t, size, overlap) = Finalize(g[Len(SplitText(t, size))].pieces)
<1> DEFINE n == Len(SplitText(t, size))
           base == [pieces |-> <<>>, cursor |-> 0]
           On(acc, i) == Place(acc, i, t, SplitText(t, size), overlap)
           places == [i \in DOMAIN SplitText(t, size) |-> i]
           IsFold(f) == f = [S \in SUBSET DOMAIN places |->
                               IF S = {} THEN base ELSE On(f[S \ {Max(S)}], places[Max(S)])]
           F == CHOOSE f : IsFold(f)
           step == [p \in Placing \X (1 .. n) |-> On(p[1], p[2])]
<1>1. n \in Nat /\ DOMAIN places = 1 .. n /\ \A k \in 1 .. n : places[k] = k
  OBVIOUS
<1>2. Recursive(t, size, overlap) = Finalize(F[DOMAIN places].pieces)
  BY Zenon DEF Recursive, FoldLeftDomain, FoldLeft, MapThenFoldSet
<1>3. base \in Placing
  BY PlaceTyped DEF Placing
<1>4. \A acc \in Placing : \A i \in 1 .. n : On(acc, i) \in Placing
  BY PlaceTyped DEF Placing
<1> HIDE DEF On, base, places, n
<1>5. /\ step \in [Placing \X (1 .. n) -> Placing]
      /\ \A x \in Placing : \A m \in 1 .. n : step[<<x, m>>] = On(x, m)
  BY <1>4
<1> HIDE DEF step
<1> DEFINE Next(f, S) == IF S = {} THEN base ELSE On(f[S \ {Max(S)}], places[Max(S)])
<1>6. PICK f : Folded(f, Placing, base, step, n)
  BY <1>1, <1>3, <1>5, FoldWitness, Zenon
<1>7. IsFold(f)
  <2>1. f \in [SUBSET (1 .. n) -> Placing]
    BY <1>6 DEF Folded
  <2>2. f = [S \in SUBSET (1 .. n) |-> f[S]]
    BY <2>1
  <2>3. ASSUME NEW S \in SUBSET (1 .. n)
        PROVE  f[S] = Next(f, S)
    <3>1. CASE S = {}
      BY <1>6, <3>1, Zenon DEF Folded
    <3>2. CASE S # {}
      <4>1. /\ Max(S) \in 1 .. n /\ f[S \ {Max(S)}] \in Placing
            /\ f[S] = step[<<f[S \ {Max(S)}], Max(S)>>]
        BY <1>6, <3>2, Zenon DEF Folded
      <4>2. f[S] = On(f[S \ {Max(S)}], Max(S)) /\ places[Max(S)] = Max(S)
        BY <1>1, <1>5, <4>1, Zenon
      <4> QED  BY <3>2, <4>2, Zenon
    <3> QED  BY <3>1, <3>2, Zenon
  <2>4. f = [S \in SUBSET (1 .. n) |-> Next(f, S)]
    BY <2>2, <2>3, Zenon
  <2> QED  BY <1>1, <2>4, Zenon
<1>8. \A S \in SUBSET (1 .. n) : F[S] = Next(F, S)
  <2>1. IsFold(F)
    BY <1>7, Zenon
  <2> QED  BY <1>1, <2>1, Zenon
<1> HIDE DEF F, IsFold
<1>9. Stepwise(F, Placing, base, step, n)
  <2>1. F[{}] = base
    BY <1>8, Zenon
  <2>2. ASSUME NEW k \in 1 .. n, F[1 .. k - 1] \in Placing
        PROVE  F[1 .. k] = step[<<F[1 .. k - 1], k>>]
    <3>1. 1 .. k \in SUBSET (1 .. n) /\ 1 .. k # {} /\ Max(1 .. k) = k /\ (1 .. k) \ {k} = 1 .. k - 1
      BY <1>1, FirstPositions, Zenon
    <3>2. F[1 .. k] = On(F[1 .. k - 1], k)
      BY <1>1, <1>8, <3>1, Zenon
    <3> QED  BY <1>5, <2>2, <3>2, Zenon
  <2> QED  BY <2>1, <2>2, Zenon DEF Stepwise
<1>10. PICK g : Runs(g, F, Placing, base, step, n)
  BY <1>1, <1>3, <1>5, <1>9, FoldRuns, Zenon
<1>11. /\ g \in [0 .. n -> Placing] /\ g[0] = base /\ g[n] = F[1 .. n]
       /\ \A k \in 1 .. n : g[k] = step[<<g[k - 1], k>>]
  BY <1>10 DEF Runs
<1>12. \A k \in 1 .. n : g[k] = On(g[k - 1], k)
  <2>1. \A k \in 1 .. n : k - 1 \in 0 .. n
    BY <1>1
  <2> QED  BY <1>5, <1>11, <2>1, Zenon
<1>13. Recursive(t, size, overlap) = Finalize(g[n].pieces)
  BY <1>1, <1>2, <1>11, Zenon
<1> QED  BY <1>11, <1>12, <1>13, Zenon DEF On, base, n

\* Pieces that are a part each, with what it takes from the part before in front.
Overlapping(pieces, f, d, ps, t, overlap) ==
  /\ pieces \in Seq(PieceOf) /\ Len(pieces) = Len(ps) /\ Tiles(f, ps, t)
  /\ d \in [1 .. Len(ps) -> Nat]
  /\ \A i \in 1 .. Len(ps) :
       /\ d[i] <= overlap /\ d[i] <= f[i - 1]
       /\ i = 1 => d[i] = 0
       /\ i > 1 => d[i] <= f[i - 1] - f[i - 2]
       /\ pieces[i] = Piece(Slice(t, f[i - 1] - d[i], f[i]), f[i - 1] - d[i])

\* A part is placed where the cursor is.
LEMMA PlaceIs ==
  ASSUME NEW t \in Text, NEW raw \in Seq(Text), NEW overlap \in Nat, NEW f, Tiles(f, raw, t),
         NEW i \in 1 .. Len(raw), NEW d, d = IF i > 1 THEN Len(Suffix(raw[i - 1], overlap)) ELSE 0,
         NEW acc \in Placing, acc.cursor = f[i - 1]
  PROVE  /\ d \in Nat /\ d <= overlap /\ d <= f[i - 1]
         /\ i = 1 => d = 0
         /\ i > 1 => d <= f[i - 1] - f[i - 2]
         /\ Piece(Slice(t, f[i - 1] - d, f[i]), f[i - 1] - d) \in PieceOf
         /\ Place(acc, i, t, raw, overlap).cursor = f[i]
         /\ Place(acc, i, t, raw, overlap).pieces =
              Append(acc.pieces, Piece(Slice(t, f[i - 1] - d, f[i]), f[i - 1] - d))
<1> DEFINE n == Len(raw)
           a == f[i - 1]
           b == f[i]
           tail == IF i > 1 THEN Suffix(raw[i - 1], overlap) ELSE <<>>
           r == raw[i]
<1>1. n \in Nat /\ i \in 1 .. n /\ i - 1 \in 0 .. n /\ i \in 0 .. n /\ r \in Text /\ Len(t) \in Nat
  BY DEF Text
<1>2. /\ f \in [0 .. n -> Nat] /\ f[0] = 0
      /\ \A j \in 1 .. n : /\ f[j - 1] <= f[j] /\ f[j] <= Len(t) /\ raw[j] = Slice(t, f[j - 1], f[j])
  BY DEF Tiles
<1>3. a \in Nat /\ b \in Nat /\ a <= b /\ b <= Len(t) /\ r = Slice(t, a, b)
  BY <1>1, <1>2
<1> HIDE DEF r
<1>4. Len(r) = b - a /\ r \in Text
  <2> HIDE DEF a, b
  <2> QED  BY <1>3, SliceIs
<1>5. /\ tail \in Text /\ Len(tail) = d /\ d \in Nat /\ d <= overlap /\ d <= a
      /\ tail = Slice(t, a - d, a)
      /\ i > 1 => d <= f[i - 1] - f[i - 2]
  <2>1. CASE i > 1
    <3> DEFINE p == raw[i - 1]
               c == f[i - 2]
    <3>1. i - 1 \in 1 .. n /\ (i - 1) - 1 = i - 2 /\ i - 2 \in 0 .. n /\ p \in Text
      BY <1>1, <2>1
    <3>2. f[(i - 1) - 1] \in Nat /\ f[(i - 1) - 1] <= f[i - 1] /\ raw[i - 1] = Slice(t, f[(i - 1) - 1], f[i - 1])
      BY <1>2, <3>1
    <3>3. c \in Nat /\ c <= a /\ p = Slice(t, c, a) /\ a <= Len(t)
      BY <1>1, <1>3, <3>1, <3>2
    <3>4. tail = Suffix(p, overlap) /\ d = Len(Suffix(p, overlap))
      BY <2>1
    <3> HIDE DEF a, p, tail, c
    <3>5. /\ Suffix(p, overlap) \in Text /\ Len(Suffix(p, overlap)) <= overlap
          /\ Len(Suffix(p, overlap)) <= Len(p)
          /\ Suffix(p, overlap) = Slice(p, Len(p) - Len(Suffix(p, overlap)), Len(p))
      BY <3>1, SuffixIs
    <3>6. Len(p) = a - c
      BY <1>3, <3>3, SliceIs
    <3>7. tail \in Text /\ Len(tail) = d /\ d \in Nat /\ d <= overlap /\ d <= Len(p) /\ tail = Slice(p, Len(p) - d, Len(p))
      <4>1. tail \in Text /\ Len(tail) = d /\ d <= overlap /\ d <= Len(p) /\ tail = Slice(p, Len(p) - d, Len(p))
        BY <3>4, <3>5, Zenon
      <4>2. Len(tail) \in Nat
        BY <4>1 DEF Text
      <4> QED  BY <4>1, <4>2, Zenon
    <3> DEFINE x == Len(p) - d
               y == Len(p)
    <3>8. x \in Nat /\ y \in Nat /\ x <= y /\ c + y <= a /\ c + x = a - d /\ c + y = a
      BY <1>3, <3>3, <3>6, <3>7
    <3> HIDE DEF x, y
    <3>9. Slice(Slice(t, c, a), x, y) = Slice(t, c + x, c + y)
      BY <1>3, <3>3, <3>8, SliceWithin
    <3>10. tail = Slice(t, a - d, a)
      BY <3>3, <3>7, <3>8, <3>9 DEF x, y
    <3>11. d <= a /\ d <= a - c
      BY <1>3, <3>3, <3>6, <3>7
    <3> QED  BY <3>7, <3>10, <3>11 DEF a, c
  <2>2. CASE ~(i > 1)
    <3>1. d = 0 /\ tail = <<>> /\ a = 0 /\ a - d = 0
      BY <1>1, <1>2, <2>2
    <3>2. Slice(t, 0, 0) \in Seq(Letter) /\ Len(Slice(t, 0, 0)) = 0
      <4>1. \A u, v \in Nat : u <= v /\ v <= Len(t) => Slice(t, u, v) \in Text /\ Len(Slice(t, u, v)) = v - u
        BY SliceIs
      <4>2. 0 \in Nat /\ 0 <= 0 /\ 0 <= Len(t) /\ 0 - 0 = 0
        BY <1>1
      <4> QED  BY <4>1, <4>2, Zenon DEF Text
    <3>3. Slice(t, 0, 0) = <<>>
      <4>1. \A u \in Seq(Letter) : Len(u) = 0 => u = <<>>
        OBVIOUS
      <4> QED  BY <3>2, <4>1, Zenon
    <3>4. Slice(t, a - d, a) = tail
      BY <3>1, <3>3
    <3>5. <<>> \in Text /\ Len(<<>>) = 0
      BY ConcatLaws
    <3>6. tail \in Text /\ Len(tail) = d /\ d \in Nat /\ d <= overlap /\ d <= a
      BY <3>1, <3>5
    <3> QED  BY <2>2, <3>4, <3>6
  <2> QED  BY <2>1, <2>2
<1>6. Find(t, r, acc.cursor) = a
  <2>1. a + Len(r) = b
    BY <1>3, <1>4
  <2>2. a + Len(r) <= Len(t) /\ r = Slice(t, a, a + Len(r))
    BY <1>3, <2>1
  <2> HIDE DEF a, b
  <2>3. Find(t, r, a) = a
    BY <1>3, <1>4, <2>2, FindIs
  <2> QED  BY <2>3 DEF a
<1>7. Place(acc, i, t, raw, overlap) =
        [pieces |-> Append(acc.pieces, Piece(tail \o r, Max({0, Find(t, r, acc.cursor) - Len(tail)}))),
         cursor |-> Find(t, r, acc.cursor) + Len(r)]
  BY Zenon DEF Place, r
<1> HIDE DEF tail, a, b
<1>8. Max({0, a - d}) = a - d
  <2>1. 0 \in Int /\ a - d \in Int /\ a - d >= 0
    BY <1>3, <1>5
  <2>2. Max({0, a - d}) = IF 0 >= a - d THEN 0 ELSE a - d
    BY <2>1, MaxOfTwo
  <2> QED  BY <2>1, <2>2
<1>9. tail \o r = Slice(t, a - d, b)
  <2> DEFINE c == a - d
  <2>1. c \in Nat /\ c <= a
    BY <1>3, <1>5
  <2> HIDE DEF c
  <2>2. Slice(t, c, a) \o Slice(t, a, b) = Slice(t, c, b)
    BY <1>3, <2>1, SlicesJoin
  <2> QED  BY <1>3, <1>5, <2>2 DEF c
<1>10. a + Len(r) = b
  BY <1>3, <1>4
<1> DEFINE piece == Piece(Slice(t, a - d, b), a - d)
<1>11. piece \in PieceOf
  <2> DEFINE c == a - d
  <2>1. c \in Nat /\ c <= b
    BY <1>3, <1>5
  <2> HIDE DEF c
  <2>2. Slice(t, c, b) \in Text
    BY <1>3, <2>1, SliceIs
  <2> QED  BY <2>1, <2>2 DEF c, Piece, PieceOf
<1> HIDE DEF piece
<1>12. Place(acc, i, t, raw, overlap) = [pieces |-> Append(acc.pieces, piece), cursor |-> b]
  BY <1>5, <1>6, <1>7, <1>8, <1>9, <1>10, Zenon DEF piece
<1>13. /\ Place(acc, i, t, raw, overlap).pieces = Append(acc.pieces, piece)
       /\ Place(acc, i, t, raw, overlap).cursor = b
  BY <1>12
<1> QED  BY <1>5, <1>11, <1>13 DEF a, b, piece

\* The pieces the recursive chunker finalizes.
LEMMA RecursiveIs ==
  ASSUME NEW t \in Text, NEW size \in Nat \ {0}, NEW overlap \in Nat
  PROVE  \E pieces, f, d : /\ Recursive(t, size, overlap) = Finalize(pieces)
                           /\ Overlapping(pieces, f, d, SplitText(t, size), t, overlap)
<1> DEFINE raw == SplitText(t, size)
           n == Len(raw)
<1>1. raw \in Seq(Text) /\ FlattenSeq(raw) = t /\ n \in Nat
  BY SplitTextJoins
<1>2. PICK g : /\ g \in [0 .. n -> Placing] /\ g[0] = [pieces |-> <<>>, cursor |-> 0]
               /\ \A k \in 1 .. n : g[k] = Place(g[k - 1], k, t, raw, overlap)
               /\ Recursive(t, size, overlap) = Finalize(g[n].pieces)
  BY <1>1, RecursiveRuns
<1> HIDE DEF raw
<1>3. \E f : Tiles(f, raw, t)
  BY <1>1, JoinTiles, Zenon
<1>4. PICK f : Tiles(f, raw, t)
  BY <1>3
<1> HIDE DEF n
<1> DEFINE D(i) == IF i > 1 THEN Len(Suffix(raw[i - 1], overlap)) ELSE 0
           d == [i \in 1 .. n |-> D(i)]
           P(i) == Piece(Slice(t, f[i - 1] - d[i], f[i]), f[i - 1] - d[i])
           Okay(k) == /\ g[k].cursor = f[k] /\ Len(g[k].pieces) = k
                      /\ \A i \in 1 .. k : g[k].pieces[i] = P(i)
           S == {k \in Nat : k <= n => Okay(k)}
<1>5. \A i \in 1 .. n : d[i] = IF i > 1 THEN Len(Suffix(raw[i - 1], overlap)) ELSE 0
  OBVIOUS
<1>6. d = [i \in 1 .. n |-> d[i]]
  OBVIOUS
<1> HIDE DEF d, D
<1>7. ASSUME NEW i \in 1 .. n, NEW acc \in Placing, acc.cursor = f[i - 1]
      PROVE  /\ d[i] \in Nat /\ d[i] <= overlap /\ d[i] <= f[i - 1]
             /\ i = 1 => d[i] = 0
             /\ i > 1 => d[i] <= f[i - 1] - f[i - 2]
             /\ P(i) \in PieceOf
             /\ Place(acc, i, t, raw, overlap).cursor = f[i]
             /\ Place(acc, i, t, raw, overlap).pieces = Append(acc.pieces, P(i))
  <2>1. i \in 1 .. Len(raw) /\ d[i] = IF i > 1 THEN Len(Suffix(raw[i - 1], overlap)) ELSE 0
    BY <1>5 DEF n
  <2> DEFINE x == d[i]
  <2> HIDE DEF x
  <2>2. x = IF i > 1 THEN Len(Suffix(raw[i - 1], overlap)) ELSE 0
    BY <2>1 DEF x
  <2>3. /\ x \in Nat /\ x <= overlap /\ x <= f[i - 1]
        /\ i = 1 => x = 0
        /\ i > 1 => x <= f[i - 1] - f[i - 2]
        /\ Piece(Slice(t, f[i - 1] - x, f[i]), f[i - 1] - x) \in PieceOf
        /\ Place(acc, i, t, raw, overlap).cursor = f[i]
        /\ Place(acc, i, t, raw, overlap).pieces =
             Append(acc.pieces, Piece(Slice(t, f[i - 1] - x, f[i]), f[i - 1] - x))
    BY <1>1, <1>4, <1>7, <2>1, <2>2, PlaceIs
  <2> QED  BY <2>3, Zenon DEF x
<1> HIDE DEF P
<1>8. f[0] = 0 /\ f \in [0 .. n -> Nat]
  BY <1>4 DEF Tiles, n
<1>9. 0 \in S
  <2>1. g[0].cursor = 0 /\ g[0].pieces = <<>>
    BY <1>2
  <2> QED  BY <1>8, <2>1
<1>10. ASSUME NEW k \in Nat, k \in S
       PROVE  k + 1 \in S
  <2> SUFFICES ASSUME k + 1 <= n
               PROVE  Okay(k + 1)
    OBVIOUS
  <2>1. k + 1 \in 1 .. n /\ (k + 1) - 1 = k /\ k \in 0 .. n /\ k <= n
    BY <1>1
  <2>2. Okay(k) /\ g[k] \in Placing
    BY <1>2, <1>10, <2>1
  <2> DEFINE ps == g[k].pieces
             m == k + 1
             more == Append(ps, P(m))
  <2>3. g[m] = Place(g[k], m, t, raw, overlap)
    BY <1>2, <2>1
  <2>4. ps \in Seq(PieceOf) /\ Len(ps) = k /\ (\A i \in 1 .. k : ps[i] = P(i)) /\ g[k].cursor = f[k]
    BY <2>2 DEF Placing
  <2> HIDE DEF ps, m
  <2>5. /\ P(m) \in PieceOf /\ Place(g[k], m, t, raw, overlap).cursor = f[m]
        /\ Place(g[k], m, t, raw, overlap).pieces = more
    <3>1. m \in 1 .. n /\ m - 1 = k
      BY <2>1 DEF m
    <3>2. g[k].cursor = f[m - 1]
      BY <2>4, <3>1
    <3> QED  BY <1>7, <2>2, <3>1, <3>2, Zenon DEF ps
  <2>6. /\ Len(more) = k + 1 /\ more[k + 1] = P(m) /\ \A i \in 1 .. k : more[i] = ps[i]
    BY <2>4, <2>5, AppendElements
  <2> HIDE DEF more
  <2>7. \A i \in 1 .. k + 1 : more[i] = P(i)
    <3> SUFFICES ASSUME NEW i \in 1 .. k + 1
                 PROVE  more[i] = P(i)
      OBVIOUS
    <3>1. CASE i = k + 1
      BY <2>6, <3>1, Zenon DEF m
    <3>2. CASE i \in 1 .. k
      BY <2>4, <2>6, <3>2, Zenon
    <3> QED  BY <3>1, <3>2
  <2> QED  BY <2>3, <2>5, <2>6, <2>7 DEF m
<1>11. Okay(n)
  <2>1. Nat \subseteq S
    <3> HIDE DEF S
    <3> QED  BY <1>9, <1>10, SetInduction
  <2> QED  BY <1>1, <2>1 DEF n
<1> DEFINE pieces == g[n].pieces
<1>12. pieces \in Seq(PieceOf)
  <2>1. n \in 0 .. n
    BY <1>1 DEF n
  <2> QED  BY <1>2, <2>1 DEF Placing
<1>13. Len(pieces) = n /\ \A i \in 1 .. n : pieces[i] = P(i)
  BY <1>11
<1> HIDE DEF pieces
<1>14. ASSUME NEW i \in 1 .. n
       PROVE  /\ d[i] \in Nat /\ d[i] <= overlap /\ d[i] <= f[i - 1]
              /\ i = 1 => d[i] = 0
              /\ i > 1 => d[i] <= f[i - 1] - f[i - 2]
              /\ pieces[i] = Piece(Slice(t, f[i - 1] - d[i], f[i]), f[i - 1] - d[i])
  <2> DEFINE acc == [pieces |-> <<>>, cursor |-> f[i - 1]]
  <2>1. i - 1 \in 0 .. n
    BY <1>1 DEF n
  <2>2. acc \in Placing /\ acc.cursor = f[i - 1]
    BY <1>8, <2>1 DEF Placing
  <2> HIDE DEF acc
  <2> QED  BY <1>7, <1>13, <2>2, Zenon DEF P
<1>15. d \in [1 .. n -> Nat]
  BY <1>6, <1>14
<1>16. Overlapping(pieces, f, d, raw, t, overlap)
  BY <1>4, <1>12, <1>13, <1>14, <1>15 DEF Overlapping, n
<1> QED  BY <1>2, <1>16, Zenon DEF pieces, raw

\* Every position is in a tile.
LEMMA TilesCover ==
  ASSUME NEW t \in Text, NEW ps \in Seq(Text), NEW f, Tiles(f, ps, t), NEW k \in 1 .. Len(t)
  PROVE  \E i \in 1 .. Len(ps) : f[i - 1] < k /\ k <= f[i]
<1> DEFINE n == Len(ps)
           S == {j \in Nat : j <= n => (k <= f[j] => \E i \in 1 .. n : f[i - 1] < k /\ k <= f[i])}
<1>1. n \in Nat
  OBVIOUS
<1>2. f \in [0 .. n -> Nat] /\ f[0] = 0 /\ f[n] = Len(t)
  BY DEF Tiles
<1> HIDE DEF n
<1>3. 0 \in S
  BY <1>2
<1>4. ASSUME NEW j \in Nat, j \in S
      PROVE  j + 1 \in S
  <2> SUFFICES ASSUME j + 1 <= n, k <= f[j + 1]
               PROVE  \E i \in 1 .. n : f[i - 1] < k /\ k <= f[i]
    OBVIOUS
  <2>1. j + 1 \in 1 .. n /\ (j + 1) - 1 = j /\ j \in 0 .. n /\ j <= n
    BY <1>1
  <2>2. CASE k <= f[j]
    BY <1>4, <2>1, <2>2
  <2>3. CASE ~(k <= f[j])
    <3>1. f[(j + 1) - 1] < k
      BY <1>2, <2>1, <2>3
    <3> QED  BY <2>1, <3>1
  <2> QED  BY <2>2, <2>3
<1>5. Nat \subseteq S
  <2> HIDE DEF S
  <2> QED  BY <1>3, <1>4, SetInduction
<1>6. k <= f[n]
  BY <1>2
<1> QED  BY <1>1, <1>5, <1>6 DEF n

\* A piece that takes from the part before stands in the text.
Placed(pieces, f, d, ps, t, i) ==
  /\ Stands(pieces[i], t) /\ d[i] \in Nat /\ f[i - 1] \in Nat /\ f[i] \in Nat
  /\ d[i] <= f[i - 1] /\ f[i - 1] <= f[i] /\ f[i] <= Len(t)
  /\ pieces[i].start = f[i - 1] - d[i] /\ pieces[i].start + Len(pieces[i].text) = f[i]
  /\ ps[i] = Slice(t, f[i - 1], f[i]) /\ Len(ps[i]) = f[i] - f[i - 1]
  /\ pieces[i].text = Slice(t, f[i - 1] - d[i], f[i - 1]) \o ps[i]

LEMMA OverlappingIs ==
  ASSUME NEW t \in Text, NEW ps \in Seq(Text), NEW overlap \in Nat, NEW pieces, NEW f, NEW d,
         Overlapping(pieces, f, d, ps, t, overlap)
  PROVE  \A i \in 1 .. Len(ps) : Placed(pieces, f, d, ps, t, i)
<1> SUFFICES ASSUME NEW i \in 1 .. Len(ps)
             PROVE  Placed(pieces, f, d, ps, t, i)
  OBVIOUS
<1> DEFINE n == Len(ps)
           a == f[i - 1]
           b == f[i]
           x == d[i]
           c == a - x
           p == pieces[i]
           r == ps[i]
<1>1. n \in Nat /\ i \in 1 .. n /\ i - 1 \in 0 .. n /\ i \in 0 .. n /\ Len(t) \in Nat
  BY DEF Text
<1>2. /\ f \in [0 .. n -> Nat]
      /\ f[i - 1] <= f[i] /\ f[i] <= Len(t) /\ ps[i] = Slice(t, f[i - 1], f[i])
  BY DEF Overlapping, Tiles
<1>3. d \in [1 .. n -> Nat] /\ x <= a /\ p = Piece(Slice(t, c, b), c)
  BY DEF Overlapping
<1>4. a \in Nat /\ b \in Nat /\ x \in Nat /\ a <= b /\ b <= Len(t) /\ r = Slice(t, a, b) /\ c \in Nat /\ c <= a /\ c <= b
  BY <1>1, <1>2, <1>3
<1> HIDE DEF a, b, x, p, r
<1>5. Len(r) = b - a
  BY <1>4, SliceIs
<1> DEFINE u == Slice(t, c, b)
<1> HIDE DEF c
<1>6. u \in Text /\ Len(u) = b - c
  BY <1>4, SliceIs
<1>7. Slice(t, c, a) \o r = u
  BY <1>4, SlicesJoin
<1> HIDE DEF u
<1>8. p.text = u /\ p.start = c /\ p \in PieceOf
  BY <1>3, <1>4, <1>6 DEF Piece, PieceOf, u
<1>9. p.start + Len(p.text) = b
  BY <1>4, <1>6, <1>8
<1>10. Stands(p, t)
  BY <1>4, <1>8, <1>9 DEF Stands, u
<1> QED  BY <1>3, <1>4, <1>5, <1>7, <1>8, <1>9, <1>10 DEF a, b, c, x, p, r, Placed

\* The chunks of the recursive chunker trace the text.
LEMMA RecursiveTraces ==
  ASSUME text \in Text, NEW size \in Nat \ {0}, NEW overlap \in Nat
  PROVE  Traces(Recursive(text, size, overlap))
<1> DEFINE raw == SplitText(text, size)
<1>1. raw \in Seq(Text)
  BY SplitTextJoins
<1>2. PICK pieces, f, d : /\ Recursive(text, size, overlap) = Finalize(pieces)
                          /\ Overlapping(pieces, f, d, raw, text, overlap)
  BY RecursiveIs
<1> HIDE DEF raw
<1>3. pieces \in Seq(PieceOf) /\ Len(pieces) = Len(raw) /\ Tiles(f, raw, text)
  BY <1>2 DEF Overlapping
<1>4. ASSUME NEW i \in 1 .. Len(raw)
      PROVE  /\ Stands(pieces[i], text) /\ d[i] \in Nat /\ f[i - 1] \in Nat
             /\ pieces[i].start = f[i - 1] - d[i] /\ pieces[i].start + Len(pieces[i].text) = f[i]
  <2>1. Placed(pieces, f, d, raw, text, i)
    BY <1>1, <1>2, OverlappingIs, Zenon
  <2> QED  BY <2>1 DEF Placed
<1>5. Covers(pieces, text)
  <2> SUFFICES ASSUME NEW k \in 1 .. Len(text)
               PROVE  \E n \in 1 .. Len(pieces) : pieces[n].start < k /\ k <= pieces[n].start + Len(pieces[n].text)
    BY DEF Covers
  <2>1. PICK i \in 1 .. Len(raw) : f[i - 1] < k /\ k <= f[i]
    BY <1>1, <1>3, TilesCover
  <2>2. pieces[i].start < k
    <3> DEFINE a == f[i - 1]
               x == d[i]
    <3>1. a \in Nat /\ x \in Nat /\ pieces[i].start = a - x /\ a < k
      BY <1>4, <2>1
    <3> HIDE DEF a, x
    <3> QED  BY <3>1
  <2>3. k <= pieces[i].start + Len(pieces[i].text)
    BY <1>4, <2>1
  <2> QED  BY <1>3, <2>2, <2>3
<1> QED  BY <1>2, <1>3, <1>4, <1>5, PiecesTrace

\* A chunk of the recursive chunker is as long as a part, and by what it takes from the
\* part before unless it is the first.
LEMMA RecursiveFits ==
  ASSUME NEW t \in Text, NEW size \in Nat \ {0}, NEW overlap \in Nat, NEW made, made = Recursive(t, size, overlap)
  PROVE  \A i \in DOMAIN made : Len(made[i].text) <= size + (IF i = 1 THEN 0 ELSE overlap)
<1> DEFINE raw == SplitText(t, size)
<1>1. raw \in Seq(Text) /\ UpTo(raw, size)
  BY SplitTextJoins
<1>2. PICK pieces, f, d : /\ Recursive(t, size, overlap) = Finalize(pieces)
                          /\ Overlapping(pieces, f, d, raw, t, overlap)
  BY RecursiveIs
<1> HIDE DEF raw
<1>3. /\ pieces \in Seq(PieceOf) /\ Len(pieces) = Len(raw)
      /\ \A i \in 1 .. Len(raw) : /\ d[i] <= overlap /\ (i = 1 => d[i] = 0)
                                  /\ (i > 1 => d[i] <= f[i - 1] - f[i - 2])
  BY <1>2 DEF Overlapping
<1>4. ASSUME NEW i \in 1 .. Len(raw)
      PROVE  /\ pieces[i].text \in Text /\ d[i] \in Nat /\ f[i - 1] \in Nat /\ f[i] \in Nat
             /\ d[i] <= f[i - 1] /\ f[i - 1] <= f[i] /\ f[i] <= Len(t)
             /\ pieces[i].start = f[i - 1] - d[i] /\ pieces[i].start + Len(pieces[i].text) = f[i]
             /\ Len(raw[i]) = f[i] - f[i - 1] /\ raw[i] \in Text
             /\ pieces[i].text = Slice(t, f[i - 1] - d[i], f[i - 1]) \o raw[i]
             /\ pieces[i].text = Slice(t, pieces[i].start, f[i])
  <2>1. /\ Stands(pieces[i], t) /\ d[i] \in Nat /\ f[i - 1] \in Nat /\ f[i] \in Nat
         /\ d[i] <= f[i - 1] /\ f[i - 1] <= f[i] /\ f[i] <= Len(t)
         /\ pieces[i].start = f[i - 1] - d[i] /\ pieces[i].start + Len(pieces[i].text) = f[i]
         /\ Len(raw[i]) = f[i] - f[i - 1]
         /\ pieces[i].text = Slice(t, f[i - 1] - d[i], f[i - 1]) \o raw[i]
    <3>1. Placed(pieces, f, d, raw, t, i)
      BY <1>1, <1>2, OverlappingIs, Zenon
    <3> QED  BY <3>1 DEF Placed
  <2>2. pieces[i].text \in Text /\ pieces[i].text = Slice(t, pieces[i].start, f[i])
    BY <2>1 DEF Stands, PieceOf
  <2>3. raw[i] \in Text
    BY <1>1
  <2> QED  BY <2>1, <2>2, <2>3
<1>5. PICK at : FinalizedFrom(at, made, pieces)
  BY <1>2, <1>3, FinalizeIs
<1>6. made \in Seq(ChunkOf)
  BY <1>2, <1>3, FinalizeIs
<1>7. /\ at \in [1 .. Len(made) -> 1 .. Len(raw)]
      /\ \A i \in 1 .. Len(made) : made[i].text = Strip(pieces[at[i]].text)
      /\ \A i, j \in 1 .. Len(made) : i < j => at[i] < at[j]
      /\ \A n \in 1 .. Len(raw) : ~Blanks(pieces[n].text) => \E i \in 1 .. Len(made) : at[i] = n
  <2>1. ASSUME NEW i \in 1 .. Len(made)
        PROVE  made[i].text = Strip(pieces[at[i]].text)
    <3> DEFINE p == pieces[at[i]]
    <3>1. made[i] = [text |-> Strip(p.text), start |-> p.start, end |-> p.start + Len(p.text)]
      BY <1>5, Zenon DEF FinalizedFrom
    <3> HIDE DEF p
    <3>2. made[i].text = Strip(p.text)
      BY <3>1
    <3> QED  BY <3>2 DEF p
  <2>2. /\ at \in [1 .. Len(made) -> 1 .. Len(raw)]
        /\ \A i, j \in 1 .. Len(made) : i < j => at[i] < at[j]
        /\ \A n \in 1 .. Len(raw) : ~Blanks(pieces[n].text) => \E i \in 1 .. Len(made) : at[i] = n
    BY <1>3, <1>5, Zenon DEF FinalizedFrom
  <2> QED  BY <2>1, <2>2
<1> SUFFICES ASSUME NEW i \in 1 .. Len(made)
             PROVE  Len(made[i].text) <= size + (IF i = 1 THEN 0 ELSE overlap)
  BY <1>6
<1> DEFINE m == at[i]
           u == pieces[m].text
           r == raw[m]
           a == f[m - 1]
           x == d[m]
<1>8. m \in 1 .. Len(raw)
  BY <1>7
<1>9. /\ u \in Text /\ x \in Nat /\ a \in Nat /\ x <= a /\ a <= Len(t) /\ r \in Text /\ Len(r) \in Nat
      /\ u = Slice(t, a - x, a) \o r /\ x <= overlap /\ made[i].text = Strip(u)
      /\ Len(r) <= size
  <2>1. Len(r) <= size
    BY <1>1, <1>8 DEF UpTo
  <2>2. /\ u \in Text /\ x \in Nat /\ a \in Nat /\ f[m] \in Nat /\ x <= a /\ a <= f[m] /\ f[m] <= Len(t) /\ r \in Text
        /\ u = Slice(t, a - x, a) \o r
    BY <1>4, <1>8
  <2>3. a <= Len(t) /\ Len(r) \in Nat
    BY <2>2 DEF Text
  <2>4. x <= overlap /\ made[i].text = Strip(u)
    BY <1>3, <1>7, <1>8
  <2> QED  BY <2>1, <2>2, <2>3, <2>4
<1> DEFINE tail == Slice(t, a - x, a)
<1>10. tail \in Text /\ Len(tail) = x
  <2> DEFINE c == a - x
  <2> HIDE DEF a, x
  <2>1. c \in Nat /\ c <= a /\ a - c = x
    BY <1>9
  <2> HIDE DEF c
  <2>2. Slice(t, c, a) \in Text /\ Len(Slice(t, c, a)) = a - c
    BY <1>9, <2>1, SliceIs
  <2> QED  BY <2>1, <2>2 DEF c
\* What is in front of the first chunk was not kept.
<1>11. i = 1 => Blanks(tail)
  <2> SUFFICES ASSUME i = 1, NEW k \in 1 .. x
               PROVE  tail[k] \in Blank
    BY <1>10 DEF Blanks
  <2>1. m > 1
    <3>1. m = 1 => x = 0
      BY <1>3, <1>8
    <3> QED  BY <1>8, <3>1
  <2> DEFINE h == m - 1
             v == pieces[h].text
             c == f[m - 2]
             s == pieces[h].start
  <2>2. h \in 1 .. Len(raw) /\ h - 1 = m - 2
    BY <1>8, <2>1
  <2>3. Blanks(v)
    <3> SUFFICES ASSUME ~Blanks(v)
                 PROVE  FALSE
      OBVIOUS
    <3>1. PICK j \in 1 .. Len(made) : at[j] = h
      BY <1>7, <2>2
    <3>2. at[j] < at[i]
      BY <1>8, <3>1
    <3>3. i < j
      <4>1. i # j
        BY <1>8, <3>1
      <4> QED  BY <4>1
    <3>4. at[i] < at[j]
      BY <1>7, <3>3
    <3>5. at[i] \in Int /\ at[j] \in Int
      BY <1>7
    <3> QED  BY <3>2, <3>4, <3>5
  <2>4. f[h] = a
    OBVIOUS
  <2>5. /\ v \in Text /\ s \in Nat /\ s <= c /\ c \in Nat /\ c <= a /\ v = Slice(t, s, a) /\ x <= a - c
    <3>1. /\ v \in Text /\ d[h] \in Nat /\ c \in Nat /\ d[h] <= c /\ c <= a
          /\ s = c - d[h] /\ v = Slice(t, s, a)
      BY <1>4, <2>2, <2>4
    <3>2. x <= a - c
      BY <1>3, <1>8, <2>1
    <3> DEFINE y == d[h]
    <3> HIDE DEF y, s, c
    <3>3. y \in Nat /\ y <= c /\ c \in Nat /\ s = c - y
      BY <3>1 DEF y
    <3>4. s \in Nat /\ s <= c
      BY <3>3
    <3> QED  BY <3>1, <3>2, <3>4
  <2> HIDE DEF a, x, v, c, s
  <2>6. Len(v) = a - s /\ \A j \in 1 .. a - s : v[j] = t[s + j]
    <3>1. s <= a /\ s \in Nat /\ a \in Nat /\ a <= Len(t) /\ v = Slice(t, s, a)
      BY <1>9, <2>5
    <3> DEFINE w == Slice(t, s, a)
    <3>2. Len(w) = a - s /\ \A j \in 1 .. a - s : w[j] = t[s + j]
      BY <3>1, SliceIs
    <3> HIDE DEF w
    <3>3. v = w
      BY <3>1 DEF w
    <3> QED  BY <3>2, <3>3, Zenon
  <2>7. \A j \in 1 .. x : tail[j] = t[(a - x) + j]
    <3> DEFINE z == a - x
    <3>1. z \in Nat /\ z <= a /\ a - z = x
      BY <1>9
    <3> HIDE DEF z
    <3>2. \A j \in 1 .. a - z : Slice(t, z, a)[j] = t[z + j]
      BY <1>9, <3>1, SliceIs
    <3> QED  BY <3>1, <3>2 DEF z
  <2> DEFINE q == (a - x) - s + k
  <2>8. q \in 1 .. a - s /\ s + q = (a - x) + k
    BY <1>9, <2>5
  <2> HIDE DEF q, tail
  <2>9. v[q] = t[(a - x) + k]
    BY <2>6, <2>8
  <2>10. v[q] \in Blank
    BY <2>3, <2>6, <2>8 DEF Blanks
  <2> QED  BY <2>7, <2>9, <2>10
<1>12. CASE i = 1
  <2> HIDE DEF tail, u, r
  <2>1. Len(Strip(tail \o r)) <= Len(r)
    BY <1>9, <1>10, <1>11, <1>12, StripFront
  <2>2. u = tail \o r
    BY <1>9 DEF tail
  <2>3. Strip(u) \in Text
    BY <1>9, StripIs
  <2>4. Len(Strip(u)) \in Nat
    BY <2>3 DEF Text
  <2>5. Len(made[i].text) = Len(Strip(u)) /\ Len(Strip(u)) <= Len(r)
    BY <1>9, <2>1, <2>2
  <2> QED  BY <1>9, <1>12, <2>4, <2>5
<1>13. CASE i # 1
  <2> HIDE DEF tail, u, r, x
  <2>1. Strip(u) \in Text /\ Len(Strip(u)) <= Len(u)
    BY <1>9, StripIs
  <2>2. Len(tail \o r) = Len(tail) + Len(r)
    BY <1>9, <1>10, ConcatIs
  <2>3. Len(u) = x + Len(r)
    BY <1>9, <1>10, <2>2 DEF tail
  <2>4. Len(Strip(u)) \in Nat
    BY <2>1 DEF Text
  <2>5. Len(made[i].text) <= size + overlap
    BY <1>9, <2>1, <2>3, <2>4
  <2> QED  BY <1>13, <2>5
<1> QED  BY <1>12, <1>13

-----------------------------------------------------------------------------
(* The sentences of a text, and the semantic chunker.                      *)

\* A list of one-element lists joins to the list.
LEMMA SinglesJoin ==
  ASSUME NEW X
  PROVE  \A s \in Seq(X) : FlattenSeq([i \in DOMAIN s |-> <<s[i]>>]) = s
<1> DEFINE Each(s) == [i \in DOMAIN s |-> <<s[i]>>]
           S == {s \in Seq(X) : FlattenSeq(Each(s)) = s}
<1>1. <<>> \in S
  <2>1. Each(<<>>) = <<>> /\ <<>> \in Seq(X)
    OBVIOUS
  <2> QED  BY <2>1, JoinOne
<1>2. ASSUME NEW s \in Seq(X), NEW x \in X, s \in S
      PROVE  Append(s, x) \in S
  <2> DEFINE more == Append(s, x)
  <2>1. /\ more \in Seq(X) /\ Len(more) = Len(s) + 1 /\ more[Len(s) + 1] = x /\ Len(s) \in Nat
        /\ \A i \in 1 .. Len(s) : more[i] = s[i]
    BY AppendElements
  <2>2. DOMAIN s = 1 .. Len(s) /\ DOMAIN more = 1 .. Len(s) + 1
    BY <2>1
  <2> HIDE DEF more
  <2> DEFINE e == Each(s)
             m == Each(more)
  <2>3. /\ e \in Seq(Seq(X)) /\ Len(e) = Len(s) /\ \A i \in 1 .. Len(s) : e[i] = <<s[i]>>
    BY <2>2
  <2>4. /\ m \in Seq(Seq(X)) /\ Len(m) = Len(s) + 1 /\ \A i \in 1 .. Len(s) + 1 : m[i] = <<more[i]>>
    BY <2>1, <2>2
  <2>5. <<x>> \in Seq(X)
    OBVIOUS
  <2> HIDE DEF e, m
  <2> DEFINE a == Append(e, <<x>>)
  <2>6. /\ a \in Seq(Seq(X)) /\ Len(a) = Len(e) + 1 /\ a[Len(e) + 1] = <<x>>
        /\ \A i \in 1 .. Len(e) : a[i] = e[i]
    BY <2>3, <2>5, AppendElements
  <2> HIDE DEF a
  <2>7. \A i \in 1 .. Len(m) : m[i] = a[i]
    <3> SUFFICES ASSUME NEW i \in 1 .. Len(s) + 1
                 PROVE  m[i] = a[i]
      BY <2>4
    <3>1. CASE i = Len(s) + 1
      BY <2>1, <2>3, <2>4, <2>6, <3>1, Zenon
    <3>2. CASE i \in 1 .. Len(s)
      BY <2>1, <2>3, <2>4, <2>6, <3>2, Zenon
    <3> QED  BY <2>1, <3>1, <3>2
  <2>8. m = a
    BY <2>3, <2>4, <2>6, <2>7, SeqEqual
  <2>9. FlattenSeq(a) = FlattenSeq(e) \o <<x>>
    BY <2>3, <2>5, FlattenSeqAppend DEF a
  <2>10. FlattenSeq(e) = s
    BY <1>2 DEF e
  <2>11. s \o <<x>> = more
    BY DEF more
  <2>12. FlattenSeq(m) = more
    BY <2>8, <2>9, <2>10, <2>11, Zenon
  <2> QED  BY <2>1, <2>12 DEF m, more
<1>3. Seq(X) \subseteq S
  <2> HIDE DEF S
  <2> QED  BY <1>1, <1>2, SeqInduction
<1> QED  BY <1>3

\* Where sentences end, and what each is: the text in a row, none of it twice.
Endings(e, n, t) ==
  /\ n \in Nat /\ e \in [0 .. n -> Nat] /\ e[0] = 0 /\ e[n] = Len(t)
  /\ \A i \in 1 .. n : e[i - 1] < e[i] /\ e[i] <= Len(t) /\ EndsSentence(t, e[i])

LEMMA SentencesAre ==
  ASSUME NEW t \in Text
  PROVE  \E e, n : /\ Endings(e, n, t)
                   /\ Sentences(t) =
                        FlattenSeq([i \in 1 .. n |->
                          IF Strip(Slice(t, e[i - 1], e[i])) = <<>> THEN <<>>
                          ELSE <<Piece(Slice(t, e[i - 1], e[i]), e[i - 1])>>])
<1> DEFINE L == Len(t)
           One(j) == IF EndsSentence(t, j) THEN <<j>> ELSE <<>>
           seqs == [j \in DOMAIN t |-> One(j)]
           ends == FlattenSeq(seqs)
           n == Len(ends)
           e == [i \in 0 .. n |-> IF i = 0 THEN 0 ELSE ends[i]]
<1>1. L \in Nat /\ DOMAIN t = 1 .. L
  BY DEF Text
<1>2. \A j \in 1 .. L : One(j) \in Seq(1 .. L) /\ Len(One(j)) <= 1 /\ (One(j) # <<>> <=> EndsSentence(t, j))
  <2> SUFFICES ASSUME NEW j \in 1 .. L
               PROVE  One(j) \in Seq(1 .. L) /\ Len(One(j)) <= 1 /\ (One(j) # <<>> <=> EndsSentence(t, j))
    OBVIOUS
  <2>1. <<j>> \in Seq(1 .. L) /\ Len(<<j>>) = 1 /\ <<j>> # <<>> /\ <<>> \in Seq(1 .. L) /\ Len(<<>>) = 0
    OBVIOUS
  <2> HIDE DEF L
  <2>2. CASE EndsSentence(t, j)
    BY <2>1, <2>2
  <2>3. CASE ~EndsSentence(t, j)
    BY <2>1, <2>3
  <2> QED  BY <2>2, <2>3
<1>3. seqs \in Seq(Seq(1 .. L)) /\ Len(seqs) = L /\ \A j \in 1 .. L : seqs[j] = One(j)
  <2>1. \A j \in 1 .. L : One(j) \in Seq(1 .. L)
    BY <1>2
  <2> HIDE DEF One
  <2> QED  BY <1>1, <2>1
<1> HIDE DEF seqs, L, ends
<1>4. ends \in Seq(1 .. L) /\ \E at : Gathers(at, seqs)
  <2>1. \A j \in 1 .. Len(seqs) : Len(seqs[j]) <= 1
    BY <1>2, <1>3
  <2> QED  BY <1>3, <2>1, GathersOne DEF ends
<1>5. PICK at : Gathers(at, seqs)
  BY <1>4
<1>6. /\ at \in [1 .. n -> 1 .. L] /\ \A i \in 1 .. n : seqs[at[i]] = <<ends[i]>>
      /\ \A i, j \in 1 .. n : i < j => at[i] < at[j]
      /\ \A j \in 1 .. L : seqs[j] # <<>> => \E i \in 1 .. n : at[i] = j
  BY <1>3, <1>5 DEF Gathers, ends
<1>7. n \in Nat
  BY <1>4
<1> HIDE DEF n, One
<1>8. \A i \in 1 .. n : ends[i] = at[i] /\ EndsSentence(t, at[i])
  <2> SUFFICES ASSUME NEW i \in 1 .. n
               PROVE  ends[i] = at[i] /\ EndsSentence(t, at[i])
    OBVIOUS
  <2>1. at[i] \in 1 .. L
    BY <1>6
  <2>2. One(at[i]) = <<ends[i]>>
    BY <1>3, <1>6, <2>1, Zenon
  <2>3. <<ends[i]>> # <<>>
    OBVIOUS
  <2>4. EndsSentence(t, at[i])
    BY <1>2, <2>1, <2>2, <2>3, Zenon
  <2>5. <<at[i]>> = <<ends[i]>>
    BY <2>2, <2>4, Zenon DEF One
  <2>6. \A x, y : <<x>> = <<y>> => x = y
    OBVIOUS
  <2> QED  BY <2>4, <2>5, <2>6, Zenon
<1>9. e[0] = 0 /\ (\A i \in 1 .. n : e[i] = ends[i]) /\ DOMAIN e = 0 .. n
  BY <1>7
<1>10. e = [i \in 0 .. n |-> e[i]]
  OBVIOUS
<1> HIDE DEF e
<1>11. \A i \in 1 .. n : e[i] = at[i] /\ e[i] \in 1 .. L /\ EndsSentence(t, e[i])
  BY <1>6, <1>8, <1>9
<1>12. e \in [0 .. n -> Nat]
  <2>1. \A i \in 0 .. n : e[i] \in Nat
    <3> SUFFICES ASSUME NEW i \in 0 .. n
                 PROVE  e[i] \in Nat
      OBVIOUS
    <3>1. CASE i = 0
      BY <1>9, <3>1
    <3>2. CASE i \in 1 .. n
      BY <1>1, <1>11, <3>2
    <3> QED  BY <1>7, <3>1, <3>2
  <2> QED  BY <1>10, <2>1
<1>13. \A i \in 1 .. n : e[i - 1] < e[i]
  <2> SUFFICES ASSUME NEW i \in 1 .. n
               PROVE  e[i - 1] < e[i]
    OBVIOUS
  <2>1. CASE i = 1
    BY <1>1, <1>9, <1>11, <2>1
  <2>2. CASE i # 1
    <3>1. i - 1 \in 1 .. n /\ i - 1 < i
      BY <1>7, <2>2
    <3> QED  BY <1>6, <1>11, <3>1
  <2> QED  BY <2>1, <2>2
<1>14. e[n] = L
  <2>1. CASE L = 0
    <3>1. n = 0
      <4> SUFFICES ASSUME n # 0
                   PROVE  FALSE
        OBVIOUS
      <4>1. 1 \in 1 .. n
        BY <1>7
      <4> QED  BY <1>11, <2>1, <4>1
    <3> QED  BY <1>9, <2>1, <3>1
  <2>2. CASE L # 0
    <3>1. L \in 1 .. L
      BY <1>1, <2>2
    <3>2. EndsSentence(t, L)
      BY DEF EndsSentence, L
    <3>3. seqs[L] # <<>>
      BY <1>2, <1>3, <3>1, <3>2
    <3>4. PICK i \in 1 .. n : at[i] = L
      BY <1>6, <3>1, <3>3
    <3>5. n \in 1 .. n
      BY <1>7, <3>4
    <3>6. at[n] \in 1 .. L /\ (i < n => at[i] < at[n])
      BY <1>6, <3>5
    <3>7. ~(i < n)
      BY <1>1, <3>4, <3>6
    <3>8. i = n
      BY <1>7, <3>7
    <3> QED  BY <1>11, <3>4, <3>5, <3>8
  <2> QED  BY <2>1, <2>2
<1>15. Endings(e, n, t)
  BY <1>1, <1>7, <1>9, <1>11, <1>12, <1>13, <1>14 DEF Endings, L
<1> DEFINE Solid(s) == IF Strip(s.text) = <<>> THEN <<>> ELSE <<s>>
           P(i) == Piece(Slice(t, e[i - 1], e[i]), e[i - 1])
<1>16. Sentences(t) = FlattenSeq([i \in 1 .. n |-> Solid(Sentence(t, ends, i))])
  <2>1. DOMAIN ends = 1 .. n
    BY <1>4 DEF n
  <2>2. Sentences(t) = FlattenSeq([i \in DOMAIN ends |-> Solid(Sentence(t, ends, i))])
    BY Zenon DEF Sentences, ends, seqs, One
  <2> QED  BY <2>1, <2>2
<1>17. \A i \in 1 .. n : Sentence(t, ends, i) = P(i)
  <2> SUFFICES ASSUME NEW i \in 1 .. n
               PROVE  Sentence(t, ends, i) = P(i)
    OBVIOUS
  <2>1. CASE i = 1
    <3>1. e[i - 1] = 0 /\ e[i] = ends[i]
      BY <1>9, <2>1
    <3> QED  BY <2>1, <3>1 DEF Sentence
  <2>2. CASE i # 1
    <3>1. i - 1 \in 1 .. n
      BY <1>7, <2>2
    <3>2. e[i - 1] = ends[i - 1] /\ e[i] = ends[i]
      BY <1>9, <3>1
    <3> QED  BY <2>2, <3>2 DEF Sentence
  <2> QED  BY <2>1, <2>2
<1>18. \A i \in 1 .. n : P(i).text = Slice(t, e[i - 1], e[i])
  BY DEF Piece
<1>19. \A i \in 1 .. n : Solid(Sentence(t, ends, i)) =
         IF Strip(Slice(t, e[i - 1], e[i])) = <<>> THEN <<>> ELSE <<Piece(Slice(t, e[i - 1], e[i]), e[i - 1])>>
  BY <1>17, <1>18, Zenon
<1> HIDE DEF Solid
<1>20. [i \in 1 .. n |-> Solid(Sentence(t, ends, i))] =
       [i \in 1 .. n |->
         IF Strip(Slice(t, e[i - 1], e[i])) = <<>> THEN <<>> ELSE <<Piece(Slice(t, e[i - 1], e[i]), e[i - 1])>>]
  BY <1>19, Zenon
<1> QED  BY <1>15, <1>16, <1>20, Zenon

\* Either nothing but blanks makes no sentence, or the sentences are all of the text.
LEMMA SentencesTile ==
  ASSUME NEW t \in Text
  PROVE  /\ Sentences(t) \in Seq(PieceOf)
         /\ Sentences(t) # <<>> =>
              \E e : /\ Endings(e, Len(Sentences(t)), t)
                     /\ \A i \in 1 .. Len(Sentences(t)) :
                          Sentences(t)[i] = Piece(Slice(t, e[i - 1], e[i]), e[i - 1])
<1> DEFINE L == Len(t)
<1>1. PICK e, n : /\ Endings(e, n, t)
                  /\ Sentences(t) =
                       FlattenSeq([i \in 1 .. n |->
                         IF Strip(Slice(t, e[i - 1], e[i])) = <<>> THEN <<>>
                         ELSE <<Piece(Slice(t, e[i - 1], e[i]), e[i - 1])>>])
  BY SentencesAre
<1>2. /\ n \in Nat /\ e \in [0 .. n -> Nat] /\ e[0] = 0 /\ e[n] = L
      /\ \A i \in 1 .. n : e[i - 1] < e[i] /\ e[i] <= L /\ EndsSentence(t, e[i])
  BY <1>1 DEF Endings
<1>3. L \in Nat
  BY DEF Text
<1> DEFINE W(i) == Slice(t, e[i - 1], e[i])
           P(i) == Piece(W(i), e[i - 1])
           One(i) == IF Strip(W(i)) = <<>> THEN <<>> ELSE <<P(i)>>
           seqs == [i \in 1 .. n |-> One(i)]
           some == Sentences(t)
<1>4. some = FlattenSeq(seqs)
  BY <1>1
<1>5. ASSUME NEW i \in 1 .. n
      PROVE  /\ e[i - 1] \in Nat /\ e[i] \in Nat /\ e[i - 1] < e[i] /\ e[i] <= L
             /\ W(i) \in Text /\ Len(W(i)) = e[i] - e[i - 1]
             /\ \A k \in 1 .. e[i] - e[i - 1] : W(i)[k] = t[e[i - 1] + k]
             /\ P(i) \in PieceOf
             /\ Strip(W(i)) = <<>> <=> Blanks(W(i))
  <2> DEFINE a == e[i - 1]
             b == e[i]
             w == Slice(t, a, b)
  <2>1. i - 1 \in 0 .. n /\ i \in 0 .. n
    BY <1>2
  <2>2. a \in Nat /\ b \in Nat /\ a < b /\ b <= L /\ a <= b
    BY <1>2, <2>1
  <2> HIDE DEF a, b
  <2>3. w \in Text /\ Len(w) = b - a /\ \A k \in 1 .. b - a : w[k] = t[a + k]
    BY <2>2, SliceIs
  <2> HIDE DEF w
  <2>4. Strip(w) = <<>> <=> Blanks(w)
    BY <2>3, StripIs
  <2>5. Piece(w, a) \in PieceOf
    BY <2>2, <2>3 DEF Piece, PieceOf
  <2> QED  BY <2>2, <2>3, <2>4, <2>5 DEF a, b, w
<1> HIDE DEF L, W, P
<1>6. \A i \in 1 .. n : One(i) \in Seq(PieceOf) /\ Len(One(i)) <= 1
  <2> SUFFICES ASSUME NEW i \in 1 .. n
               PROVE  One(i) \in Seq(PieceOf) /\ Len(One(i)) <= 1
    OBVIOUS
  <2>1. P(i) \in PieceOf
    BY <1>5
  <2>2. <<P(i)>> \in Seq(PieceOf) /\ Len(<<P(i)>>) = 1 /\ <<>> \in Seq(PieceOf) /\ Len(<<>>) = 0
    BY <2>1
  <2>3. CASE Strip(W(i)) = <<>>
    BY <2>2, <2>3
  <2>4. CASE Strip(W(i)) # <<>>
    BY <2>2, <2>4
  <2> QED  BY <2>3, <2>4
<1>7. seqs \in Seq(Seq(PieceOf)) /\ Len(seqs) = n /\ \A i \in 1 .. n : seqs[i] = One(i)
  <2>1. \A i \in 1 .. n : One(i) \in Seq(PieceOf)
    BY <1>6
  <2> HIDE DEF One
  <2> QED  BY <1>2, <2>1
<1> HIDE DEF seqs, some
<1>8. some \in Seq(PieceOf) /\ \E at : Gathers(at, seqs)
  <2>1. \A i \in 1 .. Len(seqs) : Len(seqs[i]) <= 1
    BY <1>6, <1>7
  <2> QED  BY <1>4, <1>7, <2>1, GathersOne
<1>9. ASSUME some # <<>>
      PROVE  \E i \in 1 .. n : Strip(W(i)) # <<>>
  <2>1. PICK at : Gathers(at, seqs)
    BY <1>8
  <2>2. Len(some) \in Nat /\ Len(some) # 0
    BY <1>8, <1>9
  <2>3. 1 \in 1 .. Len(some)
    BY <2>2
  <2>4. at[1] \in 1 .. n /\ seqs[at[1]] = <<some[1]>>
    BY <1>4, <1>7, <2>1, <2>3 DEF Gathers
  <2>5. One(at[1]) = <<some[1]>> /\ <<some[1]>> # <<>>
    BY <1>7, <2>4
  <2>6. Strip(W(at[1])) # <<>>
    BY <2>5, Zenon
  <2> QED  BY <2>4, <2>6
<1>10. ASSUME some # <<>>, NEW i \in 1 .. n
       PROVE  Strip(W(i)) # <<>>
  <2>1. CASE i > 1
    <3> DEFINE a == e[i - 1]
    <3>1. i - 1 \in 1 .. n
      BY <1>2, <2>1
    <3>2. EndsSentence(t, a)
      BY <1>2, <3>1
    <3>3. a \in Nat /\ e[i] \in Nat /\ a < e[i] /\ e[i] <= L /\ W(i) \in Text /\ Len(W(i)) = e[i] - a
          /\ \A k \in 1 .. e[i] - a : W(i)[k] = t[a + k]
      BY <1>5
    <3> HIDE DEF a
    <3>4. a # L /\ 1 \in 1 .. e[i] - a
      BY <1>3, <3>3
    <3>5. t[a + 1] \notin Blank
      BY <3>2, <3>4 DEF EndsSentence, L
    <3>6. W(i)[1] \notin Blank
      BY <3>3, <3>4, <3>5
    <3>7. ~Blanks(W(i))
      BY <3>3, <3>4, <3>6 DEF Blanks
    <3> QED  BY <1>5, <3>7
  <2>2. CASE i = 1 /\ n > 1
    <3> DEFINE b == e[1]
               solid == {j \in 1 .. b : t[j] \notin Blank}
    <3>1. 2 \in 1 .. n /\ 1 \in 1 .. n /\ 2 - 1 = 1 /\ 1 - 1 = 0
      BY <1>2, <2>2
    <3>2. e[2 - 1] < e[2] /\ e[2] <= L /\ EndsSentence(t, b) /\ e[2] \in Nat
      BY <1>2, <1>5, <3>1
    <3>3. /\ e[1 - 1] = 0 /\ b \in Nat /\ W(1) \in Text /\ Len(W(1)) = b - e[1 - 1]
          /\ \A k \in 1 .. b - e[1 - 1] : W(1)[k] = t[e[1 - 1] + k]
      BY <1>2, <1>5, <3>1
    <3> HIDE DEF b
    <3>4. b # L
      BY <1>3, <3>1, <3>2, <3>3 DEF b
    <3>5. solid # {}
      BY <3>2, <3>4, Zenon DEF EndsSentence, L
    <3>6. PICK k \in 1 .. b : t[k] \notin Blank
      BY <3>5
    <3>7. b - e[1 - 1] = b /\ e[1 - 1] + k = k
      BY <3>3
    <3>8. W(1)[k] = t[k] /\ Len(W(1)) = b
      BY <3>3, <3>7
    <3>9. ~Blanks(W(1))
      BY <3>6, <3>8 DEF Blanks
    <3> QED  BY <1>5, <2>2, <3>9
  <2>3. CASE i = 1 /\ n = 1
    <3>1. PICK j \in 1 .. n : Strip(W(j)) # <<>>
      BY <1>9, <1>10
    <3>2. j = i
      BY <2>3
    <3> QED  BY <3>1, <3>2
  <2> QED  BY <1>2, <2>1, <2>2, <2>3
<1>11. ASSUME some # <<>>
       PROVE  Len(some) = n /\ \A i \in 1 .. n : some[i] = P(i)
  <2> DEFINE s == [i \in 1 .. n |-> P(i)]
  <2>1. s \in Seq(PieceOf) /\ Len(s) = n /\ DOMAIN s = 1 .. n /\ \A i \in 1 .. n : s[i] = P(i)
    <3>1. \A i \in 1 .. n : P(i) \in PieceOf
      BY <1>5
    <3> QED  BY <1>2, <3>1
  <2> HIDE DEF s
  <2>2. \A i \in 1 .. n : One(i) = <<s[i]>>
    BY <1>10, <1>11, <2>1, Zenon
  <2>3. seqs = [i \in DOMAIN s |-> <<s[i]>>]
    BY <2>1, <2>2, Zenon DEF seqs
  <2>4. FlattenSeq([i \in DOMAIN s |-> <<s[i]>>]) = s
    BY <2>1, SinglesJoin
  <2>5. some = s
    BY <1>4, <2>3, <2>4, Zenon
  <2> QED  BY <2>1, <2>5
<1> QED  BY <1>1, <1>8, <1>11, Zenon DEF some, P, W

Grouping == [out : Seq(PieceOf), buffer : Text, start : Nat]

CoversTo(pieces, m) ==
  \A k \in 1 .. m : \E n \in 1 .. Len(pieces) : pieces[n].start < k /\ k <= pieces[n].start + Len(pieces[n].text)

\* Where the text begins that is not in a piece yet; pieces in a row up to there, and the
\* buffer from there on.
From(acc, m) == IF acc.buffer = <<>> THEN m ELSE acc.start
InRow(pieces, t, m) == (\A n \in 1 .. Len(pieces) : Stands(pieces[n], t)) /\ CoversTo(pieces, m)
Grouped(acc, m, t) ==
  /\ From(acc, m) <= m /\ acc.buffer = Slice(t, From(acc, m), m)
  /\ InRow(acc.out, t, From(acc, m))

\* A slice is a piece that stands in the text.
LEMMA SliceStands ==
  ASSUME NEW t \in Text, NEW a \in Nat, NEW b \in Nat, a <= b, b <= Len(t)
  PROVE  LET p == Piece(Slice(t, a, b), a)
         IN  p \in PieceOf /\ Stands(p, t) /\ p.start = a /\ p.start + Len(p.text) = b
<1> DEFINE u == Slice(t, a, b)
           p == Piece(u, a)
<1>1. u \in Text /\ Len(u) = b - a
  BY SliceIs
<1> HIDE DEF u
<1>2. p.text = u /\ p.start = a /\ p \in PieceOf
  BY <1>1 DEF Piece, PieceOf
<1> HIDE DEF p
<1>3. p.start + Len(p.text) = b
  BY <1>1, <1>2
<1>4. Stands(p, t)
  BY <1>2, <1>3 DEF Stands, u
<1> QED  BY <1>2, <1>3, <1>4 DEF p, u

\* A piece more in the row.
LEMMA InRowMore ==
  ASSUME NEW t \in Text, NEW pieces \in Seq(PieceOf), NEW a \in Nat, NEW b \in Nat, a <= b, b <= Len(t),
         InRow(pieces, t, a), NEW p, p = Piece(Slice(t, a, b), a)
  PROVE  p \in PieceOf /\ Append(pieces, p) \in Seq(PieceOf) /\ InRow(Append(pieces, p), t, b)
<1> DEFINE more == Append(pieces, p)
<1>1. p \in PieceOf /\ Stands(p, t) /\ p.start = a /\ p.start + Len(p.text) = b
  BY SliceStands
<1>2. /\ more \in Seq(PieceOf) /\ Len(more) = Len(pieces) + 1 /\ more[Len(pieces) + 1] = p /\ Len(pieces) \in Nat
      /\ \A i \in 1 .. Len(pieces) : more[i] = pieces[i]
  BY <1>1, AppendElements
<1> HIDE DEF more
<1>3. (\A n \in 1 .. Len(pieces) : Stands(pieces[n], t)) /\ CoversTo(pieces, a)
  BY DEF InRow
<1>4. \A n \in 1 .. Len(more) : Stands(more[n], t)
  <2> SUFFICES ASSUME NEW n \in 1 .. Len(more)
               PROVE  Stands(more[n], t)
    OBVIOUS
  <2>1. CASE n = Len(pieces) + 1
    BY <1>1, <1>2, <2>1, Zenon
  <2>2. CASE n \in 1 .. Len(pieces)
    BY <1>2, <1>3, <2>2, Zenon
  <2> QED  BY <1>2, <2>1, <2>2
<1>5. CoversTo(more, b)
  <2> SUFFICES ASSUME NEW k \in 1 .. b
               PROVE  \E n \in 1 .. Len(more) : more[n].start < k /\ k <= more[n].start + Len(more[n].text)
    BY DEF CoversTo
  <2>1. CASE k <= a
    <3>1. PICK n \in 1 .. Len(pieces) : pieces[n].start < k /\ k <= pieces[n].start + Len(pieces[n].text)
      BY <1>3, <2>1 DEF CoversTo
    <3>2. n \in 1 .. Len(more) /\ more[n] = pieces[n]
      BY <1>2
    <3> QED  BY <3>1, <3>2
  <2>2. CASE ~(k <= a)
    <3> DEFINE n == Len(pieces) + 1
    <3>1. n \in 1 .. Len(more) /\ more[n] = p
      BY <1>2
    <3> HIDE DEF n
    <3>2. more[n].start < k /\ k <= more[n].start + Len(more[n].text)
      BY <1>1, <2>2, <3>1
    <3> QED  BY <3>1, <3>2
  <2> QED  BY <2>1, <2>2
<1> QED  BY <1>1, <1>2, <1>4, <1>5 DEF more, InRow

\* The two ways a sentence is taken.
LEMMA GroupIs ==
  ASSUME NEW acc, NEW i, NEW sentences, NEW gaps
  PROVE  LET start == IF acc.buffer = <<>> THEN sentences[i].start ELSE acc.start
             buffer == acc.buffer \o sentences[i].text
         IN  \/ Group(acc, i, sentences, gaps) =
                  [out |-> Append(acc.out, Piece(buffer, start)), buffer |-> <<>>, start |-> start]
             \/ Group(acc, i, sentences, gaps) = [out |-> acc.out, buffer |-> buffer, start |-> start]
BY Zenon DEF Group

LEMMA GroupTyped ==
  ASSUME NEW sentences \in Seq(PieceOf), NEW gaps, NEW acc \in Grouping, NEW i \in 1 .. Len(sentences)
  PROVE  Group(acc, i, sentences, gaps) \in Grouping
<1> DEFINE start == IF acc.buffer = <<>> THEN sentences[i].start ELSE acc.start
           buffer == acc.buffer \o sentences[i].text
<1>1. acc.out \in Seq(PieceOf) /\ acc.buffer \in Text /\ acc.start \in Nat
  BY DEF Grouping
<1>2. sentences[i] \in PieceOf
  OBVIOUS
<1>3. sentences[i].text \in Text /\ sentences[i].start \in Nat
  BY <1>2 DEF PieceOf
<1>4. start \in Nat
  BY <1>1, <1>3
<1>5. buffer \in Text
  BY <1>1, <1>3, ConcatLaws, Zenon
<1>6. \/ Group(acc, i, sentences, gaps) =
            [out |-> Append(acc.out, Piece(buffer, start)), buffer |-> <<>>, start |-> start]
      \/ Group(acc, i, sentences, gaps) = [out |-> acc.out, buffer |-> buffer, start |-> start]
  BY GroupIs
<1> HIDE DEF start, buffer
<1>7. Piece(buffer, start) \in PieceOf
  BY <1>4, <1>5 DEF Piece, PieceOf
<1>8. Append(acc.out, Piece(buffer, start)) \in Seq(PieceOf) /\ <<>> \in Text
  BY <1>1, <1>7, ConcatLaws
<1> DEFINE more == Append(acc.out, Piece(buffer, start))
           r == Group(acc, i, sentences, gaps)
<1> HIDE DEF more, r
<1>9. \/ r = [out |-> more, buffer |-> <<>>, start |-> start]
      \/ r = [out |-> acc.out, buffer |-> buffer, start |-> start]
  BY <1>6, Zenon DEF more, r
<1>10. more \in Seq(PieceOf)
  BY <1>8 DEF more
<1>11. r \in Grouping
  BY <1>1, <1>4, <1>5, <1>8, <1>9, <1>10 DEF Grouping
<1> QED  BY <1>11 DEF r

\* The fold of the semantic chunker, one sentence after the other.
LEMMA SemanticRuns ==
  ASSUME NEW t \in Text, NEW gaps, Sentences(t) \in Seq(PieceOf)
  PROVE  \E g : /\ g \in [0 .. Len(Sentences(t)) -> Grouping] /\ g[0] = [out |-> <<>>, buffer |-> <<>>, start |-> 0]
                /\ \A k \in 1 .. Len(Sentences(t)) : g[k] = Group(g[k - 1], k, Sentences(t), gaps)
                /\ Semantic(t, gaps) = IF Len(Sentences(t)) < 3 THEN Finalize(<<Piece(t, 0)>>)
                     ELSE Finalize(IF g[Len(Sentences(t))].buffer = <<>> THEN g[Len(Sentences(t))].out ELSE Append(g[Len(Sentences(t))].out, Piece(g[Len(Sentences(t))].buffer, g[Len(Sentences(t))].start)))
<1> DEFINE n == Len(Sentences(t))
           base == [out |-> <<>>, buffer |-> <<>>, start |-> 0]
           On(acc, i) == Group(acc, i, Sentences(t), gaps)
           places == [i \in DOMAIN Sentences(t) |-> i]
           IsFold(f) == f = [S \in SUBSET DOMAIN places |->
                               IF S = {} THEN base ELSE On(f[S \ {Max(S)}], places[Max(S)])]
           F == CHOOSE f : IsFold(f)
           step == [p \in Grouping \X (1 .. n) |-> On(p[1], p[2])]
<1>1. n \in Nat /\ DOMAIN places = 1 .. n /\ \A k \in 1 .. n : places[k] = k
  OBVIOUS
<1>2. Semantic(t, gaps) = IF Len(Sentences(t)) < 3 THEN Finalize(<<Piece(t, 0)>>)
                     ELSE Finalize(IF F[DOMAIN places].buffer = <<>> THEN F[DOMAIN places].out ELSE Append(F[DOMAIN places].out, Piece(F[DOMAIN places].buffer, F[DOMAIN places].start)))
  BY Zenon DEF Semantic, FoldLeftDomain, FoldLeft, MapThenFoldSet
<1>3. base \in Grouping
  BY GroupTyped, ConcatLaws DEF Grouping
<1>4. \A acc \in Grouping : \A i \in 1 .. n : On(acc, i) \in Grouping
  BY GroupTyped, ConcatLaws DEF Grouping
<1> HIDE DEF On, base, places, n
<1>5. /\ step \in [Grouping \X (1 .. n) -> Grouping]
      /\ \A x \in Grouping : \A m \in 1 .. n : step[<<x, m>>] = On(x, m)
  BY <1>4
<1> HIDE DEF step
<1> DEFINE Next(f, S) == IF S = {} THEN base ELSE On(f[S \ {Max(S)}], places[Max(S)])
<1>6. PICK f : Folded(f, Grouping, base, step, n)
  BY <1>1, <1>3, <1>5, FoldWitness, Zenon
<1>7. IsFold(f)
  <2>1. f \in [SUBSET (1 .. n) -> Grouping]
    BY <1>6 DEF Folded
  <2>2. f = [S \in SUBSET (1 .. n) |-> f[S]]
    BY <2>1
  <2>3. ASSUME NEW S \in SUBSET (1 .. n)
        PROVE  f[S] = Next(f, S)
    <3>1. CASE S = {}
      BY <1>6, <3>1, Zenon DEF Folded
    <3>2. CASE S # {}
      <4>1. /\ Max(S) \in 1 .. n /\ f[S \ {Max(S)}] \in Grouping
            /\ f[S] = step[<<f[S \ {Max(S)}], Max(S)>>]
        BY <1>6, <3>2, Zenon DEF Folded
      <4>2. f[S] = On(f[S \ {Max(S)}], Max(S)) /\ places[Max(S)] = Max(S)
        BY <1>1, <1>5, <4>1, Zenon
      <4> QED  BY <3>2, <4>2, Zenon
    <3> QED  BY <3>1, <3>2, Zenon
  <2>4. f = [S \in SUBSET (1 .. n) |-> Next(f, S)]
    BY <2>2, <2>3, Zenon
  <2> QED  BY <1>1, <2>4, Zenon
<1>8. \A S \in SUBSET (1 .. n) : F[S] = Next(F, S)
  <2>1. IsFold(F)
    BY <1>7, Zenon
  <2> QED  BY <1>1, <2>1, Zenon
<1> HIDE DEF F, IsFold
<1>9. Stepwise(F, Grouping, base, step, n)
  <2>1. F[{}] = base
    BY <1>8, Zenon
  <2>2. ASSUME NEW k \in 1 .. n, F[1 .. k - 1] \in Grouping
        PROVE  F[1 .. k] = step[<<F[1 .. k - 1], k>>]
    <3>1. 1 .. k \in SUBSET (1 .. n) /\ 1 .. k # {} /\ Max(1 .. k) = k /\ (1 .. k) \ {k} = 1 .. k - 1
      BY <1>1, FirstPositions, Zenon
    <3>2. F[1 .. k] = On(F[1 .. k - 1], k)
      BY <1>1, <1>8, <3>1, Zenon
    <3> QED  BY <1>5, <2>2, <3>2, Zenon
  <2> QED  BY <2>1, <2>2, Zenon DEF Stepwise
<1>10. PICK g : Runs(g, F, Grouping, base, step, n)
  BY <1>1, <1>3, <1>5, <1>9, FoldRuns, Zenon
<1>11. /\ g \in [0 .. n -> Grouping] /\ g[0] = base /\ g[n] = F[1 .. n]
       /\ \A k \in 1 .. n : g[k] = step[<<g[k - 1], k>>]
  BY <1>10 DEF Runs
<1>12. \A k \in 1 .. n : g[k] = On(g[k - 1], k)
  <2>1. \A k \in 1 .. n : k - 1 \in 0 .. n
    BY <1>1
  <2> QED  BY <1>5, <1>11, <2>1, Zenon
<1>13. Semantic(t, gaps) = IF Len(Sentences(t)) < 3 THEN Finalize(<<Piece(t, 0)>>)
                     ELSE Finalize(IF g[n].buffer = <<>> THEN g[n].out ELSE Append(g[n].out, Piece(g[n].buffer, g[n].start)))
  BY <1>1, <1>2, <1>11, Zenon
<1> QED  BY <1>11, <1>12, <1>13, Zenon DEF On, base, n

\* A sentence more is taken.
LEMMA GroupKeeps ==
  ASSUME NEW t \in Text, NEW sentences, NEW gaps, NEW i, NEW a \in Nat, NEW b \in Nat, a < b, b <= Len(t),
         sentences[i] = Piece(Slice(t, a, b), a), NEW acc \in Grouping, Grouped(acc, a, t)
  PROVE  Grouped(Group(acc, i, sentences, gaps), b, t)
<1> DEFINE start == IF acc.buffer = <<>> THEN sentences[i].start ELSE acc.start
           buffer == acc.buffer \o sentences[i].text
           p == Piece(buffer, start)
           c == From(acc, a)
           r == Group(acc, i, sentences, gaps)
<1>1. acc.out \in Seq(PieceOf) /\ acc.buffer \in Text /\ acc.start \in Nat
  BY DEF Grouping
<1>2. sentences[i].text = Slice(t, a, b) /\ sentences[i].start = a
  BY DEF Piece
<1>3. start = c
  BY <1>2 DEF From
<1>4. c \in Nat /\ c <= a /\ acc.buffer = Slice(t, c, a) /\ InRow(acc.out, t, c)
  <2>1. c \in Nat
    BY <1>1 DEF From
  <2> QED  BY <2>1 DEF Grouped
<1> HIDE DEF c, start
<1>5. buffer = Slice(t, c, b)
  BY <1>2, <1>4, SlicesJoin
<1>6. c < b /\ c <= b /\ Len(Slice(t, c, b)) = b - c
  <2>1. c < b /\ c <= b
    BY <1>4
  <2> QED  BY <1>4, <2>1, SliceIs
<1>7. buffer # <<>>
  <2>1. Len(buffer) > 0 /\ Len(<<>>) = 0
    BY <1>4, <1>5, <1>6
  <2> HIDE DEF buffer
  <2> QED  BY <2>1
<1>8. \/ r = [out |-> Append(acc.out, p), buffer |-> <<>>, start |-> start]
      \/ r = [out |-> acc.out, buffer |-> buffer, start |-> start]
  BY GroupIs DEF start
<1> HIDE DEF buffer, r
<1>9. CASE r = [out |-> Append(acc.out, p), buffer |-> <<>>, start |-> start]
  <2> DEFINE more == Append(acc.out, p)
  <2>1. p = Piece(Slice(t, c, b), c)
    BY <1>3, <1>5
  <2>2. InRow(more, t, b)
    <3> HIDE DEF p
    <3> QED  BY <1>1, <1>4, <1>6, <2>1, InRowMore
  <2> HIDE DEF more, p
  <2>3. r.out = more /\ r.buffer = <<>>
    BY <1>9 DEF more
  <2>4. From(r, b) = b
    BY <2>3 DEF From
  <2>5. Slice(t, b, b) = <<>>
    <3>1. b - b = 0 /\ b <= b
      OBVIOUS
    <3>2. Slice(t, b, b) \in Text /\ Len(Slice(t, b, b)) = b - b
      BY <3>1, SliceIs
    <3>3. \A u \in Text : Len(u) = 0 => u = <<>>
      BY DEF Text
    <3> QED  BY <3>1, <3>2, <3>3, Zenon
  <2>6. b <= b
    OBVIOUS
  <2> QED  BY <2>2, <2>3, <2>4, <2>5, <2>6, Zenon DEF Grouped, r
<1>10. CASE r = [out |-> acc.out, buffer |-> buffer, start |-> start]
  <2>1. r.out = acc.out /\ r.buffer = buffer /\ r.start = start
    BY <1>10
  <2>2. From(r, b) = c
    BY <1>3, <1>7, <2>1, Zenon DEF From
  <2> QED  BY <1>4, <1>5, <1>6, <2>1, <2>2, Zenon DEF Grouped, r
<1> QED  BY <1>8, <1>9, <1>10, Zenon

\* The chunks of the semantic chunker trace the text.
LEMMA SemanticTraces ==
  ASSUME text \in Text, NEW gaps
  PROVE  Traces(Semantic(text, gaps))
<1> DEFINE s == Sentences(text)
           n == Len(s)
<1>1. s \in Seq(PieceOf) /\ n \in Nat /\ Len(text) \in Nat
  BY SentencesTile DEF Text
<1>2. PICK g : /\ g \in [0 .. n -> Grouping] /\ g[0] = [out |-> <<>>, buffer |-> <<>>, start |-> 0]
               /\ \A k \in 1 .. n : g[k] = Group(g[k - 1], k, s, gaps)
               /\ Semantic(text, gaps) =
                    IF n < 3 THEN Finalize(<<Piece(text, 0)>>)
                    ELSE Finalize(IF g[n].buffer = <<>> THEN g[n].out
                                  ELSE Append(g[n].out, Piece(g[n].buffer, g[n].start)))
  BY <1>1, SemanticRuns
\* Pieces in a row up to the end of the text are all it takes.
<1>3. ASSUME NEW pieces \in Seq(PieceOf), InRow(pieces, text, Len(text))
      PROVE  Traces(Finalize(pieces))
  <2>1. Covers(pieces, text)
    BY <1>3, Zenon DEF InRow, CoversTo, Covers
  <2>2. \A i \in 1 .. Len(pieces) : Stands(pieces[i], text)
    BY <1>3 DEF InRow
  <2> QED  BY <2>1, <2>2, PiecesTrace
<1>4. InRow(<<>>, text, 0) /\ <<>> \in Seq(PieceOf)
  BY DEF InRow, CoversTo
<1> HIDE DEF n
<1>5. CASE n < 3
  <2> DEFINE p == Piece(Slice(text, 0, Len(text)), 0)
  <2>1. 0 \in Nat /\ 0 <= Len(text) /\ Len(text) <= Len(text)
    BY <1>1
  <2>2. \A a, b \in Nat : \A ps \in Seq(PieceOf) : a <= b /\ b <= Len(text) /\ InRow(ps, text, a) =>
          LET q == Piece(Slice(text, a, b), a) IN Append(ps, q) \in Seq(PieceOf) /\ InRow(Append(ps, q), text, b)
    BY InRowMore
  <2>3. Append(<<>>, p) \in Seq(PieceOf) /\ InRow(Append(<<>>, p), text, Len(text))
    BY <1>1, <1>4, <2>1, <2>2, Zenon
  <2>4. p = Piece(text, 0)
    BY SliceWhole, Zenon
  <2> HIDE DEF p
  <2>5. Append(<<>>, p) = <<p>>
    OBVIOUS
  <2>6. Traces(Finalize(<<p>>))
    BY <1>3, <2>3, <2>5, Zenon
  <2> QED  BY <1>2, <1>5, <2>4, <2>6, Zenon
<1>6. CASE ~(n < 3)
  <2>1. s # <<>>
    <3>1. Len(<<>>) = 0
      OBVIOUS
    <3> QED  BY <1>1, <1>6, <3>1 DEF n
  <2>2. PICK e : Endings(e, n, text) /\ \A i \in 1 .. n : s[i] = Piece(Slice(text, e[i - 1], e[i]), e[i - 1])
    BY <2>1, SentencesTile DEF n
  <2>3. /\ e \in [0 .. n -> Nat] /\ e[0] = 0 /\ e[n] = Len(text)
        /\ \A i \in 1 .. n : e[i - 1] < e[i] /\ e[i] <= Len(text)
    BY <2>2 DEF Endings
  <2> DEFINE S == {k \in Nat : k <= n => Grouped(g[k], e[k], text)}
  <2> HIDE DEF s
  <2>4. 0 \in S
    <3>1. g[0].out = <<>> /\ g[0].buffer = <<>> /\ g[0].start = 0
      BY <1>2
    <3>2. From(g[0], 0) = 0
      BY <3>1 DEF From
    <3>3. Slice(text, 0, 0) = <<>>
      <4>1. \A u, v \in Nat : u <= v /\ v <= Len(text) => Slice(text, u, v) \in Text /\ Len(Slice(text, u, v)) = v - u
        BY SliceIs
      <4>2. 0 \in Nat /\ 0 <= 0 /\ 0 <= Len(text) /\ 0 - 0 = 0
        BY <1>1
      <4>3. \A u \in Text : Len(u) = 0 => u = <<>>
        BY DEF Text
      <4> QED  BY <4>1, <4>2, <4>3, Zenon
    <3>4. 0 <= 0
      OBVIOUS
    <3>5. Grouped(g[0], 0, text)
      BY <1>4, <3>1, <3>2, <3>3, <3>4, Zenon DEF Grouped
    <3> QED  BY <2>3, <3>5
  <2>5. ASSUME NEW k \in Nat, k \in S
        PROVE  k + 1 \in S
    <3> SUFFICES ASSUME k + 1 <= n
                 PROVE  Grouped(g[k + 1], e[k + 1], text)
      OBVIOUS
    <3>1. k + 1 \in 1 .. n /\ (k + 1) - 1 = k /\ k \in 0 .. n /\ k + 1 \in 0 .. n /\ k <= n
      BY <1>1
    <3> DEFINE a == e[k]
               b == e[k + 1]
               acc == g[k]
               m == k + 1
    <3>2. a \in Nat /\ b \in Nat /\ a < b /\ b <= Len(text)
      BY <2>3, <3>1
    <3>3. s[m] = Piece(Slice(text, a, b), a)
      BY <2>2, <3>1
    <3>4. acc \in Grouping /\ Grouped(acc, a, text)
      BY <1>2, <2>5, <3>1
    <3>5. g[m] = Group(acc, m, s, gaps)
      BY <1>2, <3>1
    <3> HIDE DEF a, b, acc, m
    <3>6. Grouped(Group(acc, m, s, gaps), b, text)
      BY <3>2, <3>3, <3>4, GroupKeeps
    <3> QED  BY <3>5, <3>6 DEF b, m
  <2>6. Nat \subseteq S
    <3> HIDE DEF S
    <3> QED  BY <2>4, <2>5, SetInduction
  <2>7. Grouped(g[n], Len(text), text) /\ g[n] \in Grouping
    <3>1. n \in 0 .. n /\ n <= n
      BY <1>1
    <3>2. Grouped(g[n], e[n], text)
      BY <1>1, <2>6, <3>1
    <3> QED  BY <1>2, <2>3, <3>1, <3>2
  <2> DEFINE acc == g[n]
             c == From(acc, Len(text))
             pieces == IF acc.buffer = <<>> THEN acc.out ELSE Append(acc.out, Piece(acc.buffer, acc.start))
  <2>8. Semantic(text, gaps) = Finalize(pieces)
    BY <1>2, <1>6, Zenon
  <2>9. acc.out \in Seq(PieceOf) /\ acc.buffer \in Text /\ acc.start \in Nat /\ Grouped(acc, Len(text), text)
    BY <2>7 DEF Grouping
  <2> HIDE DEF acc
  <2>10. c <= Len(text) /\ acc.buffer = Slice(text, c, Len(text)) /\ InRow(acc.out, text, c)
    BY <2>9 DEF Grouped
  <2>11. CASE acc.buffer = <<>>
    <3>1. c = Len(text) /\ pieces = acc.out
      BY <2>11 DEF From
    <3>2. InRow(pieces, text, Len(text)) /\ pieces \in Seq(PieceOf)
      BY <2>9, <2>10, <3>1, Zenon
    <3> QED  BY <1>3, <2>8, <3>2, Zenon
  <2>12. CASE acc.buffer # <<>>
    <3> DEFINE p == Piece(acc.buffer, acc.start)
    <3>1. c = acc.start /\ pieces = Append(acc.out, p)
      BY <2>12 DEF From
    <3>2. c \in Nat /\ p = Piece(Slice(text, c, Len(text)), c)
      BY <2>9, <2>10, <3>1, Zenon
    <3> HIDE DEF c, p
    <3>3. Len(text) \in Nat /\ Len(text) <= Len(text)
      BY <1>1
    <3>4. Append(acc.out, p) \in Seq(PieceOf) /\ InRow(Append(acc.out, p), text, Len(text))
      BY <2>9, <2>10, <3>2, <3>3, InRowMore
    <3> QED  BY <1>3, <2>8, <3>1, <3>4, Zenon
  <2> QED  BY <2>11, <2>12
<1> QED  BY <1>5, <1>6

-----------------------------------------------------------------------------
(* The headings of a text, its sections, and the Markdown chunker.         *)

HeadingOf(t) == [level : {1, 2}, start : 0 .. Len(t), end : 0 .. Len(t), title : Text]
Finding(t) == [next : Nat, found : Seq(HeadingOf(t))]

\* Where a title begins and ends.
LEMMA TitleIs ==
  ASSUME NEW t \in Text, NEW i \in 1 .. Len(t)
  PROVE  TitleEnd(t, i) \in 1 .. Len(t) + 1 /\ SubSeq(t, TitleAt(t, i), TitleEnd(t, i) - 1) \in Text
<1> DEFINE L == Len(t)
           S == {j \in i + 1 .. L : t[j] \notin Blank} \union {L + 1}
           a == TitleAt(t, i)
           T == {j \in a .. L : t[j] = "n"} \union {L + 1}
           b == TitleEnd(t, i)
<1>1. L \in Nat /\ t \in Seq(Letter)
  BY DEF Text
<1>2. S \in SUBSET Nat /\ S # {} /\ \A x \in S : x \in 1 .. L + 1
  BY <1>1
<1>3. a = Min(S)
  BY DEF TitleAt
<1> HIDE DEF S, a
<1>4. a \in S
  BY <1>2, <1>3, MinIsLeast
<1>5. a \in 1 .. L + 1
  BY <1>2, <1>4
<1>6. T \in SUBSET Nat /\ T # {} /\ \A x \in T : x \in 1 .. L + 1
  BY <1>1, <1>5
<1>7. b = Min(T)
  BY DEF TitleEnd, a
<1> HIDE DEF T, b
<1>8. b \in T
  BY <1>6, <1>7, MinIsLeast
<1>9. b \in 1 .. L + 1
  BY <1>6, <1>8
<1>10. SubSeq(t, a, b - 1) \in Seq(Letter)
  <2>1. a \in Int /\ b - 1 \in Int /\ a >= 1 /\ b - 1 <= L
    BY <1>1, <1>5, <1>9
  <2>2. \A k \in a .. b - 1 : t[k] \in Letter
    BY <1>1, <2>1
  <2> QED  BY <1>1, <2>1, <2>2
<1> QED  BY <1>9, <1>10 DEF L, a, b, Text

\* A heading more, or not.
LEMMA FindHeadingTyped ==
  ASSUME NEW t \in Text, NEW acc \in Finding(t), NEW i \in 1 .. Len(t)
  PROVE  FindHeading(acc, i, t) \in Finding(t)
<1> DEFINE h == [level |-> IF t[i] = "1" THEN 1 ELSE 2, start |-> i - 1, end |-> TitleEnd(t, i) - 1,
                 title |-> Strip(SubSeq(t, TitleAt(t, i), TitleEnd(t, i) - 1))]
           more == Append(acc.found, h)
           r == FindHeading(acc, i, t)
<1>1. TitleEnd(t, i) \in 1 .. Len(t) + 1 /\ SubSeq(t, TitleAt(t, i), TitleEnd(t, i) - 1) \in Text
  BY TitleIs
<1>2. Strip(SubSeq(t, TitleAt(t, i), TitleEnd(t, i) - 1)) \in Text
  BY <1>1, StripIs
<1>3. i - 1 \in 0 .. Len(t) /\ TitleEnd(t, i) - 1 \in 0 .. Len(t) /\ TitleEnd(t, i) \in Nat
  <2>1. Len(t) \in Nat
    BY DEF Text
  <2> QED  BY <1>1, <2>1
<1>4. h \in HeadingOf(t)
  BY <1>2, <1>3 DEF HeadingOf
<1>5. r = [next |-> TitleEnd(t, i), found |-> more] \/ r = acc
  BY Zenon DEF FindHeading
<1> HIDE DEF h, r
<1>6. more \in Seq(HeadingOf(t))
  <2>1. acc.found \in Seq(HeadingOf(t))
    BY DEF Finding
  <2> QED  BY <1>4, <2>1
<1> HIDE DEF more
<1>7. r \in Finding(t)
  BY <1>3, <1>5, <1>6 DEF Finding
<1> QED  BY <1>7 DEF r

\* The fold that finds the headings.
LEMMA HeadingsRun ==
  ASSUME NEW t \in Text
  PROVE  \E g : /\ g \in [0 .. Len(t) -> Finding(t)] /\ g[0] = [next |-> 1, found |-> <<>>]
                /\ \A k \in 1 .. Len(t) : g[k] = FindHeading(g[k - 1], k, t)
                /\ Headings(t) = g[Len(t)].found
<1> DEFINE n == Len(t)
           base == [next |-> 1, found |-> <<>>]
           On(acc, i) == FindHeading(acc, i, t)
           places == [i \in DOMAIN t |-> i]
           IsFold(f) == f = [S \in SUBSET DOMAIN places |->
                               IF S = {} THEN base ELSE On(f[S \ {Max(S)}], places[Max(S)])]
           F == CHOOSE f : IsFold(f)
           step == [p \in Finding(t) \X (1 .. n) |-> On(p[1], p[2])]
<1>1. n \in Nat /\ DOMAIN places = 1 .. n /\ \A k \in 1 .. n : places[k] = k
  BY DEF Text
<1>2. Headings(t) = F[DOMAIN places].found
  BY Zenon DEF Headings, FoldLeftDomain, FoldLeft, MapThenFoldSet
<1>3. base \in Finding(t)
  BY FindHeadingTyped DEF Finding
<1>4. \A acc \in Finding(t) : \A i \in 1 .. n : On(acc, i) \in Finding(t)
  BY FindHeadingTyped DEF Finding
<1> HIDE DEF On, base, places, n
<1>5. /\ step \in [Finding(t) \X (1 .. n) -> Finding(t)]
      /\ \A x \in Finding(t) : \A m \in 1 .. n : step[<<x, m>>] = On(x, m)
  BY <1>4
<1> HIDE DEF step
<1> DEFINE Next(f, S) == IF S = {} THEN base ELSE On(f[S \ {Max(S)}], places[Max(S)])
<1>6. PICK f : Folded(f, Finding(t), base, step, n)
  BY <1>1, <1>3, <1>5, FoldWitness, Zenon
<1>7. IsFold(f)
  <2>1. f \in [SUBSET (1 .. n) -> Finding(t)]
    BY <1>6 DEF Folded
  <2>2. f = [S \in SUBSET (1 .. n) |-> f[S]]
    BY <2>1
  <2>3. ASSUME NEW S \in SUBSET (1 .. n)
        PROVE  f[S] = Next(f, S)
    <3>1. CASE S = {}
      BY <1>6, <3>1, Zenon DEF Folded
    <3>2. CASE S # {}
      <4>1. /\ Max(S) \in 1 .. n /\ f[S \ {Max(S)}] \in Finding(t)
            /\ f[S] = step[<<f[S \ {Max(S)}], Max(S)>>]
        BY <1>6, <3>2, Zenon DEF Folded
      <4>2. f[S] = On(f[S \ {Max(S)}], Max(S)) /\ places[Max(S)] = Max(S)
        BY <1>1, <1>5, <4>1, Zenon
      <4> QED  BY <3>2, <4>2, Zenon
    <3> QED  BY <3>1, <3>2, Zenon
  <2>4. f = [S \in SUBSET (1 .. n) |-> Next(f, S)]
    BY <2>2, <2>3, Zenon
  <2> QED  BY <1>1, <2>4, Zenon
<1>8. \A S \in SUBSET (1 .. n) : F[S] = Next(F, S)
  <2>1. IsFold(F)
    BY <1>7, Zenon
  <2> QED  BY <1>1, <2>1, Zenon
<1> HIDE DEF F, IsFold
<1>9. Stepwise(F, Finding(t), base, step, n)
  <2>1. F[{}] = base
    BY <1>8, Zenon
  <2>2. ASSUME NEW k \in 1 .. n, F[1 .. k - 1] \in Finding(t)
        PROVE  F[1 .. k] = step[<<F[1 .. k - 1], k>>]
    <3>1. 1 .. k \in SUBSET (1 .. n) /\ 1 .. k # {} /\ Max(1 .. k) = k /\ (1 .. k) \ {k} = 1 .. k - 1
      BY <1>1, FirstPositions, Zenon
    <3>2. F[1 .. k] = On(F[1 .. k - 1], k)
      BY <1>1, <1>8, <3>1, Zenon
    <3> QED  BY <1>5, <2>2, <3>2, Zenon
  <2> QED  BY <2>1, <2>2, Zenon DEF Stepwise
<1>10. PICK g : Runs(g, F, Finding(t), base, step, n)
  BY <1>1, <1>3, <1>5, <1>9, FoldRuns, Zenon
<1>11. /\ g \in [0 .. n -> Finding(t)] /\ g[0] = base /\ g[n] = F[1 .. n]
       /\ \A k \in 1 .. n : g[k] = step[<<g[k - 1], k>>]
  BY <1>10 DEF Runs
<1>12. \A k \in 1 .. n : g[k] = On(g[k - 1], k)
  <2>1. \A k \in 1 .. n : k - 1 \in 0 .. n
    BY <1>1
  <2> QED  BY <1>5, <1>11, <2>1, Zenon
<1>13. Headings(t) = g[n].found
  BY <1>1, <1>2, <1>11, Zenon
<1> QED  BY <1>11, <1>12, <1>13, Zenon DEF On, base, n

LEMMA HeadingsTyped ==
  ASSUME NEW t \in Text
  PROVE  Headings(t) \in Seq(HeadingOf(t))
<1>1. PICK g : g \in [0 .. Len(t) -> Finding(t)] /\ Headings(t) = g[Len(t)].found
  BY HeadingsRun
<1>2. Len(t) \in 0 .. Len(t)
  BY DEF Text
<1> QED  BY <1>1, <1>2 DEF Finding

\* The heading path is a text.
LEMMA PathTyped ==
  ASSUME NEW t \in Text, NEW hs \in Seq(HeadingOf(t)), NEW i \in 0 .. Len(hs)
  PROVE  Path(hs, i) \in Text /\ Prefix(Path(hs, i)) \in Text
<1> DEFINE One(k) == CASE ~Open(hs, i, k) -> <<>>
                       [] Open(hs, i, k) /\ k < i -> Append(hs[k].title, ">")
                       [] OTHER -> hs[k].title
           titles == [k \in 1 .. i |-> One(k)]
<1>1. ASSUME NEW k \in 1 .. i
      PROVE  One(k) \in Text
  <2>1. hs[k] \in HeadingOf(t)
    OBVIOUS
  <2>2. hs[k].title \in Text /\ <<>> \in Text
    BY <2>1, ConcatLaws DEF HeadingOf
  <2>3. Append(hs[k].title, ">") \in Text
    <3>1. ">" \in Letter
      BY DEF Letter
    <3> QED  BY <2>2, <3>1, ConcatLaws
  <2>4. CASE ~Open(hs, i, k)
    BY <2>2, <2>4, Zenon
  <2>5. CASE Open(hs, i, k) /\ k < i
    BY <2>3, <2>5, Zenon
  <2>6. CASE Open(hs, i, k) /\ ~(k < i)
    BY <2>2, <2>6, Zenon
  <2> QED  BY <2>4, <2>5, <2>6
<1> HIDE DEF One
<1>2. titles \in Seq(Seq(Letter))
  <2>1. i \in Nat /\ \A k \in 1 .. i : One(k) \in Seq(Letter)
    BY <1>1 DEF Text
  <2> QED  BY <2>1
<1>3. Path(hs, i) = FlattenSeq(titles)
  BY Zenon DEF Path, One
<1> DEFINE path == Path(hs, i)
<1> HIDE DEF titles, path
<1>4. path \in Text
  BY <1>2, <1>3, FlattenSeqProperties DEF Text, path
<1>5. Prefix(path) \in Text
  <2>1. "n" \in Letter /\ <<>> \in Text
    BY ConcatLaws DEF Letter
  <2>2. Append(path, "n") \in Text
    BY <1>4, <2>1, ConcatLaws
  <2> QED  BY <2>1, <2>2 DEF Prefix
<1> QED  BY <1>4, <1>5 DEF path

\* A section that is kept: its body is a slice of the text.
LEMMA SectionsAre ==
  ASSUME NEW t \in Text, NEW n \in DOMAIN Sections(t), NEW s, s = Sections(t)[n]
  PROVE  /\ Prefix(s.path) \in Text /\ s.body \in Text /\ s.start \in Nat
         /\ \E end \in Nat : s.start <= end /\ end <= Len(t) /\ s.body = Slice(t, s.start, end)
<1> DEFINE hs == Headings(t)
           m == Len(hs)
           Sec(i) == Section(t, hs, i - 1)
           Solid(x) == IF Strip(x.body) = <<>> THEN <<>> ELSE <<x>>
           X == {Sec(i) : i \in 1 .. m + 1}
           seqs == [i \in 1 .. m + 1 |-> Solid(Sec(i))]
<1>1. hs \in Seq(HeadingOf(t)) /\ m \in Nat /\ Len(t) \in Nat
  <2>1. hs \in Seq(HeadingOf(t))
    BY HeadingsTyped
  <2> HIDE DEF hs
  <2> QED  BY <2>1 DEF Text
<1>2. Sections(t) = FlattenSeq(seqs)
  BY Zenon DEF Sections
<1> HIDE DEF hs, m
<1>3. \A i \in 1 .. m + 1 : Solid(Sec(i)) \in Seq(X) /\ Len(Solid(Sec(i))) <= 1
  <2> SUFFICES ASSUME NEW i \in 1 .. m + 1
               PROVE  Solid(Sec(i)) \in Seq(X) /\ Len(Solid(Sec(i))) <= 1
    OBVIOUS
  <2> DEFINE x == Sec(i)
  <2>1. x \in X
    OBVIOUS
  <2> HIDE DEF x, X
  <2>2. <<x>> \in Seq(X) /\ Len(<<x>>) = 1 /\ <<>> \in Seq(X) /\ Len(<<>>) = 0
    BY <2>1
  <2>3. Solid(x) = <<>> \/ Solid(x) = <<x>>
    OBVIOUS
  <2> HIDE DEF Solid
  <2>4. Solid(x) \in Seq(X) /\ Len(Solid(x)) <= 1
    <3>1. Len(<<x>>) <= 1 /\ Len(<<>>) <= 1
      BY <2>2
    <3> QED  BY <2>2, <2>3, <3>1, Zenon
  <2> QED  BY <2>4 DEF x
<1> HIDE DEF Sec, Solid, X
<1>4. seqs \in Seq(Seq(X)) /\ Len(seqs) = m + 1 /\ \A i \in 1 .. m + 1 : seqs[i] = Solid(Sec(i))
  BY <1>1, <1>3
<1> HIDE DEF seqs
<1> DEFINE all == Sections(t)
<1>5. all \in Seq(X) /\ \E at : Gathers(at, seqs)
  <2>1. \A i \in 1 .. Len(seqs) : Len(seqs[i]) <= 1
    BY <1>3, <1>4
  <2> QED  BY <1>2, <1>4, <2>1, GathersOne
<1>6. PICK at : Gathers(at, seqs)
  BY <1>5
<1>7. n \in 1 .. Len(all)
  BY <1>5
<1>8. at[n] \in 1 .. m + 1 /\ seqs[at[n]] = <<s>>
  BY <1>2, <1>4, <1>6, <1>7 DEF Gathers
<1> DEFINE i == at[n]
           j == i - 1
<1>9. s = Sec(i) /\ Strip(s.body) # <<>>
  <2>1. Solid(Sec(i)) = <<s>>
    BY <1>4, <1>8
  <2>2. <<s>> # <<>> /\ \A x, y : <<x>> = <<y>> => x = y
    OBVIOUS
  <2> QED  BY <2>1, <2>2, Zenon DEF Solid
<1> HIDE DEF i
<1>10. j \in 0 .. m /\ i \in 1 .. m + 1
  BY <1>1, <1>8 DEF i
<1> HIDE DEF j
<1> DEFINE start == IF j = 0 THEN 0 ELSE hs[j].end
           end == IF j < m THEN hs[j + 1].start ELSE Len(t)
<1>11. s = [path |-> Path(hs, j), body |-> Slice(t, start, end), start |-> start]
  BY <1>9, Zenon DEF Sec, Section, j, m
<1>12. start \in 0 .. Len(t)
  <2>1. CASE j = 0
    BY <1>1, <2>1
  <2>2. CASE j # 0
    <3>1. hs[j] \in HeadingOf(t)
      BY <1>1, <1>10, <2>2 DEF m
    <3> QED  BY <2>2, <3>1 DEF HeadingOf
  <2> QED  BY <2>1, <2>2
<1>13. end \in 0 .. Len(t)
  <2>1. CASE j < m
    <3>1. hs[j + 1] \in HeadingOf(t)
      BY <1>1, <1>10, <2>1 DEF m
    <3> QED  BY <2>1, <3>1 DEF HeadingOf
  <2>2. CASE ~(j < m)
    BY <1>1, <2>2
  <2> QED  BY <2>1, <2>2
<1> HIDE DEF start, end
<1>14. s.path = Path(hs, j) /\ s.body = Slice(t, start, end) /\ s.start = start
  BY <1>11
<1>15. start <= end
  <2> SUFFICES ASSUME end < start
               PROVE  FALSE
    BY <1>12, <1>13
  <2>1. Min({end, Len(t)}) = end
    BY <1>1, <1>13, MinOfTwo
  <2>2. Slice(t, start, end) = SubSeq(t, start + 1, end)
    BY <2>1 DEF Slice
  <2>3. SubSeq(t, start + 1, end) = <<>>
    BY <1>1, <1>12, <1>13 DEF Text
  <2>4. <<>> \in Text /\ Blanks(<<>>)
    BY ConcatLaws DEF Blanks
  <2>5. Strip(<<>>) = <<>>
    BY <2>4, StripIs
  <2> QED  BY <1>9, <1>14, <2>2, <2>3, <2>5
<1>16. s.body \in Text
  BY <1>1, <1>12, <1>13, <1>14, <1>15, SliceIs
<1>17. Prefix(s.path) \in Text
  <2>1. j \in 0 .. Len(hs)
    BY <1>10 DEF m
  <2> QED  BY <1>1, <1>14, <2>1, PathTyped
<1> QED  BY <1>12, <1>13, <1>14, <1>15, <1>16, <1>17

\* What stands behind a prefix.
LEMMA SliceBehind ==
  ASSUME NEW u \in Text, NEW v \in Text
  PROVE  Slice(u \o v, Len(u), Len(u \o v)) = v
<1> DEFINE w == u \o v
           b == Slice(w, Len(u), Len(w))
<1>1. /\ w \in Text /\ Len(w) = Len(u) + Len(v) /\ Len(u) \in Nat /\ Len(v) \in Nat
      /\ \A k \in 1 .. Len(v) : w[Len(u) + k] = v[k]
  BY ConcatIs
<1> HIDE DEF w
<1>2. Len(w) \in Nat /\ Len(u) <= Len(w) /\ Len(w) <= Len(w) /\ Len(w) - Len(u) = Len(v)
  BY <1>1
<1>3. b \in Text /\ Len(b) = Len(w) - Len(u) /\ \A k \in 1 .. Len(w) - Len(u) : b[k] = w[Len(u) + k]
  BY <1>1, <1>2, SliceIs
<1> HIDE DEF b
<1>4. b = v
  BY <1>1, <1>2, <1>3, TextsEqual
<1> QED  BY <1>4 DEF b, w

\* A body is cut so that it fits behind its prefix.
LEMMA BodiesFit ==
  ASSUME NEW body \in Text, NEW prefix \in Text, NEW bodies,
         bodies = IF Len(body) + Len(prefix) <= ChunkSize THEN <<body>>
                  ELSE SplitText(body, Max({1, ChunkSize - Len(prefix)}))
  PROVE  /\ bodies \in Seq(Text) /\ FlattenSeq(bodies) = body
         /\ \A i \in 1 .. Len(bodies) : Len(prefix) + Len(bodies[i]) <= Max({ChunkSize, Len(prefix) + 1})
<1> DEFINE L == Len(prefix)
           room == Max({1, ChunkSize - L})
           most == Max({ChunkSize, L + 1})
<1>0. bodies = IF Len(body) + L <= ChunkSize THEN <<body>> ELSE SplitText(body, room)
  OBVIOUS
<1>1. L \in Nat /\ Len(body) \in Nat /\ ChunkSize \in Nat \ {0}
  BY SizesTyped DEF Text
<1>2. room = IF 1 >= ChunkSize - L THEN 1 ELSE ChunkSize - L
  <2>1. 1 \in Int /\ ChunkSize - L \in Int
    BY <1>1
  <2> QED  BY <2>1, MaxOfTwo
<1>3. most = IF ChunkSize >= L + 1 THEN ChunkSize ELSE L + 1
  <2>1. ChunkSize \in Int /\ L + 1 \in Int
    BY <1>1
  <2> QED  BY <2>1, MaxOfTwo
<1> HIDE DEF room, most, L
<1>4. room \in Nat \ {0} /\ most \in Nat /\ L + room <= most /\ ChunkSize <= most
  BY <1>1, <1>2, <1>3
<1>5. ASSUME Len(body) + L <= ChunkSize
      PROVE  /\ bodies \in Seq(Text) /\ FlattenSeq(bodies) = body
             /\ \A i \in 1 .. Len(bodies) : L + Len(bodies[i]) <= most
  <2>1. bodies = <<body>>
    BY <1>0, <1>5
  <2>2. <<body>> \in Seq(Text) /\ FlattenSeq(<<body>>) = body
    BY JoinOne DEF Text
  <2>3. \A i \in 1 .. Len(<<body>>) : L + Len(<<body>>[i]) <= most
    <3>1. L + Len(body) <= most
      BY <1>1, <1>4, <1>5
    <3> QED  BY <3>1
  <2> QED  BY <2>1, <2>2, <2>3, Zenon
<1>6. ASSUME ~(Len(body) + L <= ChunkSize)
      PROVE  /\ bodies \in Seq(Text) /\ FlattenSeq(bodies) = body
             /\ \A i \in 1 .. Len(bodies) : L + Len(bodies[i]) <= most
  <2> DEFINE r == SplitText(body, room)
  <2>1. bodies = r
    BY <1>0, <1>6
  <2>2. r \in Seq(Text) /\ FlattenSeq(r) = body /\ UpTo(r, room)
    BY <1>4, SplitTextJoins
  <2> HIDE DEF r
  <2>3. \A i \in 1 .. Len(r) : L + Len(r[i]) <= most
    <3> SUFFICES ASSUME NEW i \in 1 .. Len(r)
                 PROVE  L + Len(r[i]) <= most
      OBVIOUS
    <3>1. Len(r[i]) <= room /\ r[i] \in Text
      BY <2>2 DEF UpTo
    <3>2. Len(r[i]) \in Nat
      BY <3>1 DEF Text
    <3> QED  BY <1>1, <1>4, <3>1, <3>2
  <2> QED  BY <2>1, <2>2, <2>3, Zenon
<1>7. /\ bodies \in Seq(Text) /\ FlattenSeq(bodies) = body
      /\ \A i \in 1 .. Len(bodies) : L + Len(bodies[i]) <= most
  BY <1>5, <1>6, Zenon
<1> QED  BY <1>7 DEF L, most

\* The pieces of a section, at their places.
LEMMA SectionKeeps ==
  ASSUME text \in Text, NEW n \in DOMAIN Sections(text), NEW s, s = Sections(text)[n],
         NEW pieces, pieces = SectionPieces(s), NEW prefix, prefix = Prefix(s.path)
  PROVE  SectionKept(s, pieces, prefix)
<1> DEFINE t == text
<1> DEFINE most == Max({ChunkSize, Len(prefix) + 1})
           bodies == IF Len(s.body) + Len(prefix) <= ChunkSize THEN <<s.body>>
                     ELSE SplitText(s.body, Max({1, ChunkSize - Len(prefix)}))
           m == Len(bodies)
           Behind(i) == Len(FlattenSeq(SubSeq(bodies, 1, i - 1)))
           P(i) == Piece(prefix \o bodies[i], s.start + Behind(i))
<1>1. prefix \in Text /\ s.body \in Text /\ s.start \in Nat
  BY SectionsAre
<1>2. \E end \in Nat : s.start <= end /\ end <= Len(t) /\ s.body = Slice(t, s.start, end)
  BY SectionsAre
<1>3. PICK end \in Nat : s.start <= end /\ end <= Len(t) /\ s.body = Slice(t, s.start, end)
  BY <1>2
<1>4. /\ bodies \in Seq(Text) /\ FlattenSeq(bodies) = s.body
      /\ \A i \in 1 .. m : Len(prefix) + Len(bodies[i]) <= most
  BY <1>1, BodiesFit
<1>5. pieces = [i \in DOMAIN bodies |-> P(i)]
  BY Zenon DEF SectionPieces
<1> HIDE DEF bodies, most
<1>6. m \in Nat /\ DOMAIN bodies = 1 .. m /\ Len(prefix) \in Nat /\ Len(t) \in Nat
  BY <1>1, <1>4 DEF Text
<1>7. PICK f : /\ Tiles(f, bodies, s.body)
               /\ \A i \in 1 .. m : f[i] = f[i - 1] + Len(bodies[i])
               /\ \A i \in 0 .. m : f[i] = Len(FlattenSeq(SubSeq(bodies, 1, i)))
  BY <1>4, JoinTiles
<1>8. /\ f \in [0 .. m -> Nat] /\ f[m] = Len(s.body)
      /\ \A i \in 1 .. m : f[i - 1] <= f[i] /\ f[i] <= Len(s.body) /\ bodies[i] = Slice(s.body, f[i - 1], f[i])
  BY <1>7 DEF Tiles
<1>9. ASSUME NEW i \in 1 .. m
      PROVE  /\ bodies[i] \in Text /\ Len(bodies[i]) \in Nat /\ Behind(i) = f[i - 1] /\ f[i - 1] \in Nat /\ f[i] \in Nat
             /\ P(i).text = prefix \o bodies[i] /\ P(i).start = s.start + f[i - 1]
             /\ Len(P(i).text) = Len(prefix) + Len(bodies[i])
  <2>1. i - 1 \in 0 .. m /\ i \in 0 .. m
    BY <1>6
  <2>2. Behind(i) = f[i - 1] /\ f[i - 1] \in Nat /\ f[i] \in Nat
    BY <1>7, <1>8, <2>1
  <2> HIDE DEF Behind
  <2>3. P(i).text = prefix \o bodies[i] /\ P(i).start = s.start + f[i - 1]
    BY <2>2 DEF Piece
  <2>4. bodies[i] \in Text
    BY <1>4
  <2>5. Len(prefix \o bodies[i]) = Len(prefix) + Len(bodies[i]) /\ Len(bodies[i]) \in Nat
    BY <1>1, <2>4, ConcatIs
  <2> HIDE DEF P
  <2> QED  BY <2>2, <2>3, <2>4, <2>5
<1> HIDE DEF P, Behind, m
<1>10. DOMAIN pieces = 1 .. m /\ \A i \in 1 .. m : pieces[i] = P(i)
  BY <1>5, <1>6
\* Behind its prefix, each piece is the body.
<1>11. \A i \in 1 .. m : Slice(pieces[i].text, Len(prefix), Len(pieces[i].text)) = bodies[i]
  <2> SUFFICES ASSUME NEW i \in 1 .. m
               PROVE  Slice(pieces[i].text, Len(prefix), Len(pieces[i].text)) = bodies[i]
    OBVIOUS
  <2>1. pieces[i].text = prefix \o bodies[i] /\ bodies[i] \in Text
    BY <1>9, <1>10
  <2>2. \A u, v \in Text : Slice(u \o v, Len(u), Len(u \o v)) = v
    BY SliceBehind
  <2>3. Slice(prefix \o bodies[i], Len(prefix), Len(prefix \o bodies[i])) = bodies[i]
    BY <1>1, <2>1, <2>2, Zenon
  <2> QED  BY <2>1, <2>3, Zenon
<1>12. [i \in DOMAIN pieces |-> Slice(pieces[i].text, Len(prefix), Len(pieces[i].text))] = bodies
  <2>1. bodies = [i \in 1 .. m |-> bodies[i]]
    BY <1>4, <1>6
  <2> QED  BY <1>10, <1>11, <2>1, Zenon
<1>13. ASSUME NEW i \in 1 .. m
       PROVE  /\ Slice(t, pieces[i].start, pieces[i].start + Len(pieces[i].text) - Len(prefix)) =
                   Slice(pieces[i].text, Len(prefix), Len(pieces[i].text))
              /\ Len(pieces[i].text) <= most
  <2> DEFINE a == f[i - 1]
             b == f[i]
             p == pieces[i]
             start == s.start
  <2>1. /\ p.start = start + a /\ Len(p.text) = Len(prefix) + Len(bodies[i])
        /\ a \in Nat /\ b \in Nat /\ Len(bodies[i]) \in Nat
    BY <1>9, <1>10
  <2>2. b = a + Len(bodies[i]) /\ a <= b /\ b <= Len(s.body) /\ bodies[i] = Slice(s.body, a, b)
    BY <1>7, <1>8 DEF m
  <2>3. Len(p.text) <= most
    BY <1>4, <2>1 DEF m
  <2>4. Len(s.body) = end - start
    <3>1. Len(Slice(t, start, end)) = end - start
      BY <1>1, <1>3, SliceIs
    <3> QED  BY <1>3, <3>1, Zenon
  <2>5. start \in Nat /\ start <= end /\ end <= Len(t) /\ s.body = Slice(t, start, end)
    BY <1>1, <1>3
  <2> HIDE DEF a, b, p, start
  <2>6. start + b <= end
    BY <1>6, <2>1, <2>2, <2>4, <2>5
  <2>7. Slice(Slice(t, start, end), a, b) = Slice(t, start + a, start + b)
    BY <2>1, <2>2, <2>5, <2>6, SliceWithin
  <2>8. p.start + Len(p.text) - Len(prefix) = start + b
    BY <1>6, <2>1, <2>2, <2>5
  <2>9. Slice(t, p.start, p.start + Len(p.text) - Len(prefix)) = bodies[i]
    BY <2>1, <2>2, <2>5, <2>7, <2>8
  <2> QED  BY <1>11, <2>3, <2>9 DEF p
<1>14. FlattenSeq([i \in DOMAIN pieces |-> Body(pieces[i], prefix)]) = s.body
  BY <1>4, <1>12, Zenon DEF Body
<1>15. \A i \in DOMAIN pieces :
         /\ Slice(t, pieces[i].start, pieces[i].start + Len(pieces[i].text) - Len(prefix)) = Body(pieces[i], prefix)
         /\ Len(pieces[i].text) <= most
  BY <1>10, <1>13, Zenon DEF Body
<1> QED  BY <1>14, <1>15, Zenon DEF SectionKept, most

\* No section loses any of its body, nor is any of it at another place.
LEMMA BodiesKept ==
  ASSUME text \in Text
  PROVE  MarkdownKeepsBodies
<1>1. ASSUME NEW n \in DOMAIN Sections(text)
      PROVE  SectionKept(Sections(text)[n], SectionPieces(Sections(text)[n]), Prefix(Sections(text)[n].path))
  <2> DEFINE s == Sections(text)[n]
             pieces == SectionPieces(s)
             prefix == Prefix(s.path)
  <2>1. s = Sections(text)[n] /\ pieces = SectionPieces(s) /\ prefix = Prefix(s.path)
    OBVIOUS
  <2> HIDE DEF s, pieces, prefix
  <2>2. SectionKept(s, pieces, prefix)
    BY <2>1, SectionKeeps
  <2> QED  BY <2>2 DEF s, pieces, prefix
<1> QED  BY <1>1, Zenon DEF MarkdownKeepsBodies

\* The chunks of every chunker are the text of their spans and lose none of it.
LEMMA ChunksAreTraced ==
  ASSUME text \in Text
  PROVE  ChunksTrace
<1>1. ChunkSize \in Nat \ {0} /\ Overlap \in Nat
  BY SizesTyped
<1>2. Traces(Fixed(text))
  BY FixedTraces
<1>3. Traces(Recursive(text, ChunkSize, Overlap))
  BY <1>1, RecursiveTraces
<1>4. \A gaps \in Gaps(text) : Traces(Semantic(text, gaps))
  BY SemanticTraces
<1>5. MarkdownKeepsBodies
  BY BodiesKept
<1>6. ChunksFit
  <2>1. \A i \in DOMAIN Recursive(text, ChunkSize, Overlap) :
          Len(Recursive(text, ChunkSize, Overlap)[i].text) <= ChunkSize + (IF i = 1 THEN 0 ELSE Overlap)
    BY <1>1, RecursiveFits
  <2>2. /\ \A i \in DOMAIN Fixed(text) : Len(Fixed(text)[i].text) <= ChunkSize
        /\ 2 * Overlap <= ChunkSize =>
             \A i \in 2 .. Len(Fixed(text)) : Fixed(text)[i].end > Fixed(text)[i - 1].end
    BY FixedFits
  <2> QED  BY <2>1, <2>2, Zenon DEF ChunksFit
<1> QED  BY <1>2, <1>3, <1>4, <1>5, <1>6 DEF ChunksTrace

\* A document is a text, whatever is typed.
Written == text \in Text
LEMMA TextIsTyped == (ChunkingInit /\ [][ChunkingNext]_text) => []Written
<1>1. ChunkingInit => Written
  BY DEF Written, ChunkingInit, Text
<1>2. Written /\ [ChunkingNext]_text => Written'
  <2> SUFFICES ASSUME Written, [ChunkingNext]_text
               PROVE  Written'
    OBVIOUS
  <2>1. CASE UNCHANGED text
    BY <2>1 DEF Written
  <2>2. CASE ChunkingNext
    <3>1. PICK c \in Characters : text' = Append(text, c)
      BY <2>2 DEF ChunkingNext, Type
    <3>2. c \in Letter
      BY <3>1 DEF Letter
    <3> QED  BY <3>1, <3>2, ConcatLaws DEF Written
  <2> QED  BY <2>1, <2>2
<1> QED  BY <1>1, <1>2, PTL

\* "start/end are character offsets into the parent document, which makes a chunk
\* traceable back to its exact source span" (types.py:155): of every document, the
\* fixed, recursive and semantic chunkers make chunks that are the text of their spans
\* and together lose nothing but blanks, the Markdown chunker keeps every body at its
\* place, and all of them fit, whatever the sizes and whatever the embeddings say.
THEOREM ChunksStayTraced == (ChunkingInit /\ [][ChunkingNext]_text) => []ChunksTrace
<1>1. Written => ChunksTrace
  BY ChunksAreTraced DEF Written
<1> QED  BY <1>1, TextIsTyped, PTL
=============================================================================
