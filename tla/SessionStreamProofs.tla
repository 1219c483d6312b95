-------------------------- MODULE SessionStreamProofs --------------------------
(***************************************************************************)
(* Theorems about SessionStream, for every value of its constants: the     *)
(* output ring accounts for every byte its reader has taken, and the tab   *)
(* implements ByteStream.                                                  *)
(***************************************************************************)
EXTENDS SessionStream, WellFoundedInduction, TLAPS

\* The part of the type invariant that the ring depends on.
RingType ==
    /\ taken \in Nat
    /\ output \in [ state: {"running", "exited", "closed"}, nextSequence: Nat \ {0},
                    events: Seq(Slice), bufferedBytes: Nat, droppedBytes: Nat ]

\* Every event ends before each later one starts: what Contiguous says of
\* neighbours, said of all pairs, so that no induction over the ring is needed.
Ordered(s) == \A i, j \in 1..Len(s) : i < j => s[i].to <= s[j].from

RingInv == RingType /\ RingAccounts /\ Ordered(output.events)

---------------------------------------------------------------------------
\* c is the stretch [from, to) cut at the offsets M[1], ..., M[k-1] after from.
IsCut(c, next, from, to, k, M) ==
    c = [i \in 1..k |-> [ sequence |-> next + (i - 1),
                          from |-> from + M[i - 1],
                          to |-> IF i = k THEN to ELSE from + M[i] ]]

Offsets(M, k) == M \in [0..k -> Nat] /\ M[0] = 0 /\ \A i, j \in 0..k : i < j => M[i] < M[j]

CutResult(c, next, from, to, k) ==
    /\ c \in Seq(Slice) /\ Len(c) = k
    /\ Contiguous(c) /\ Ordered(c)
    /\ c[1].from = from /\ c[1].sequence = next
    /\ c[k].to = to /\ c[k].sequence + 1 = next + k

\* The pieces of a message have all its bytes, and the next numbers in a row.
LEMMA CutFacts ==
    ASSUME NEW next \in Nat, NEW from \in Nat, NEW to \in Nat, NEW k \in Nat \ {0},
           NEW M, Offsets(M, k), from + M[k - 1] < to,
           NEW c, IsCut(c, next, from, to, k, M)
    PROVE  CutResult(c, next, from, to, k)
  <1>1. \A i \in 1..k : /\ M[i] \in Nat /\ M[i - 1] \in Nat /\ M[i - 1] < M[i]
                        /\ i < k => M[i] <= M[k - 1]
    <2> TAKE i \in 1..k
    <2>1. /\ i \in 0..k /\ i - 1 \in 0..k /\ k - 1 \in 0..k
          /\ i - 1 < i
          /\ i < k => (i = k - 1 \/ i < k - 1)
      OBVIOUS
    <2>2. M[i] \in Nat /\ M[i - 1] \in Nat /\ M[k - 1] \in Nat
      BY <2>1 DEF Offsets
    <2>3. M[i - 1] < M[i]
      BY <2>1 DEF Offsets
    <2>4. i < k - 1 => M[i] < M[k - 1]
      BY <2>1 DEF Offsets
    <2>5. i < k => M[i] <= M[k - 1]
      BY <2>1, <2>2, <2>4
    <2> QED BY <2>2, <2>3, <2>5
  <1>2. \A i \in 1..k : /\ c[i].sequence = next + (i - 1)
                        /\ c[i].from = from + M[i - 1]
                        /\ c[i].to = IF i = k THEN to ELSE from + M[i]
                        /\ c[i] \in Slice
    <2> TAKE i \in 1..k
    <2>1. c[i] = [ sequence |-> next + (i - 1), from |-> from + M[i - 1],
                   to |-> IF i = k THEN to ELSE from + M[i] ]
      BY DEF IsCut
    <2> QED BY <2>1, <1>1 DEF Slice
  <1>3. c \in Seq(Slice) /\ Len(c) = k
    <2>1. c = [i \in 1..k |-> c[i]]
      BY DEF IsCut
    <2> QED BY <2>1, <1>2
  <1>4. \A i \in 1..k : c[i].from < c[i].to
    BY <1>1, <1>2
  <1>5. \A i \in 1..(k - 1) : c[i].to = c[i + 1].from /\ c[i].sequence + 1 = c[i + 1].sequence
    <2> TAKE i \in 1..(k - 1)
    <2>1. (i + 1) - 1 = i /\ i + 1 \in 1..k /\ i \in 1..k /\ i # k
      OBVIOUS
    <2> QED BY <2>1, <1>2
  <1>6. Contiguous(c)
    BY <1>3, <1>4, <1>5 DEF Contiguous
  <1>7. Ordered(c)
    <2> SUFFICES ASSUME NEW i \in 1..k, NEW j \in 1..k, i < j
                 PROVE  c[i].to <= c[j].from
      BY <1>3 DEF Ordered
    <2>1. i \in 0..k /\ j - 1 \in 0..k /\ (i = j - 1 \/ i < j - 1)
      OBVIOUS
    <2>2. M[i] \in Nat /\ M[j - 1] \in Nat /\ M[i] <= M[j - 1]
      BY SMTT(20), <2>1, <1>1 DEF Offsets
    <2> QED BY <2>2, <1>2
  <1>8. /\ c[1].from = from /\ c[1].sequence = next
        /\ c[k].to = to /\ c[k].sequence + 1 = next + k
    <2>1. 1 \in 1..k /\ k \in 1..k /\ 1 - 1 = 0 /\ M[0] = 0
      BY DEF Offsets
    <2> QED BY <2>1, <1>2
  <1> QED BY <1>3, <1>6, <1>7, <1>8 DEF CutResult

\* The data [from, to) is cut into k consecutive events (push_ssh_output).
LEMMA ChunksCut ==
    ASSUME output.nextSequence \in Nat,
           NEW from \in Nat, NEW to \in Nat, NEW k \in Nat \ {0},
           (k - 1) * MaxSessionEventBytes < to - from
    PROVE  CutResult(Chunks(k, from, to), output.nextSequence, from, to, k)
  <1> DEFINE E == MaxSessionEventBytes
             M == [i \in 0..k |-> i * E]
  <1>1. E \in Nat \ {0}
    BY LimitAssumption
  <1>2. \A i, j \in 0..k : i < j => M[i] < M[j]
    <2> TAKE i, j \in 0..k
    <2> HAVE i < j
    <2>1. (j - i) * E \in Nat \ {0}
      BY <1>1
    <2>2. j * E = i * E + (j - i) * E /\ i * E \in Nat
      BY <1>1
    <2> QED BY <2>1, <2>2
  <1>3. Offsets(M, k)
    BY <1>1, <1>2 DEF Offsets
  <1>4. from + M[k - 1] < to
    BY <1>1
  <1>5. IsCut(Chunks(k, from, to), output.nextSequence, from, to, k, M)
    BY DEF Chunks, IsCut
  <1> HIDE DEF M
  <1> QED BY <1>3, <1>4, <1>5, CutFacts

---------------------------------------------------------------------------
\* Two stretches that meet make one.
LEMMA Join ==
    ASSUME NEW s \in Seq(Slice), NEW t \in Seq(Slice), t # << >>,
           Contiguous(s), Ordered(s), Contiguous(t), Ordered(t),
           s # << >> => /\ s[Len(s)].to = t[1].from
                        /\ s[Len(s)].sequence + 1 = t[1].sequence
    PROVE  s \o t \in Seq(Slice) /\ Contiguous(s \o t) /\ Ordered(s \o t)
  <1> DEFINE u == s \o t
  <1>1. /\ u \in Seq(Slice) /\ Len(u) = Len(s) + Len(t)
        /\ Len(s) \in Nat /\ Len(t) \in Nat \ {0}
    OBVIOUS
  <1>2. \A i \in 1..Len(s) : u[i] = s[i] /\ s[i] \in Slice
    OBVIOUS
  <1>3. \A i \in 1..Len(t) : u[Len(s) + i] = t[i] /\ t[i] \in Slice
    OBVIOUS
  <1>4. \A i \in 1..Len(u) :
          i \notin 1..Len(s) => i - Len(s) \in 1..Len(t) /\ i = Len(s) + (i - Len(s))
    BY <1>1
  <1> HIDE DEF u
  <1>5. \A i \in 1..Len(u) : u[i].from < u[i].to
    BY <1>2, <1>3, <1>4 DEF Contiguous
  <1>6. \A i \in 1..(Len(u) - 1) : u[i].to = u[i + 1].from /\ u[i].sequence + 1 = u[i + 1].sequence
    <2> TAKE i \in 1..(Len(u) - 1)
    <2>1. CASE i < Len(s)
      <3>1. i \in 1..(Len(s) - 1) /\ i \in 1..Len(s) /\ i + 1 \in 1..Len(s)
        BY <2>1, <1>1
      <3> QED BY <3>1, <1>2 DEF Contiguous
    <2>2. CASE i = Len(s)
      <3>1. s # << >> /\ i \in 1..Len(s) /\ 1 \in 1..Len(t)
        BY <2>2, <1>1
      <3>2. u[i] = s[Len(s)] /\ u[i + 1] = t[1]
        BY <3>1, <2>2, <1>2, <1>3
      <3> QED BY <3>1, <3>2
    <2>3. CASE i > Len(s)
      <3> DEFINE j == i - Len(s)
      <3>1. j \in 1..(Len(t) - 1) /\ j \in 1..Len(t) /\ j + 1 \in 1..Len(t)
            /\ i = Len(s) + j /\ i + 1 = Len(s) + (j + 1)
        BY <2>3, <1>1
      <3> HIDE DEF j
      <3> QED BY <3>1, <1>3 DEF Contiguous
    <2> QED BY <2>1, <2>2, <2>3, <1>1
  <1>7. Contiguous(u)
    BY <1>5, <1>6 DEF Contiguous
  <1>8. Ordered(u)
    <2> SUFFICES ASSUME NEW i \in 1..Len(u), NEW j \in 1..Len(u), i < j
                 PROVE  u[i].to <= u[j].from
      BY DEF Ordered
    <2>1. CASE j \in 1..Len(s)
      <3>1. i \in 1..Len(s)
        BY <2>1, <1>1
      <3> QED BY <2>1, <3>1, <1>2 DEF Ordered
    <2>2. CASE i \notin 1..Len(s)
      <3>1. j \notin 1..Len(s)
        BY <2>2, <1>1
      <3>2. i - Len(s) < j - Len(s)
        BY <1>1
      <3> QED BY <2>2, <3>1, <3>2, <1>3, <1>4 DEF Ordered
    <2>3. CASE i \in 1..Len(s) /\ j \notin 1..Len(s)
      <3> DEFINE b == j - Len(s)
      <3>1. b \in 1..Len(t) /\ j = Len(s) + b
        BY <2>3, <1>4
      <3> HIDE DEF b
      <3>2. s # << >> /\ Len(s) \in 1..Len(s) /\ 1 \in 1..Len(t)
        BY <2>3, <1>1
      <3>3. s[i].to <= s[Len(s)].to
        <4>1. s[i].to \in Nat /\ s[Len(s)].to \in Nat /\ s[Len(s)].from \in Nat
          BY <3>2, <2>3, <1>2 DEF Slice
        <4>2. s[Len(s)].from < s[Len(s)].to
          BY <3>2 DEF Contiguous
        <4>3. i < Len(s) => s[i].to <= s[Len(s)].from
          BY <3>2, <2>3 DEF Ordered
        <4> QED BY <4>1, <4>2, <4>3, <2>3, <1>1
      <3>4. t[1].from <= t[b].from
        <4>1. t[1].to \in Nat /\ t[1].from \in Nat /\ t[b].from \in Nat
          BY <3>1, <3>2, <1>3 DEF Slice
        <4>2. t[1].from < t[1].to
          BY <3>2 DEF Contiguous
        <4>3. 1 < b => t[1].to <= t[b].from
          BY <3>1, <3>2 DEF Ordered
        <4> QED BY <4>1, <4>2, <4>3, <3>1
      <3>5. u[i] = s[i] /\ u[j] = t[b] /\ s[Len(s)].to = t[1].from
        BY <3>1, <3>2, <2>3, <1>2, <1>3
      <3>6. s[i].to \in Nat /\ s[Len(s)].to \in Nat
        BY <3>2, <2>3, <1>2 DEF Slice
      <3>7. t[b].from \in Nat /\ t[1].from \in Nat
        BY <3>1, <3>2, <1>3 DEF Slice
      <3>8. u[i].to = s[i].to /\ u[j].from = t[b].from
        BY <3>5
      <3>9. s[i].to <= t[b].from
        BY <3>3, <3>4, <3>5, <3>6, <3>7
      <3> QED BY <3>8, <3>9
    <2> QED BY <2>1, <2>2, <2>3
  <1> QED BY <1>1, <1>7, <1>8 DEF u

\* What is left of a stretch when its oldest events are gone.
LEMMA Suffix ==
    ASSUME NEW u \in Seq(Slice), Contiguous(u), Ordered(u), NEW n \in 0..Len(u)
    PROVE  LET v == SubSeq(u, n + 1, Len(u)) IN
           /\ v \in Seq(Slice) /\ Contiguous(v) /\ Ordered(v)
           /\ Len(v) = Len(u) - n
           /\ \A i \in 1..Len(v) : v[i] = u[n + i]
  <1> DEFINE v == SubSeq(u, n + 1, Len(u))
  <1>1. Len(v) = Len(u) - n /\ v \in Seq(Slice)
    OBVIOUS
  <1>2. \A i \in 1..Len(v) : v[i] = u[n + i] /\ n + i \in 1..Len(u)
    OBVIOUS
  <1> HIDE DEF v
  <1>3. Contiguous(v)
    <2>1. \A i \in 1..Len(v) : v[i].from < v[i].to
      BY <1>2 DEF Contiguous
    <2>2. \A i \in 1..(Len(v) - 1) : v[i].to = v[i + 1].from /\ v[i].sequence + 1 = v[i + 1].sequence
      <3> TAKE i \in 1..(Len(v) - 1)
      <3>1. /\ n + i \in 1..(Len(u) - 1) /\ i \in 1..Len(v) /\ i + 1 \in 1..Len(v)
            /\ n + (i + 1) = (n + i) + 1
        BY <1>1
      <3> QED BY <3>1, <1>2 DEF Contiguous
    <2> QED BY <2>1, <2>2 DEF Contiguous
  <1>4. Ordered(v)
    <2> SUFFICES ASSUME NEW i \in 1..Len(v), NEW j \in 1..Len(v), i < j
                 PROVE  v[i].to <= v[j].from
      BY DEF Ordered
    <2>1. n + i < n + j
      BY <1>1
    <2> QED BY <2>1, <1>2 DEF Ordered
  <1> QED BY <1>1, <1>2, <1>3, <1>4 DEF v

---------------------------------------------------------------------------
\* u is the ring's stretch grown by new data up to offset to.
Grown(u, size, next, to) ==
    /\ u \in Seq(Slice) /\ Contiguous(u) /\ Ordered(u) /\ u # << >>
    /\ to \in Nat /\ u[Len(u)].to = to
    /\ next \in Nat \ {0} /\ u[Len(u)].sequence + 1 = next
    /\ u[1].from = output.droppedBytes
    /\ size \in Nat /\ output.droppedBytes + size = to

\* The step that stores u without its n oldest events.
Trimmed(u, n, size, left, next, to) ==
    /\ left = IF n = 0 THEN size ELSE to - u[n].to
    /\ left <= MaxSessionBufferBytes
    /\ taken' = to
    /\ output' = [Trim(u, n, size, left) EXCEPT !.nextSequence = next]

\* The ring after a push: what Trim leaves of the joined events.
LEMMA TrimKeeps ==
    ASSUME RingType, NEW u, NEW to, NEW next, NEW size, Grown(u, size, next, to),
           NEW n \in 0..Len(u), NEW left, Trimmed(u, n, size, left, next, to)
    PROVE  RingInv'
  <1>0. /\ u \in Seq(Slice) /\ Contiguous(u) /\ Ordered(u) /\ u # << >>
        /\ to \in Nat /\ u[Len(u)].to = to
        /\ next \in Nat \ {0} /\ u[Len(u)].sequence + 1 = next
        /\ u[1].from = output.droppedBytes
        /\ size \in Nat /\ output.droppedBytes + size = to
    BY DEF Grown
  <1>t. /\ left = IF n = 0 THEN size ELSE to - u[n].to
        /\ left <= MaxSessionBufferBytes
        /\ taken' = to
        /\ output' = [Trim(u, n, size, left) EXCEPT !.nextSequence = next]
    BY DEF Trimmed
  <1> DEFINE v == SubSeq(u, n + 1, Len(u))
             d == output.droppedBytes + (size - left)
  <1>1. /\ v \in Seq(Slice) /\ Contiguous(v) /\ Ordered(v)
        /\ Len(v) = Len(u) - n /\ \A i \in 1..Len(v) : v[i] = u[n + i]
    BY <1>0, Suffix
  <1>2. Len(u) \in Nat \ {0} /\ \A i \in 1..Len(u) : u[i].to \in Nat /\ u[i].from \in Nat
    <2>1. Len(u) \in Nat \ {0}
      BY <1>0
    <2>2. \A i \in 1..Len(u) : u[i] \in Slice
      BY <1>0
    <2> QED BY <2>1, <2>2 DEF Slice
  <1>3. \A i \in 1..Len(u) : u[i].to <= to
    <2> TAKE i \in 1..Len(u)
    <2>1. CASE i = Len(u)
      BY <2>1, <1>0, <1>2
    <2>2. CASE i < Len(u)
      <3>1. Len(u) \in 1..Len(u)
        BY <1>2
      <3>2. u[i].to <= u[Len(u)].from
        BY <3>1, <2>2, <1>0 DEF Ordered
      <3>3. u[Len(u)].from < u[Len(u)].to
        BY <3>1, <1>0 DEF Contiguous
      <3> QED BY <3>1, <3>2, <3>3, <1>0, <1>2
    <2> QED BY <2>1, <2>2, <1>2
  <1>4. left \in Nat
    BY <1>0, <1>t, <1>2, <1>3
  <1>5. d \in Nat /\ d + left = to
    <2>1. output.droppedBytes \in Nat
      BY DEF RingType
    <2>2. CASE n = 0
      BY <2>1, <2>2, <1>0, <1>t
    <2>3. CASE n # 0
      BY SMTT(20), <2>1, <2>3, <1>0, <1>t, <1>2, <1>3
    <2> QED BY <2>2, <2>3
  <1>6. output' = [output EXCEPT !.events = v, !.bufferedBytes = left, !.droppedBytes = d,
                                 !.nextSequence = next]
    BY <1>t DEF Trim, RingType
  <1> HIDE DEF v, d
  <1>7. /\ output'.events = v /\ output'.bufferedBytes = left /\ output'.droppedBytes = d
        /\ output'.nextSequence = next
    BY <1>6 DEF RingType
  <1>8. RingType'
    <2>1. output' \in [ state: {"running", "exited", "closed"}, nextSequence: Nat \ {0},
                        events: Seq(Slice), bufferedBytes: Nat, droppedBytes: Nat ]
      BY <1>6, <1>0, <1>1, <1>4, <1>5 DEF RingType
    <2> QED BY <2>1, <1>0, <1>t DEF RingType
  <1>9. v = << >> => left = 0
    <2> HAVE v = << >>
    <2>1. n = Len(u)
      BY <1>1, <1>2
    <2> QED BY <2>1, <1>0, <1>t, <1>2
  <1>10. v # << >> => v[1].from = d /\ v[Len(v)].to = to /\ v[Len(v)].sequence + 1 = next
    <2> HAVE v # << >>
    <2>1. Len(v) \in 1..Len(v) /\ 1 \in 1..Len(v) /\ n < Len(u)
      BY <1>1, <1>2
    <2>2. v[Len(v)] = u[Len(u)] /\ v[1] = u[n + 1]
      <3>1. n + Len(v) = Len(u)
        BY <1>1, <1>2
      <3> QED BY <3>1, <2>1, <1>1
    <2>3. u[n + 1].from = d
      <3>1. CASE n = 0
        <4>1. d = output.droppedBytes
          BY <3>1, <1>0, <1>t DEF d, RingType
        <4> QED BY <4>1, <3>1, <1>0
      <3>2. CASE n # 0
        <4>1. u[n].to = u[n + 1].from
          BY <3>2, <2>1, <1>0, <1>2 DEF Contiguous
        <4>2. left = to - u[n].to /\ u[n].to \in Nat
          BY <3>2, <1>0, <1>t, <1>2
        <4> QED BY SMTT(20), <4>1, <4>2, <1>0, <1>4, <1>5
      <3> QED BY <3>1, <3>2
    <2> QED BY <2>2, <2>3, <1>0
  <1>11. RingAccounts'
    <2>1. Contiguous(output'.events)
      BY <1>1, <1>7
    <2>2. output'.droppedBytes + output'.bufferedBytes = taken'
      BY <1>5, <1>7, <1>t
    <2> QED BY <2>1, <2>2, <1>7, <1>9, <1>10, <1>t DEF RingAccounts, Contiguous
  <1>12. Ordered(output.events)'
    BY <1>1, <1>7 DEF Ordered
  <1> QED BY <1>8, <1>11, <1>12 DEF RingInv

\* A push keeps the ring in order (OutputState::push).
LEMMA PushKeeps ==
    ASSUME RingInv, NEW c, NEW k \in Nat \ {0}, NEW to \in Nat, taken < to,
           CutResult(c, output.nextSequence, taken, to, k),
           Push(c, taken, to), taken' = to
    PROVE  RingInv'
  <1> DEFINE u == output.events \o c
             size == output.bufferedBytes + (to - taken)
  <1>1. /\ output.events \in Seq(Slice) /\ taken \in Nat
        /\ output.nextSequence \in Nat \ {0}
        /\ output.bufferedBytes \in Nat /\ output.droppedBytes \in Nat
    BY DEF RingInv, RingType
  <1>2. /\ c \in Seq(Slice) /\ c # << >> /\ Len(c) = k /\ Contiguous(c) /\ Ordered(c)
        /\ c[1].from = taken /\ c[1].sequence = output.nextSequence
        /\ c[k].to = to /\ c[k].sequence + 1 = output.nextSequence + k
    BY DEF CutResult
  <1>3. output.events # << >> =>
           /\ output.events[Len(output.events)].to = c[1].from
           /\ output.events[Len(output.events)].sequence + 1 = c[1].sequence
    BY <1>2 DEF RingInv, RingAccounts
  <1>4. u \in Seq(Slice) /\ Contiguous(u) /\ Ordered(u)
    BY <1>1, <1>2, <1>3, Join DEF RingInv, RingAccounts
  <1>5. /\ Len(u) = Len(output.events) + k /\ Len(u) \in Nat \ {0}
        /\ u[Len(u)] = c[k] /\ u # << >>
    <2>1. Len(u) = Len(output.events) + k /\ Len(output.events) \in Nat
      BY <1>1, <1>2
    <2>2. u[Len(output.events) + k] = c[k]
      BY <1>1, <1>2
    <2> QED BY <2>1, <2>2, <1>4
  <1>6. u[1].from = output.droppedBytes
    <2>1. CASE output.events = << >>
      <3>1. u[1] = c[1]
        BY <2>1, <1>1, <1>2
      <3>2. output.droppedBytes = taken
        BY <2>1, <1>1 DEF RingInv, RingAccounts
      <3> QED BY <3>1, <3>2, <1>2
    <2>2. CASE output.events # << >>
      <3>1. u[1] = output.events[1]
        BY <2>2, <1>1, <1>2
      <3> QED BY <3>1, <2>2 DEF RingInv, RingAccounts
    <2> QED BY <2>1, <2>2
  <1>7. size \in Nat /\ output.droppedBytes + size = to
    <2>1. /\ output.droppedBytes \in Nat /\ output.bufferedBytes \in Nat
          /\ taken \in Nat /\ to \in Nat /\ taken < to
          /\ output.droppedBytes + output.bufferedBytes = taken
      BY <1>1 DEF RingInv, RingAccounts
    <2>2. size = output.bufferedBytes + to - taken
      OBVIOUS
    <2> HIDE DEF size
    <2> QED BY <2>1, <2>2
  <1>8. PICK n \in 0..Len(u) :
          /\ (IF n = 0 THEN size ELSE to - u[n].to) <= MaxSessionBufferBytes
          /\ output' = [Trim(u, n, size, IF n = 0 THEN size ELSE to - u[n].to)
                           EXCEPT !.nextSequence = @ + Len(c)]
    BY DEF Push
  <1> DEFINE left == IF n = 0 THEN size ELSE to - u[n].to
             next == output.nextSequence + k
  <1>9. output' = [Trim(u, n, size, left) EXCEPT !.nextSequence = next]
    BY <1>8, <1>2 DEF Trim, RingInv, RingType
  <1>10. next \in Nat \ {0} /\ u[Len(u)].to = to /\ u[Len(u)].sequence + 1 = next
    BY <1>1, <1>2, <1>5
  <1>11. RingType
    BY DEF RingInv
  <1>12. Trimmed(u, n, size, left, next, to)
    BY <1>8, <1>9 DEF Trimmed
  <1>13. Grown(u, size, next, to)
    BY <1>4, <1>5, <1>6, <1>7, <1>10 DEF Grown
  <1> HIDE DEF u, size, next, left
  <1> QED BY <1>11, <1>12, <1>13, TrimKeeps, Zenon

\* The other steps touch at most the state of the session.
LEMMA StateOnly ==
    ASSUME RingInv, taken' = taken,
           \/ output' = output
           \/ \E st \in {"running", "exited", "closed"} : output' = [output EXCEPT !.state = st]
    PROVE  RingInv'
  <1>1. /\ output'.events = output.events /\ output'.bufferedBytes = output.bufferedBytes
        /\ output'.droppedBytes = output.droppedBytes
        /\ output'.nextSequence = output.nextSequence
    BY DEF RingInv, RingType
  <1>2. RingType'
    BY DEF RingInv, RingType
  <1>3. RingAccounts'
    BY <1>1 DEF RingInv, RingAccounts, Contiguous
  <1>4. Ordered(output.events)'
    BY <1>1 DEF RingInv, Ordered
  <1> QED BY <1>2, <1>3, <1>4 DEF RingInv

\* The invariant holds at the beginning and is kept by every step.
LEMMA InitRing == Init => RingInv
  <1> SUFFICES ASSUME Init PROVE RingInv
    OBVIOUS
  <1>1. output = NewOutput /\ taken = 0
    BY DEF Init
  <1>2. output.events = << >> /\ Len(output.events) = 0
    BY <1>1 DEF NewOutput
  <1>3. RingType
    BY <1>1 DEF RingType, NewOutput
  <1>4. RingAccounts
    BY <1>1, <1>2, LimitAssumption DEF RingAccounts, Contiguous, NewOutput
  <1>5. Ordered(output.events)
    BY <1>2 DEF Ordered
  <1> QED BY <1>3, <1>4, <1>5 DEF RingInv

LEMMA NextRing == RingInv /\ [Next]_vars => RingInv'
  <1> SUFFICES ASSUME RingInv, [Next]_vars PROVE RingInv'
    OBVIOUS
  <1>1. /\ taken \in Nat /\ output.nextSequence \in Nat
        /\ output.state \in {"running", "exited", "closed"}
    BY DEF RingInv, RingType
  <1>2. Exited(output.state) \in {"running", "exited", "closed"}
    BY <1>1 DEF Exited
  <1>3. CASE ReadLocal
    <2>1. PICK n \in 1..MaxSessionEventBytes :
            Push(Chunks(1, taken, taken + n), taken, taken + n) /\ taken' = taken + n
      BY <1>3 DEF ReadLocal
    <2>2. taken + n \in Nat /\ taken < taken + n
      BY <1>1, LimitAssumption
    <2>3. (1 - 1) * MaxSessionEventBytes < (taken + n) - taken
      BY <1>1, LimitAssumption
    <2>4. CutResult(Chunks(1, taken, taken + n), output.nextSequence, taken, taken + n, 1)
      BY <1>1, <2>2, <2>3, ChunksCut
    <2> QED BY <2>1, <2>2, <2>4, PushKeeps
  <1>4. CASE PumpOutput
    <2>1. PICK n \in 1..(produced - taken) : \E k \in 1..n :
            /\ (k - 1) * MaxSessionEventBytes < n
            /\ Push(Chunks(k, taken, taken + n), taken, taken + n) /\ taken' = taken + n
      BY <1>4 DEF PumpOutput
    <2>2. PICK k \in 1..n :
            /\ (k - 1) * MaxSessionEventBytes < n
            /\ Push(Chunks(k, taken, taken + n), taken, taken + n) /\ taken' = taken + n
      BY <2>1
    <2>3. n \in Nat \ {0} /\ k \in Nat \ {0}
      OBVIOUS
    <2>4. taken + n \in Nat /\ taken < taken + n /\ (taken + n) - taken = n
      BY <1>1, <2>3
    <2>5. CutResult(Chunks(k, taken, taken + n), output.nextSequence, taken, taken + n, k)
      BY <1>1, <2>2, <2>3, <2>4, ChunksCut
    <2> QED BY <2>2, <2>3, <2>4, <2>5, PushKeeps
  <1>5. CASE EndOfPty \/ EndOfChannel
    BY <1>5, <1>2, StateOnly DEF EndOfPty, EndOfChannel, MarkExited
  <1>6. CASE Close
    <2>1. Stopped(output.state) \in {"running", "exited", "closed"}
      BY <1>1 DEF Stopped
    <2> QED BY <1>6, <2>1, StateOnly DEF Close
  <1>7. CASE \E p \in Pollers : Answer(p)
    BY <1>7, <1>2, StateOnly DEF Answer, Snapshot, MarkExited
  <1>8. CASE \/ Produce \/ Exit \/ PumpWriteFails \/ Ask \/ CloseTab
             \/ \E p \in Pollers : Show(p) \/ PollFails(p)
             \/ UNCHANGED vars
    BY <1>8, StateOnly DEF Produce, Exit, PumpWriteFails, Ask, CloseTab, Show, PollFails,
                            vars, runtimeVars, tabVars
  <1> QED BY <1>3, <1>4, <1>5, <1>6, <1>7, <1>8 DEF Next, Read

\* The ring always accounts for every byte its reader has taken: one unbroken
\* stretch, within its limit, losing only at the old end and counting what it lost.
THEOREM RingAlwaysAccounts == Spec => []RingAccounts
  <1>1. RingInv => RingAccounts
    BY DEF RingInv
  <1> QED BY <1>1, InitRing, NextRing, PTL DEF Spec

---------------------------------------------------------------------------
\* The poll records of TypeOK.
Poll ==
    [stage: {"idle"}] \cup [stage: {"asked"}, after: Nat]
    \cup [stage: {"answered"}, state: {"running", "exited", "closed"},
          events: Seq(Slice), next: Nat]

\* Replacing one poll keeps the type.
LEMMA PollType ==
    ASSUME polls \in [Pollers -> Poll], NEW p \in Pollers, NEW r \in Poll,
           polls' = [polls EXCEPT ![p] = r]
    PROVE  polls' \in [Pollers -> Poll]
  OBVIOUS

\* What a poll carries away from the ring has the type of an answer.
LEMMA AnswerType ==
    ASSUME RingInv, NEW after \in Nat, NEW lo \in Nat, NEW hi \in Nat,
           1 <= lo, hi <= Len(output.events),
           NEW st \in {"running", "exited", "closed"}
    PROVE  [ stage |-> "answered", state |-> st,
             events |-> SubSeq(output.events, lo, hi),
             next |-> NextAfter(SubSeq(output.events, lo, hi), after) ] \in Poll
  <1> DEFINE e == SubSeq(output.events, lo, hi)
  <1>1. output.events \in Seq(Slice)
    BY DEF RingInv, RingType
  <1>2. e \in Seq(Slice)
    BY <1>1
  <1> HIDE DEF e
  <1>3. NextAfter(e, after) \in Nat
    <2>1. CASE e = << >>
      BY <2>1 DEF NextAfter
    <2>2. CASE e # << >>
      <3>1. e[Len(e)] \in Slice
        BY <2>2, <1>2
      <3>2. e[Len(e)].sequence \in Nat
        BY <3>1 DEF Slice
      <3> QED BY <2>2, <3>2 DEF NextAfter
    <2> QED BY <2>1, <2>2
  <1>4. NextAfter(e, after) = NextAfter(SubSeq(output.events, lo, hi), after)
    BY DEF e
  <1>5. [ stage |-> "answered", state |-> st, events |-> e, next |-> NextAfter(e, after) ] \in Poll
    BY <1>2, <1>3 DEF Poll
  <1> QED BY <1>4, <1>5 DEF e

\* So do the types, which need it for the answers.
LEMMA NextType ==
    ASSUME TypeOK, RingInv, [Next]_vars
    PROVE  TypeOK'
  <1>1. RingInv'
    BY NextRing
  <1>2. taken' \in Nat /\ output' \in [ state: {"running", "exited", "closed"},
            nextSequence: Nat \ {0}, events: Seq(Slice), bufferedBytes: Nat, droppedBytes: Nat ]
    BY <1>1 DEF RingInv, RingType
  <1>3. /\ kind \in {"local", "ssh"} /\ produced \in Nat /\ process \in {"running", "exited"}
        /\ reader \in {"reading", "done"} /\ stored \in BOOLEAN /\ tab \in {"open", "closed"}
        /\ cursor \in Nat /\ screen \in Seq(Slice) /\ polls \in [Pollers -> Poll]
    BY DEF TypeOK, Poll
  <1> SUFFICES /\ kind' \in {"local", "ssh"} /\ produced' \in Nat
               /\ process' \in {"running", "exited"} /\ reader' \in {"reading", "done"}
               /\ stored' \in BOOLEAN /\ tab' \in {"open", "closed"} /\ cursor' \in Nat
               /\ screen' \in Seq(Slice) /\ polls' \in [Pollers -> Poll]
    BY <1>2 DEF TypeOK, Poll
  <1>4. CASE Produce
    BY <1>4, <1>3, LimitAssumption DEF Produce, runtimeVars, tabVars
  <1>5. CASE Read \/ Exit \/ PumpWriteFails
    BY <1>5, <1>3 DEF Read, ReadLocal, PumpOutput, EndOfPty, EndOfChannel, Exit, PumpWriteFails,
                      runtimeVars, tabVars
  <1>6. CASE Close
    BY <1>6, <1>3 DEF Close, tabVars
  <1>7. CASE Ask
    <2>1. [stage |-> "asked", after |-> cursor] \in Poll /\ "timer" \in Pollers
      BY <1>3 DEF Poll, Pollers
    <2>2. polls' = [polls EXCEPT !["timer"] = [stage |-> "asked", after |-> cursor]]
      BY <1>7 DEF Ask
    <2>3. polls' \in [Pollers -> Poll]
      BY <2>1, <2>2, <1>3, PollType
    <2> QED BY <2>3, <1>3, <1>7 DEF Ask, runtimeVars
  <1>8. CASE CloseTab
    BY <1>8, <1>3 DEF CloseTab, runtimeVars
  <1>9. ASSUME NEW p \in Pollers, Answer(p)
        PROVE  polls' \in [Pollers -> Poll]
    <2>1. polls[p] \in Poll /\ polls[p].stage = "asked"
      BY <1>3, <1>9 DEF Answer
    <2>2. polls[p].after \in Nat
      BY <2>1 DEF Poll
    <2>3. output'.state \in {"running", "exited", "closed"}
      BY <1>2
    <2>4. PICK lo \in 1..(Len(output.events) + 1) : \E hi \in (lo - 1)..Len(output.events) :
            polls' = [polls EXCEPT ![p] =
              [ stage |-> "answered", state |-> output'.state,
                events |-> SubSeq(output.events, lo, hi),
                next |-> NextAfter(SubSeq(output.events, lo, hi), polls[p].after) ]]
      BY <1>9 DEF Answer
    <2>5. PICK hi \in (lo - 1)..Len(output.events) :
            polls' = [polls EXCEPT ![p] =
              [ stage |-> "answered", state |-> output'.state,
                events |-> SubSeq(output.events, lo, hi),
                next |-> NextAfter(SubSeq(output.events, lo, hi), polls[p].after) ]]
      BY <2>4
    <2>6. lo \in Nat /\ hi \in Nat /\ 1 <= lo /\ hi <= Len(output.events)
      <3>1. output.events \in Seq(Slice)
        BY DEF RingInv, RingType
      <3> QED BY <3>1
    <2> DEFINE r == [ stage |-> "answered", state |-> output'.state,
                      events |-> SubSeq(output.events, lo, hi),
                      next |-> NextAfter(SubSeq(output.events, lo, hi), polls[p].after) ]
    <2>7. r \in Poll
      BY <2>2, <2>3, <2>6, AnswerType
    <2>8. polls' = [polls EXCEPT ![p] = r]
      BY <2>5
    <2> HIDE DEF r
    <2> QED BY <2>7, <2>8, <1>3, PollType
  <1>10. CASE \E p \in Pollers : Answer(p)
    BY <1>10, <1>9, <1>3 DEF Answer
  <1>11. ASSUME NEW p \in Pollers, Show(p) \/ PollFails(p)
         PROVE  polls' \in [Pollers -> Poll]
    <2>1. polls' = [polls EXCEPT ![p] = Idle] /\ Idle \in Poll
      BY <1>11 DEF Show, PollFails, Idle, Poll
    <2> QED BY <2>1, <1>3, PollType
  <1>12. ASSUME NEW p \in Pollers, Show(p)
         PROVE  cursor' \in Nat /\ screen' \in Seq(Slice)
    <2>1. polls[p] \in Poll /\ polls[p].stage = "answered"
      BY <1>3, <1>12 DEF Show
    <2>2. polls[p].next \in Nat /\ polls[p].events \in Seq(Slice)
      BY <2>1 DEF Poll
    <2> QED BY <2>2, <1>3, <1>12 DEF Show
  <1>13. CASE \E p \in Pollers : Show(p)
    BY <1>13, <1>11, <1>12, <1>3 DEF Show, runtimeVars
  <1>14. CASE \E p \in Pollers : PollFails(p)
    BY <1>14, <1>11, <1>3 DEF PollFails, runtimeVars
  <1>15. CASE UNCHANGED vars
    BY <1>15, <1>3 DEF vars, runtimeVars, tabVars
  <1> QED BY <1>4, <1>5, <1>6, <1>7, <1>8, <1>10, <1>13, <1>14, <1>15 DEF Next

\* The model is well typed: every answer a tab can receive is a slice of the
\* ring, and no arithmetic on the ring's counters leaves the naturals.
THEOREM TypeCorrect == Spec => []TypeOK
  <1>1. Init => TypeOK
    BY DEF Init, TypeOK, NewOutput, Pollers, Idle
  <1>2. TypeOK /\ RingInv /\ [Next]_vars => TypeOK' /\ RingInv'
    BY NextType, NextRing
  <1> QED BY <1>1, <1>2, InitRing, PTL DEF Spec

---------------------------------------------------------------------------
(* Bytes, pushes and parts of stretches.                                    *)

\* Every set of numbers has a least one.
LEMMA LeastIsThere ==
    ASSUME NEW S, S \subseteq Nat, S # {}
    PROVE  \E x \in S : \A y \in S : x <= y
  <1> DEFINE R == {ss \in Nat \X Nat : ss[1] < ss[2]}
  <1>1. IsWellFoundedOn(R, Nat)
    BY NatLessThanWellFounded DEF OpToRel
  <1>2. PICK x \in S : \A y \in S : <<y, x>> \notin R
    BY <1>1, WFMin, Zenon
  <1>3. \A y \in S : x \in Nat /\ y \in Nat /\ ~(y < x)
    <2> TAKE y \in S
    <2>1. x \in Nat /\ y \in Nat /\ <<y, x>> \in Nat \X Nat
      OBVIOUS
    <2> QED BY <1>2, <2>1
  <1> QED BY <1>3

\* The bytes (offsets) that the slices of s carry.
Bytes(s) == UNION {s[i].from .. (s[i].to - 1) : i \in 1..Len(s)}

\* A stretch carries every byte between its ends: the first slice that ends behind a byte
\* has it.
LEMMA StretchBytes ==
    ASSUME NEW s \in Seq(Slice), s # << >>, Contiguous(s), Ordered(s)
    PROVE  Bytes(s) = s[1].from .. (s[Len(s)].to - 1)
  <1>1. /\ Len(s) \in Nat /\ 1 \in 1..Len(s) /\ Len(s) \in 1..Len(s)
        /\ \A i \in 1..Len(s) : s[i] \in Slice
    OBVIOUS
  <1>2. \A i \in 1..Len(s) : s[i].from \in Nat /\ s[i].to \in Nat /\ s[i].from < s[i].to
    BY <1>1 DEF Slice, Contiguous
  <1>3. ASSUME NEW b \in Bytes(s)
        PROVE  b \in s[1].from .. (s[Len(s)].to - 1)
    <2>1. PICK i \in 1..Len(s) : b \in s[i].from .. (s[i].to - 1)
      BY DEF Bytes
    <2>2. i # 1 => s[1].to <= s[i].from
      <3>1. i # 1 => 1 < i
        BY <1>1
      <3> QED BY <1>1, <3>1 DEF Ordered
    <2>3. i # Len(s) => s[i].to <= s[Len(s)].from
      <3>1. i # Len(s) => i < Len(s)
        BY <1>1
      <3> QED BY <1>1, <3>1 DEF Ordered
    <2>4. /\ s[1].from \in Nat /\ s[1].to \in Nat /\ s[1].from < s[1].to
          /\ s[i].from \in Nat /\ s[i].to \in Nat
          /\ s[Len(s)].from \in Nat /\ s[Len(s)].to \in Nat /\ s[Len(s)].from < s[Len(s)].to
      BY <1>1, <1>2
    <2>5. s[1].from <= s[i].from
      BY <2>2, <2>4
    <2>6. s[i].to <= s[Len(s)].to
      BY <2>3, <2>4
    <2> QED BY <2>1, <2>4, <2>5, <2>6
  <1>4. ASSUME NEW b \in s[1].from .. (s[Len(s)].to - 1)
        PROVE  b \in Bytes(s)
    <2> DEFINE Ends == {i \in 1..Len(s) : b < s[i].to}
    <2>1. b \in Nat /\ b < s[Len(s)].to
      BY <1>1, <1>2
    <2>2. Ends \subseteq Nat /\ Ends # {}
      BY <1>1, <2>1
    <2>3. PICK i \in Ends : \A j \in Ends : i <= j
      BY <2>2, LeastIsThere
    <2>4. i \in 1..Len(s) /\ b < s[i].to
      OBVIOUS
    <2>5. s[i].from <= b
      <3>1. CASE i = 1
        BY <3>1, <1>1, <1>2
      <3>2. CASE i # 1
        <4> DEFINE j == i - 1
        <4>1. j \in 1..(Len(s) - 1) /\ j \in 1..Len(s) /\ j + 1 = i /\ ~(i <= j)
          BY <2>4, <3>2
        <4> HIDE DEF j
        <4>2. s[j].to = s[i].from
          BY <4>1 DEF Contiguous
        <4>3. ~(b < s[j].to)
          BY <2>3, <4>1
        <4> QED BY <4>1, <4>2, <4>3, <1>2, <2>1
      <3> QED BY <3>1, <3>2
    <2>6. b \in s[i].from .. (s[i].to - 1)
      BY <2>1, <2>4, <2>5, <1>2
    <2> QED BY <2>4, <2>6 DEF Bytes
  <1> QED BY <1>3, <1>4

\* Two sequences of slices carry the bytes of both.
LEMMA BytesJoin ==
    ASSUME NEW s \in Seq(Slice), NEW t \in Seq(Slice)
    PROVE  Bytes(s \o t) = Bytes(s) \cup Bytes(t)
  <1> DEFINE u == s \o t
  <1>1. /\ Len(u) = Len(s) + Len(t) /\ Len(s) \in Nat /\ Len(t) \in Nat
        /\ \A i \in 1..Len(s) : u[i] = s[i]
        /\ \A i \in 1..Len(t) : u[Len(s) + i] = t[i]
    OBVIOUS
  <1> HIDE DEF u
  <1>2. ASSUME NEW b \in Bytes(u) PROVE b \in Bytes(s) \cup Bytes(t)
    <2>1. PICK i \in 1..Len(u) : b \in u[i].from .. (u[i].to - 1)
      BY DEF Bytes
    <2>2. CASE i \in 1..Len(s)
      BY <1>1, <2>1, <2>2 DEF Bytes
    <2>3. CASE i \notin 1..Len(s)
      <3> DEFINE j == i - Len(s)
      <3>1. j \in 1..Len(t) /\ i = Len(s) + j
        BY <1>1, <2>3
      <3> HIDE DEF j
      <3>2. u[i] = t[j]
        BY <1>1, <3>1
      <3> QED BY <2>1, <3>1, <3>2 DEF Bytes
    <2> QED BY <2>2, <2>3
  <1>3. ASSUME NEW b \in Bytes(s) PROVE b \in Bytes(u)
    <2>1. PICK i \in 1..Len(s) : b \in s[i].from .. (s[i].to - 1)
      BY DEF Bytes
    <2>2. i \in 1..Len(u) /\ u[i] = s[i]
      BY <1>1
    <2> QED BY <2>1, <2>2 DEF Bytes
  <1>4. ASSUME NEW b \in Bytes(t) PROVE b \in Bytes(u)
    <2>1. PICK i \in 1..Len(t) : b \in t[i].from .. (t[i].to - 1)
      BY DEF Bytes
    <2> DEFINE j == Len(s) + i
    <2>2. j \in 1..Len(u) /\ u[j] = t[i]
      BY <1>1
    <2> HIDE DEF j
    <2> QED BY <2>1, <2>2 DEF Bytes
  <1> QED BY <1>2, <1>3, <1>4 DEF u

\* The ring after a push of c: the new events come after those it had, the n oldest are gone.
Pushed(c, n) ==
    /\ Len(output'.events) = Len(output.events) + Len(c) - n
    /\ output'.nextSequence = output.nextSequence + Len(c)
    /\ output.droppedBytes <= output'.droppedBytes
    /\ \A i \in 1..Len(output'.events) :
          output'.events[i] = IF n + i <= Len(output.events)
                              THEN output.events[n + i] ELSE c[(n + i) - Len(output.events)]

\* What OutputState::push makes of the ring is Pushed.
LEMMA PushFacts ==
    ASSUME RingInv, NEW c, NEW k \in Nat \ {0}, NEW to \in Nat, taken < to,
           CutResult(c, output.nextSequence, taken, to, k), Push(c, taken, to)
    PROVE  \E n \in 0..(Len(output.events) + Len(c)) : Pushed(c, n)
  <1> DEFINE ev == output.events
             u == ev \o c
             size == output.bufferedBytes + (to - taken)
  <1>1. /\ ev \in Seq(Slice) /\ Len(ev) \in Nat /\ taken \in Nat
        /\ output.nextSequence \in Nat \ {0}
        /\ output.bufferedBytes \in Nat /\ output.droppedBytes \in Nat
        /\ output.droppedBytes + output.bufferedBytes = taken
    BY DEF RingInv, RingType, RingAccounts
  <1>2. /\ c \in Seq(Slice) /\ Len(c) = k /\ Contiguous(c) /\ Ordered(c) /\ c[1].from = taken
    BY DEF CutResult
  <1>0. ev \in Seq(Slice) /\ c \in Seq(Slice)
    BY <1>1, <1>2
  <1>3. Len(u) = Len(ev) + Len(c)
    BY <1>0
  <1>4. \A i \in 1..Len(u) : u[i] = IF i <= Len(ev) THEN ev[i] ELSE c[i - Len(ev)]
    BY <1>0
  <1>5. PICK n \in 0..Len(u) :
          output' = [Trim(u, n, size, IF n = 0 THEN size ELSE to - u[n].to)
                           EXCEPT !.nextSequence = @ + Len(c)]
    BY DEF Push
  <1> DEFINE left == IF n = 0 THEN size ELSE to - u[n].to
  <1>6. /\ output'.events = SubSeq(u, n + 1, Len(u))
        /\ output'.nextSequence = output.nextSequence + Len(c)
        /\ output'.droppedBytes = output.droppedBytes + (size - left)
    BY <1>5 DEF Trim, RingInv, RingType
  <1>7. u \in Seq(Slice) /\ Len(u) \in Nat
    BY <1>1, <1>2
  <1>8. /\ Len(output'.events) = Len(u) - n
        /\ \A i \in 1..Len(output'.events) : output'.events[i] = u[n + i]
    <2> HIDE DEF u
    <2> QED BY <1>6, <1>7
  <1>9. \A i \in 1..Len(output'.events) : n + i \in 1..Len(u)
    BY <1>8, <1>7
  <1>10. n # 0 => output.droppedBytes <= u[n].to /\ u[n].to \in Nat
    <2> HAVE n # 0
    <2>1. CASE n <= Len(ev)
      <3>1. u[n] = ev[n] /\ 1 \in 1..Len(ev) /\ n \in 1..Len(ev) /\ ev # << >>
        BY <2>1, <1>4, <1>1, <1>3
      <3>2. /\ ev[1] \in Slice /\ ev[n] \in Slice /\ ev[1].from < ev[1].to
            /\ ev[n].from < ev[n].to /\ ev[1].from = output.droppedBytes
            /\ n # 1 => ev[1].to <= ev[n].from
        BY <3>1, <1>1 DEF RingInv, RingAccounts, Contiguous, Ordered
      <3> HIDE DEF u, ev
      <3> QED BY <3>1, <3>2 DEF Slice
    <2>2. CASE n > Len(ev)
      <3> DEFINE j == n - Len(ev)
      <3>1. u[n] = c[j] /\ j \in 1..k /\ 1 \in 1..k
        BY <2>2, <1>4, <1>1, <1>2, <1>3
      <3> HIDE DEF u, ev, j
      <3>2. /\ c[1] \in Slice /\ c[j] \in Slice /\ c[1].from < c[1].to /\ c[j].from < c[j].to
            /\ j # 1 => c[1].to <= c[j].from
        BY <3>1, <1>2 DEF Contiguous, Ordered
      <3>3. /\ c[1].from \in Nat /\ c[1].to \in Nat /\ c[j].from \in Nat /\ c[j].to \in Nat
            /\ c[1].from = taken /\ output.droppedBytes \in Nat /\ output.droppedBytes <= taken
        <4>1. /\ c[1].from \in Nat /\ c[1].to \in Nat /\ c[j].from \in Nat /\ c[j].to \in Nat
              /\ c[1].from = taken
          BY <3>2, <1>2 DEF Slice
        <4>2. /\ output.droppedBytes \in Nat /\ output.bufferedBytes \in Nat
              /\ output.droppedBytes + output.bufferedBytes = taken
          BY <1>1
        <4> QED BY ONLY <4>1, <4>2
      <3>4. output.droppedBytes <= c[j].to
        <4>1. CASE j = 1
          BY ONLY <3>2, <3>3, <4>1
        <4>2. CASE j # 1
          BY ONLY <3>2, <3>3, <4>2
        <4> QED BY <4>1, <4>2
      <3> QED BY ONLY <3>1, <3>3, <3>4
    <2> QED BY <2>1, <2>2, <1>1
  <1>11. output.droppedBytes <= output'.droppedBytes
    <2>1. CASE n = 0
      BY <2>1, <1>1, <1>6
    <2>2. CASE n # 0
      <3>1. left = to - u[n].to /\ size = output.bufferedBytes + to - taken
        BY <2>2, <1>1
      <3>2. output.droppedBytes + (size - left) = u[n].to
        <4>1. /\ u[n].to \in Nat /\ taken \in Nat /\ output.bufferedBytes \in Nat
              /\ output.droppedBytes \in Nat
              /\ output.droppedBytes + output.bufferedBytes = taken
          BY <2>2, <1>1, <1>10
        <4>2. \A e, b, d \in Nat : d + b = taken => d + ((b + to - taken) - (to - e)) = e
          BY <4>1
        <4> HIDE DEF left, size, u
        <4> QED BY <4>1, <4>2, <3>1
      <3> HIDE DEF left, size, u
      <3> QED BY <2>2, <3>2, <1>6, <1>10
    <2> QED BY <2>1, <2>2
  <1>12. Pushed(c, n)
    <2>1. \A i \in 1..Len(output'.events) :
             output'.events[i] = IF n + i <= Len(ev) THEN ev[n + i] ELSE c[(n + i) - Len(ev)]
      <3> HIDE DEF u, ev
      <3> QED BY <1>4, <1>8, <1>9
    <2>2. Len(output'.events) = Len(ev) + Len(c) - n
      BY <1>3, <1>8
    <2> QED BY <2>1, <2>2, <1>6, <1>11 DEF Pushed
  <1> QED BY <1>3, <1>12
\* v is a stretch from event first to event last.
Stretch(v, first, last) ==
    /\ v \in Seq(Slice) /\ Contiguous(v) /\ Ordered(v) /\ v # << >>
    /\ v[1] = first /\ v[Len(v)] = last

\* A part of a stretch is a stretch.
LEMMA Part ==
    ASSUME NEW s \in Seq(Slice), Contiguous(s), Ordered(s),
           NEW lo \in Nat, NEW hi \in Nat, 1 <= lo, lo <= hi, hi <= Len(s),
           NEW v, v = SubSeq(s, lo, hi)
    PROVE  Stretch(v, s[lo], s[hi])
  <1>1. Len(v) = (hi - lo) + 1 /\ v \in Seq(Slice)
    OBVIOUS
  <1>2. \A i \in 1..Len(v) : v[i] = s[(lo + i) - 1] /\ (lo + i) - 1 \in 1..Len(s)
    OBVIOUS
  <1>3. Contiguous(v)
    <2>1. \A i \in 1..Len(v) : v[i].from < v[i].to
      BY <1>2 DEF Contiguous
    <2>2. \A i \in 1..(Len(v) - 1) : v[i].to = v[i + 1].from /\ v[i].sequence + 1 = v[i + 1].sequence
      <3> TAKE i \in 1..(Len(v) - 1)
      <3>1. /\ (lo + i) - 1 \in 1..(Len(s) - 1) /\ i \in 1..Len(v) /\ i + 1 \in 1..Len(v)
            /\ (lo + (i + 1)) - 1 = ((lo + i) - 1) + 1
        BY <1>1
      <3> QED BY <3>1, <1>2 DEF Contiguous
    <2> QED BY <2>1, <2>2 DEF Contiguous
  <1>4. Ordered(v)
    <2> SUFFICES ASSUME NEW i \in 1..Len(v), NEW j \in 1..Len(v), i < j
                 PROVE  v[i].to <= v[j].from
      BY DEF Ordered
    <2>1. (lo + i) - 1 < (lo + j) - 1
      BY <1>1
    <2> QED BY <2>1, <1>2 DEF Ordered
  <1>5. v # << >> /\ v[1] = s[lo] /\ v[Len(v)] = s[hi]
    <2>1. 1 \in 1..Len(v) /\ Len(v) \in 1..Len(v) /\ (lo + 1) - 1 = lo /\ (lo + Len(v)) - 1 = hi
      BY <1>1
    <2> QED BY <2>1, <1>1, <1>2
  <1> QED BY <1>1, <1>3, <1>4, <1>5 DEF Stretch

---------------------------------------------------------------------------
(* What the ring, the answers under way and the screen agree on.            *)

Has(s) == {s[i] : i \in 1..Len(s)}

\* The events of the answers under way, and all that the ring, these or the screen has.
Carried == UNION {Has(polls[p].events) : p \in {q \in Pollers : polls[q].stage = "answered"}}
Known == Has(output.events) \cup Has(screen) \cup Carried

\* Events that are numbered below next, in the order of their bytes, of which there are n.
Coherent(K, next, n) ==
    /\ K \subseteq Slice
    /\ \A x \in K : 1 <= x.sequence /\ x.sequence < next /\ x.from < x.to /\ x.to <= n
    /\ \A x, y \in K : /\ x.sequence < y.sequence => x.to <= y.from
                       /\ x.sequence = y.sequence => x = y

\* A cursor is 0 or the number of an event that was shown.
Place(number) == number = 0 \/ \E i \in 1..Len(screen) : screen[i].sequence = number

\* Every byte before the offset was shown or has been dropped.
Reached(offset) == 0..(offset - 1) \subseteq Bytes(screen) \cup 0..(output.droppedBytes - 1)

\* An answer is a stretch before which nothing is missing, or leaves the cursor at a place.
AnswerFits(a) ==
    IF a.events = << >> THEN Place(a.next)
    ELSE /\ Contiguous(a.events) /\ Ordered(a.events)
         /\ a.next = a.events[Len(a.events)].sequence
         /\ Reached(a.events[1].from)

\* The cursor and all that is under way stand at places of one and the same stream, with
\* nothing missing before them, and the timer's poll is not behind while the mount poll,
\* which alone can overtake it, is still under way.
StreamInv ==
    /\ Coherent(Known, output.nextSequence, taken)
    /\ Place(cursor)
    /\ \A i \in 1..Len(screen) : Reached(screen[i].to)
    /\ \A p \in Pollers : polls[p].stage = "asked" => Place(polls[p].after)
    /\ \A p \in Pollers : polls[p].stage = "answered" => AnswerFits(polls[p])
    /\ polls["mount"] # Idle => ~TimerIsBehind

\* A poll that is over is neither asked nor answered.
LEMMA IdleStage == Idle.stage = "idle"
  BY DEF Idle

\* Fewer events in a stream that went on are as coherent.
LEMMA CoherentLess ==
    ASSUME NEW K, NEW next \in Nat, NEW n \in Nat, Coherent(K, next, n),
           NEW L, L \subseteq K, NEW next2 \in Nat, NEW n2 \in Nat, next <= next2, n <= n2
    PROVE  Coherent(L, next2, n2)
  <1>1. \A x \in L : x \in K /\ x \in Slice
    BY DEF Coherent
  <1>2. \A x \in L : 1 <= x.sequence /\ x.sequence < next2 /\ x.from < x.to /\ x.to <= n2
    <2> TAKE x \in L
    <2>1. 1 <= x.sequence /\ x.sequence < next /\ x.from < x.to /\ x.to <= n
      BY <1>1 DEF Coherent
    <2>2. x.sequence \in Nat /\ x.to \in Nat
      BY <1>1 DEF Slice
    <2> QED BY <2>1, <2>2
  <1>3. \A x, y \in L : /\ x.sequence < y.sequence => x.to <= y.from
                        /\ x.sequence = y.sequence => x = y
    BY <1>1 DEF Coherent
  <1> QED BY <1>1, <1>2, <1>3 DEF Coherent

\* The events of a push come after all others.
LEMMA CoherentPush ==
    ASSUME NEW K, NEW next \in Nat \ {0}, NEW n \in Nat, Coherent(K, next, n),
           NEW c, NEW k \in Nat \ {0}, NEW to \in Nat, n < to,
           CutResult(c, next, n, to, k),
           \A i \in 1..k : c[i].sequence = next + (i - 1)
    PROVE  Coherent(K \cup Has(c), next + k, to)
  <1>1. /\ c \in Seq(Slice) /\ Len(c) = k /\ Contiguous(c) /\ Ordered(c)
        /\ c[1].from = n /\ c[k].to = to
    BY DEF CutResult
  <1>2. \A i \in 1..k : c[i] \in Slice /\ c[i].from \in Nat /\ c[i].to \in Nat
                        /\ c[i].from < c[i].to /\ c[i].sequence \in Nat
    <2>1. \A i \in 1..k : c[i] \in Slice
      BY <1>1
    <2> QED BY <1>1, <2>1 DEF Slice, Contiguous
  <1>3. \A i \in 1..k : n <= c[i].from /\ c[i].to <= to
    <2> TAKE i \in 1..k
    <2>1. 1 \in 1..k /\ k \in 1..k /\ (i = 1 \/ 1 < i) /\ (i = k \/ i < k)
      OBVIOUS
    <2>2. 1 < i => c[1].to <= c[i].from
      BY <1>1, <2>1 DEF Ordered
    <2>3. i < k => c[i].to <= c[k].from
      BY <1>1, <2>1 DEF Ordered
    <2>4. n <= c[i].from
      BY <1>1, <1>2, <2>1, <2>2
    <2>5. c[i].to <= to
      BY <1>1, <1>2, <2>1, <2>3
    <2> QED BY <2>4, <2>5
  <1>4. \A x \in Has(c) : \E i \in 1..k : x = c[i]
    BY <1>1 DEF Has
  <1>5. \A x \in Has(c) : /\ x \in Slice /\ next <= x.sequence /\ x.sequence < next + k
                          /\ x.from < x.to /\ x.to <= to /\ n <= x.from
    <2> TAKE x \in Has(c)
    <2>1. PICK i \in 1..k : x = c[i]
      BY <1>4
    <2> QED BY <2>1, <1>2, <1>3
  <1>6. \A x \in K : /\ x \in Slice /\ 1 <= x.sequence /\ x.sequence < next
                     /\ x.from < x.to /\ x.to <= n
    BY DEF Coherent
  <1>7. \A x \in K \cup Has(c) : /\ x \in Slice /\ 1 <= x.sequence /\ x.sequence < next + k
                                 /\ x.from < x.to /\ x.to <= to
    <2> TAKE x \in K \cup Has(c)
    <2>1. x \in Slice
      BY <1>5, <1>6
    <2>2. x.sequence \in Nat /\ x.to \in Nat
      BY <2>1 DEF Slice
    <2> QED BY <1>5, <1>6, <2>1, <2>2
  <1>8. ASSUME NEW x \in K \cup Has(c), NEW y \in K \cup Has(c)
        PROVE  /\ x.sequence < y.sequence => x.to <= y.from
               /\ x.sequence = y.sequence => x = y
    <2>1. /\ x.sequence \in Nat /\ y.sequence \in Nat /\ x.to \in Nat /\ y.from \in Nat
      BY <1>7 DEF Slice
    <2>2. CASE x \in K /\ y \in K
      BY <2>2 DEF Coherent
    <2>3. CASE x \in K /\ y \in Has(c)
      BY <2>1, <2>3, <1>5, <1>6
    <2>4. CASE x \in Has(c) /\ y \in K
      BY <2>1, <2>4, <1>5, <1>6
    <2>5. CASE x \in Has(c) /\ y \in Has(c)
      <3>1. PICK i \in 1..k : x = c[i]
        BY <2>5, <1>4
      <3>2. PICK j \in 1..k : y = c[j]
        BY <2>5, <1>4
      <3>3. x.sequence = next + (i - 1) /\ y.sequence = next + (j - 1)
        BY <3>1, <3>2
      <3>4. (x.sequence < y.sequence => i < j) /\ (x.sequence = y.sequence => i = j)
        BY <3>3
      <3> QED BY <3>1, <3>2, <3>4, <1>1 DEF Ordered
    <2> QED BY <2>2, <2>3, <2>4, <2>5
  <1>9. K \cup Has(c) \subseteq Slice
    BY <1>7
  <1> QED BY <1>7, <1>8, <1>9 DEF Coherent

\* What was reached stays so while the screen grows and the ring drops.
LEMMA ReachedKept ==
    ASSUME NEW offset, Reached(offset), Bytes(screen) \subseteq Bytes(screen'),
           output.droppedBytes \in Nat, output'.droppedBytes \in Nat,
           output.droppedBytes <= output'.droppedBytes
    PROVE  Reached(offset)'
  <1>1. 0..(output.droppedBytes - 1) \subseteq 0..(output'.droppedBytes - 1)
    OBVIOUS
  <1>2. Reached(offset)' <=>
          0..(offset - 1) \subseteq Bytes(screen') \cup 0..(output'.droppedBytes - 1)
    BY DEF Reached, Bytes
  <1> QED BY <1>1, <1>2 DEF Reached

\* Only the screen counts for a place, and it only grows.
LEMMA Grows ==
    ASSUME screen \in Seq(Slice), NEW e \in Seq(Slice), screen' = screen \o e
    PROVE  /\ screen' \in Seq(Slice) /\ Len(screen') = Len(screen) + Len(e)
           /\ \A i \in 1..Len(screen) : screen'[i] = screen[i] /\ i \in 1..Len(screen')
           /\ \A i \in 1..Len(e) : /\ screen'[Len(screen) + i] = e[i]
                                   /\ Len(screen) + i \in 1..Len(screen')
           /\ Bytes(screen') = Bytes(screen) \cup Bytes(e)
           /\ Has(screen') = Has(screen) \cup Has(e)
           /\ \A number : Place(number) => Place(number)'
  <1>1. /\ screen' \in Seq(Slice) /\ Len(screen') = Len(screen) + Len(e)
        /\ Len(screen) \in Nat /\ Len(e) \in Nat
    OBVIOUS
  <1>2. \A i \in 1..Len(screen) : screen'[i] = screen[i]
    OBVIOUS
  <1>3. \A i \in 1..Len(e) : screen'[Len(screen) + i] = e[i]
    OBVIOUS
  <1>4. \A i \in 1..Len(screen) : i \in 1..Len(screen')
    BY <1>1
  <1>5. \A i \in 1..Len(e) : Len(screen) + i \in 1..Len(screen')
    BY <1>1
  <1>6. Bytes(screen') = Bytes(screen) \cup Bytes(e)
    BY BytesJoin
  <1>7. Has(screen') = Has(screen) \cup Has(e)
    <2>1. ASSUME NEW x \in Has(screen') PROVE x \in Has(screen) \cup Has(e)
      <3>1. PICK i \in 1..Len(screen') : x = screen'[i]
        BY DEF Has
      <3>2. CASE i \in 1..Len(screen)
        BY <3>1, <3>2, <1>2 DEF Has
      <3>3. CASE i \notin 1..Len(screen)
        <4> DEFINE j == i - Len(screen)
        <4>1. j \in 1..Len(e) /\ i = Len(screen) + j
          BY <3>3, <1>1
        <4> HIDE DEF j
        <4> QED BY <3>1, <4>1, <1>3 DEF Has
      <3> QED BY <3>2, <3>3
    <2>2. Has(screen) \subseteq Has(screen')
      BY <1>2, <1>4 DEF Has
    <2>3. ASSUME NEW x \in Has(e) PROVE x \in Has(screen')
      <3>1. PICK i \in 1..Len(e) : x = e[i]
        BY DEF Has
      <3> DEFINE j == Len(screen) + i
      <3>2. j \in 1..Len(screen') /\ x = screen'[j]
        BY <3>1, <1>3, <1>5
      <3> HIDE DEF j
      <3> QED BY <3>2 DEF Has
    <2> QED BY <2>1, <2>2, <2>3
  <1>8. ASSUME NEW number, Place(number) PROVE Place(number)'
    BY <1>2, <1>4, <1>8 DEF Place
  <1> QED BY <1>1, <1>2, <1>3, <1>4, <1>5, <1>6, <1>7, <1>8

\* The stream goes on and the screen and the cursor stay: what holds of the polls that a
\* step leaves alone is kept.
LEMMA StreamKept ==
    ASSUME RingInv, RingInv', StreamInv, UNCHANGED <<cursor, screen>>,
           Coherent(Known', output'.nextSequence, taken'),
           output.droppedBytes <= output'.droppedBytes,
           \A p \in Pollers : polls'[p].stage = "asked" => Place(polls'[p].after),
           \A p \in Pollers : polls'[p].stage = "answered" => AnswerFits(polls'[p]),
           polls'["mount"] # Idle => ~TimerIsBehind'
    PROVE  StreamInv'
  <1>1. output.droppedBytes \in Nat /\ output'.droppedBytes \in Nat
    BY DEF RingInv, RingType
  <1>2. ASSUME NEW offset, Reached(offset) PROVE Reached(offset)'
    BY <1>1, <1>2, ReachedKept
  <1>3. \A number : Place(number)' <=> Place(number)
    BY DEF Place
  <1>4. \A p \in Pollers : polls'[p].stage = "answered" => AnswerFits(polls[p])'
    <2> SUFFICES ASSUME NEW p \in Pollers, AnswerFits(polls'[p])
                 PROVE  AnswerFits(polls[p])'
      OBVIOUS
    <2>1. CASE polls'[p].events = << >>
      <3>1. Place(polls'[p].next)
        BY <2>1 DEF AnswerFits
      <3> QED BY <2>1, <3>1 DEF AnswerFits, Place
    <2>2. CASE polls'[p].events # << >>
      <3>1. Reached(polls'[p].events[1].from)
        BY <2>2 DEF AnswerFits
      <3>2. 0..(polls'[p].events[1].from - 1) \subseteq
               Bytes(screen') \cup 0..(output'.droppedBytes - 1)
        BY <3>1, <1>1 DEF Reached
      <3> QED BY <2>2, <3>2 DEF AnswerFits, Reached, Bytes, Contiguous, Ordered
    <2> QED BY <2>1, <2>2
  <1>5. \A p \in Pollers : polls'[p].stage = "asked" => Place(polls[p].after)'
    BY DEF Place
  <1>6. Place(cursor)'
    BY DEF StreamInv, Place
  <1>7. \A i \in 1..Len(screen') : Reached(screen[i].to)'
    <2> TAKE i \in 1..Len(screen')
    <2>1. Reached(screen[i].to)
      BY DEF StreamInv
    <2>2. 0..(screen[i].to - 1) \subseteq Bytes(screen) \cup 0..(output'.droppedBytes - 1)
      BY <2>1, <1>1 DEF Reached
    <2> QED BY <2>2 DEF Reached, Bytes
  <1> QED BY <1>4, <1>5, <1>6, <1>7 DEF StreamInv

\* At the start nothing was written, read or shown.
LEMMA InitStream == Init => StreamInv
  <1> SUFFICES ASSUME Init PROVE StreamInv
    OBVIOUS
  <1>1. output.events = << >> /\ cursor = 0 /\ screen = << >> /\ Len(output.events) = 0
    BY DEF Init, NewOutput
  <1>2. polls["timer"] = Idle /\ polls["mount"] = [stage |-> "asked", after |-> 0]
    BY DEF Init, Pollers
  <1>3. \A p \in Pollers : /\ polls[p].stage # "answered"
                           /\ polls[p].stage = "asked" => polls[p].after = 0
    BY <1>2 DEF Pollers, Idle
  <1>4. Known = {}
    BY <1>1, <1>3 DEF Known, Carried, Has
  <1>5. ~TimerIsBehind
    BY <1>2, IdleStage DEF TimerIsBehind
  <1> QED BY <1>1, <1>3, <1>4, <1>5 DEF StreamInv, Coherent, Place

\* A reader's push continues the stream (read_output, push_ssh_output).
LEMMA ReadContinues ==
    ASSUME RingInv, Coherent(Known, output.nextSequence, taken), ReadLocal \/ PumpOutput
    PROVE  /\ Coherent(Known', output'.nextSequence, taken')
           /\ output.droppedBytes <= output'.droppedBytes /\ taken < taken'
           /\ UNCHANGED <<cursor, screen, polls>>
  <1>0. UNCHANGED <<cursor, screen, polls>>
    BY DEF ReadLocal, PumpOutput, tabVars
  <1>1. /\ taken \in Nat /\ output.nextSequence \in Nat \ {0} /\ output.events \in Seq(Slice)
    BY DEF RingInv, RingType
  <1>2. ASSUME NEW m \in Nat \ {0}, NEW k \in Nat \ {0}, (k - 1) * MaxSessionEventBytes < m,
               Push(Chunks(k, taken, taken + m), taken, taken + m), taken' = taken + m
        PROVE  /\ Coherent(Known', output'.nextSequence, taken')
               /\ output.droppedBytes <= output'.droppedBytes /\ taken < taken'
    <2> DEFINE c == Chunks(k, taken, taken + m)
               to == taken + m
    <2>1. to \in Nat /\ taken < to /\ taken' = to /\ to - taken = m
      BY <1>1, <1>2
    <2>2. \A i \in 1..k : c[i].sequence = output.nextSequence + (i - 1)
      BY DEF Chunks
    <2> HIDE DEF to
    <2>3. CutResult(c, output.nextSequence, taken, to, k)
      BY <1>1, <1>2, <2>1, ChunksCut DEF to
    <2>4. Push(c, taken, to)
      BY <1>2 DEF to
    <2> HIDE DEF c
    <2>5. PICK n \in 0..(Len(output.events) + Len(c)) : Pushed(c, n)
      BY <2>1, <2>3, <2>4, PushFacts
    <2>6. Coherent(Known \cup Has(c), output.nextSequence + k, to)
      BY <1>1, <2>1, <2>2, <2>3, CoherentPush
    <2>7. c \in Seq(Slice) /\ Len(c) = k
      BY <2>3 DEF CutResult
    <2>8. Has(output'.events) \subseteq Has(output.events) \cup Has(c)
      <3> SUFFICES ASSUME NEW i \in 1..Len(output'.events)
                   PROVE  output'.events[i] \in Has(output.events) \cup Has(c)
        BY DEF Has
      <3>1. /\ Len(output.events) \in Nat /\ Len(output'.events) = Len(output.events) + k - n
            /\ output'.events[i] = IF n + i <= Len(output.events)
                                   THEN output.events[n + i] ELSE c[(n + i) - Len(output.events)]
        BY <1>1, <2>5, <2>7 DEF Pushed
      <3>2. CASE n + i <= Len(output.events)
        <4>1. n + i \in 1..Len(output.events)
          BY <3>1, <3>2
        <4> QED BY <3>1, <3>2, <4>1 DEF Has
      <3>3. CASE ~(n + i <= Len(output.events))
        <4> DEFINE j == (n + i) - Len(output.events)
        <4>1. j \in 1..k
          BY <3>1, <3>3
        <4>2. output'.events[i] = c[j]
          BY <3>1, <3>3
        <4> HIDE DEF j
        <4> QED BY <4>1, <4>2, <2>7 DEF Has
      <3> QED BY <3>2, <3>3
    <2>9. Known' \subseteq Known \cup Has(c)
      <3>1. Carried' = Carried /\ Has(screen') = Has(screen)
        BY <1>0 DEF Carried, Has
      <3> QED BY <2>8, <3>1 DEF Known, Has
    <2>10. output'.nextSequence = output.nextSequence + k /\ output'.nextSequence \in Nat
      BY <1>1, <2>5, <2>7 DEF Pushed
    <2>11. Coherent(Known', output'.nextSequence, to)
      BY <1>1, <2>1, <2>6, <2>9, <2>10, CoherentLess
    <2> QED BY <2>1, <2>5, <2>11 DEF Pushed
  <1>3. CASE ReadLocal
    <2>1. PICK n \in 1..MaxSessionEventBytes :
            Push(Chunks(1, taken, taken + n), taken, taken + n) /\ taken' = taken + n
      BY <1>3 DEF ReadLocal
    <2>2. n \in Nat \ {0} /\ (1 - 1) * MaxSessionEventBytes < n
      BY LimitAssumption
    <2> QED BY <1>0, <1>2, <2>1, <2>2
  <1>4. CASE PumpOutput
    <2>1. PICK n \in 1..(produced - taken) : \E k \in 1..n :
            /\ (k - 1) * MaxSessionEventBytes < n
            /\ Push(Chunks(k, taken, taken + n), taken, taken + n) /\ taken' = taken + n
      BY <1>4 DEF PumpOutput
    <2>2. PICK k \in 1..n :
            /\ (k - 1) * MaxSessionEventBytes < n
            /\ Push(Chunks(k, taken, taken + n), taken, taken + n) /\ taken' = taken + n
      BY <2>1
    <2>3. n \in Nat \ {0} /\ k \in Nat \ {0}
      OBVIOUS
    <2> QED BY <1>0, <1>2, <2>2, <2>3
  <1> QED BY <1>3, <1>4


\* Answering a poll, or ending it, carries no event that was not known.
LEMMA CarriedLess ==
    ASSUME NEW p \in Pollers, NEW r, polls \in [Pollers -> Poll], polls' = [polls EXCEPT ![p] = r],
           NEW S, r.stage = "answered" => Has(r.events) \subseteq S
    PROVE  Carried' \subseteq Carried \cup S
  <1>1. \A q \in Pollers : polls'[q] = IF q = p THEN r ELSE polls[q]
    OBVIOUS
  <1>2. ASSUME NEW x \in Carried' PROVE x \in Carried \cup S
    <2>1. PICK q \in Pollers : polls'[q].stage = "answered" /\ x \in Has(polls'[q].events)
      BY DEF Carried, Has
    <2> QED BY <1>1, <2>1 DEF Carried
  <1> QED BY <1>2

\* collect_events goes on after the cursor it is given, and nothing is between its answer
\* and the cursor but what the ring has dropped.
LEMMA AnswerGoesOn ==
    ASSUME RingInv, StreamInv, screen \in Seq(Slice), NEW after \in Nat, Place(after),
           NEW lo \in 1..(Len(output.events) + 1), NEW hi \in (lo - 1)..Len(output.events),
           \A i \in 1..(lo - 1) : ~Unread(output.events[i], after),
           lo <= Len(output.events) => Unread(output.events[lo], after),
           NEW r, r.events = SubSeq(output.events, lo, hi), r.next = NextAfter(r.events, after)
    PROVE  /\ AnswerFits(r) /\ Has(r.events) \subseteq Has(output.events)
           /\ IF r.events = << >> THEN r.next = after ELSE r.events[1].sequence > after
  <1> DEFINE ev == output.events
             e == r.events
  <1>1. /\ ev \in Seq(Slice) /\ Len(ev) \in Nat /\ Contiguous(ev) /\ Ordered(ev)
        /\ output.droppedBytes \in Nat
        /\ ev # << >> => ev[1].from = output.droppedBytes
    BY DEF RingInv, RingType, RingAccounts
  <1>2. CASE hi = lo - 1
    <2>1. e = << >>
      BY <1>1, <1>2
    <2> QED BY <2>1 DEF AnswerFits, NextAfter, Has
  <1>3. CASE hi # lo - 1
    <2>1. lo \in Nat /\ hi \in Nat /\ 1 <= lo /\ lo <= hi /\ hi <= Len(ev)
      BY <1>1, <1>3
    <2>2. /\ lo \in 1..Len(ev) /\ 1 \in 1..Len(ev) /\ ev # << >>
      BY <1>1, <2>1
    <2>3. Stretch(e, ev[lo], ev[hi])
      BY <1>1, <2>1, Part
    <2>4. ev[lo].sequence > after
      BY <2>2 DEF Unread
    <2>5. Reached(ev[lo].from)
      <3>1. CASE lo = 1
        <4>1. ev[lo].from = output.droppedBytes
          BY <3>1, <1>1, <2>2
        <4> HIDE DEF ev
        <4> QED BY <4>1 DEF Reached
      <3>2. CASE lo # 1
        <4> DEFINE j == lo - 1
        <4>1. j \in 1..(lo - 1) /\ j \in 1..(Len(ev) - 1) /\ j \in 1..Len(ev) /\ j + 1 = lo
          BY <3>2, <2>1
        <4> HIDE DEF j
        <4>2. ev[j].to = ev[lo].from /\ ev[j].sequence + 1 = ev[lo].sequence
          BY <4>1, <1>1 DEF Contiguous
        <4>3. ~(ev[j].sequence > after)
          BY <4>1 DEF Unread
        <4>4. ev[j] \in Known /\ Coherent(Known, output.nextSequence, taken)
          BY <4>1 DEF Known, Has, StreamInv
        <4>5. ev[j] \in Slice /\ 1 <= ev[j].sequence /\ ev[lo] \in Slice
          BY <4>4, <2>2, <1>1 DEF Coherent
        <4>6. ev[j].sequence \in Nat /\ ev[lo].sequence \in Nat
          BY <4>5 DEF Slice
        <4>7. ev[j].sequence = after /\ after # 0
          BY <4>2, <4>3, <4>5, <4>6, <2>4
        <4>8. PICK i \in 1..Len(screen) : screen[i].sequence = after
          BY <4>7 DEF Place
        <4>9. screen[i] \in Known
          BY <4>8 DEF Known, Has
        <4>10. screen[i] = ev[j]
          BY <4>4, <4>7, <4>8, <4>9 DEF Coherent
        <4> QED BY <4>2, <4>8, <4>10 DEF StreamInv
      <3> QED BY <3>1, <3>2
    <2>6. Has(e) \subseteq Has(ev)
      <3> SUFFICES ASSUME NEW i \in 1..Len(e) PROVE e[i] \in Has(ev)
        BY DEF Has
      <3>1. e = SubSeq(ev, lo, hi) /\ Len(e) = (hi - lo) + 1
        BY <1>1, <2>1
      <3>2. e[i] = ev[(lo + i) - 1] /\ (lo + i) - 1 \in 1..Len(ev)
        BY <1>1, <2>1, <3>1
      <3> QED BY <3>2 DEF Has
    <2>7. /\ e # << >> /\ Contiguous(e) /\ Ordered(e) /\ e[1] = ev[lo]
          /\ r.next = e[Len(e)].sequence
      BY <2>3 DEF Stretch, NextAfter
    <2> QED BY <2>4, <2>5, <2>6, <2>7 DEF AnswerFits
  <1> QED BY <1>2, <1>3

\* An answer that is shown takes the screen to a place, with nothing missing before it.
LEMMA ShowFits ==
    ASSUME TypeOK, RingInv, StreamInv, NEW p \in Pollers, Show(p)
    PROVE  /\ polls[p].events \in Seq(Slice) /\ AnswerFits(polls[p])
           /\ screen \in Seq(Slice) /\ screen' = screen \o polls[p].events
           /\ UNCHANGED <<output, taken>> /\ cursor' = polls[p].next
           /\ polls' = [polls EXCEPT ![p] = Idle]
           /\ Place(cursor)'
           /\ \A i \in 1..Len(screen') : Reached(screen[i].to)'
           /\ Has(polls[p].events) \subseteq Known
           /\ \A offset : Reached(offset) => Reached(offset)'
  <1> DEFINE e == polls[p].events
  <1>1. /\ polls \in [Pollers -> Poll] /\ screen \in Seq(Slice) /\ polls[p].stage = "answered"
        /\ cursor' = polls[p].next /\ screen' = screen \o e /\ UNCHANGED <<output, taken>>
        /\ polls' = [polls EXCEPT ![p] = Idle]
    BY DEF Show, TypeOK, Poll, runtimeVars
  <1>2. polls[p] \in Poll
    BY <1>1
  <1>3. e \in Seq(Slice) /\ AnswerFits(polls[p])
    BY <1>1, <1>2 DEF Poll, StreamInv
  <1>4. Has(e) \subseteq Known
    BY <1>1 DEF Known, Carried
  <1> HIDE DEF e
  <1>5. /\ screen' \in Seq(Slice) /\ Len(screen') = Len(screen) + Len(e)
        /\ \A i \in 1..Len(screen) : screen'[i] = screen[i] /\ i \in 1..Len(screen')
        /\ \A i \in 1..Len(e) : /\ screen'[Len(screen) + i] = e[i]
                                /\ Len(screen) + i \in 1..Len(screen')
        /\ Bytes(screen') = Bytes(screen) \cup Bytes(e)
        /\ \A number : Place(number) => Place(number)'
    BY <1>1, <1>3, Grows
  <1>6. output.droppedBytes \in Nat /\ output'.droppedBytes = output.droppedBytes
    BY <1>1 DEF RingInv, RingType
  <1>7. ASSUME NEW offset, Reached(offset) PROVE Reached(offset)'
    BY <1>5, <1>6, <1>7, ReachedKept
  <1>8. Place(cursor)'
    <2>1. CASE e = << >>
      <3>1. Place(polls[p].next)
        BY <2>1, <1>3 DEF AnswerFits, e
      <3> QED BY <3>1, <1>1, <1>5 DEF Place
    <2>2. CASE e # << >>
      <3>1. Len(e) \in 1..Len(e) /\ polls[p].next = e[Len(e)].sequence
        BY <2>2, <1>3 DEF AnswerFits, e
      <3>2. screen'[Len(screen) + Len(e)] = e[Len(e)] /\ Len(screen) + Len(e) \in 1..Len(screen')
        BY <3>1, <1>5
      <3> QED BY <3>1, <3>2, <1>1 DEF Place
    <2> QED BY <2>1, <2>2
  <1>9. \A i \in 1..Len(screen') : Reached(screen[i].to)'
    <2> SUFFICES ASSUME NEW i \in 1..Len(screen')
                 PROVE  0..(screen'[i].to - 1) \subseteq
                           Bytes(screen') \cup 0..(output'.droppedBytes - 1)
      BY DEF Reached, Bytes
    <2>1. CASE i \in 1..Len(screen)
      <3>1. 0..(screen[i].to - 1) \subseteq Bytes(screen) \cup 0..(output.droppedBytes - 1)
        BY <2>1 DEF StreamInv, Reached
      <3> QED BY <3>1, <2>1, <1>5, <1>6
    <2>2. CASE i \notin 1..Len(screen)
      <3> DEFINE j == i - Len(screen)
      <3>1. j \in 1..Len(e) /\ i = Len(screen) + j /\ e # << >> /\ 1 \in 1..Len(e)
            /\ Len(e) \in 1..Len(e) /\ (j = Len(e) \/ j < Len(e))
        <4>1. Len(e) \in Nat /\ Len(screen) \in Nat /\ Len(screen') = Len(screen) + Len(e)
          BY <1>1, <1>3, <1>5
        <4>2. j \in 1..Len(e) /\ i = Len(screen) + j
          BY <4>1, <2>2
        <4> HIDE DEF j
        <4>3. 1 <= Len(e) /\ (j = Len(e) \/ j < Len(e))
          BY <4>1, <4>2
        <4>4. e # << >>
          BY <4>3
        <4> QED BY <4>1, <4>2, <4>3, <4>4
      <3> HIDE DEF j
      <3>2. screen'[i] = e[j]
        BY <3>1, <1>5
      <3>3. Contiguous(e) /\ Ordered(e) /\ Reached(e[1].from)
        BY <3>1, <1>3 DEF AnswerFits, e
      <3>4. /\ e[1] \in Slice /\ e[j] \in Slice /\ e[Len(e)] \in Slice
        BY <3>1, <1>3
      <3>5. /\ e[1].from \in Nat /\ e[j].to \in Nat /\ e[Len(e)].to \in Nat
            /\ e[Len(e)].from \in Nat /\ e[Len(e)].from < e[Len(e)].to
        BY <3>1, <3>3, <3>4 DEF Slice, Contiguous
      <3>6. e[j].to <= e[Len(e)].to
        BY <3>1, <3>3, <3>5 DEF Ordered
      <3>7. Bytes(e) = e[1].from .. (e[Len(e)].to - 1)
        BY <3>1, <3>3, <1>3, StretchBytes
      <3>8. 0..(e[1].from - 1) \subseteq Bytes(screen) \cup 0..(output.droppedBytes - 1)
        BY <3>3 DEF Reached
      <3>9. 0..(e[j].to - 1) \subseteq 0..(e[1].from - 1) \cup e[1].from .. (e[Len(e)].to - 1)
        BY <3>5, <3>6
      <3> QED BY <3>2, <3>7, <3>8, <3>9, <1>5, <1>6
    <2> QED BY <2>1, <2>2
  <1> QED BY <1>1, <1>3, <1>4, <1>7, <1>8, <1>9 DEF e


\* The answer to a poll that is not behind is not behind either.
LEMMA AnswerStaysAhead ==
    ASSUME TypeOK, RingInv, StreamInv, Answer("timer"), TimerIsBehind'
    PROVE  TimerIsBehind
  <1> DEFINE after == polls["timer"].after
             e == polls'["timer"].events
             next == polls'["timer"].next
  <1>1. /\ polls["timer"].stage = "asked" /\ cursor' = cursor /\ cursor \in Nat
        /\ polls \in [Pollers -> Poll] /\ "timer" \in Pollers /\ screen \in Seq(Slice)
    BY DEF Answer, TypeOK, Poll, Pollers
  <1>2. polls["timer"] \in Poll
    BY <1>1
  <1>3. after \in Nat /\ Place(after)
    BY <1>1, <1>2 DEF Poll, StreamInv
  <1>4. PICK lo \in 1..(Len(output.events) + 1) : \E hi \in (lo - 1)..Len(output.events) :
          /\ \A i \in 1..(lo - 1) : ~Unread(output.events[i], after)
          /\ lo <= Len(output.events) => Unread(output.events[lo], after)
          /\ polls' = [polls EXCEPT !["timer"] =
               [ stage  |-> "answered", state  |-> output'.state,
                 events |-> SubSeq(output.events, lo, hi),
                 next   |-> NextAfter(SubSeq(output.events, lo, hi), after) ]]
    BY DEF Answer
  <1>5. PICK hi \in (lo - 1)..Len(output.events) :
          /\ \A i \in 1..(lo - 1) : ~Unread(output.events[i], after)
          /\ lo <= Len(output.events) => Unread(output.events[lo], after)
          /\ polls' = [polls EXCEPT !["timer"] =
               [ stage  |-> "answered", state  |-> output'.state,
                 events |-> SubSeq(output.events, lo, hi),
                 next   |-> NextAfter(SubSeq(output.events, lo, hi), after) ]]
    BY <1>4
  <1> DEFINE r == [ stage |-> "answered", state |-> output'.state,
                    events |-> SubSeq(output.events, lo, hi),
                    next |-> NextAfter(SubSeq(output.events, lo, hi), after) ]
  <1>10. /\ r.stage = "answered" /\ r.events = SubSeq(output.events, lo, hi)
         /\ r.next = NextAfter(r.events, after) /\ polls' = [polls EXCEPT !["timer"] = r]
    BY <1>5
  <1> HIDE DEF r
  <1>11. polls'["timer"] = r
    BY <1>1, <1>10
  <1> HIDE DEF after
  <1>6. IF e = << >> THEN next = after ELSE e[1].sequence > after
    BY <1>1, <1>3, <1>5, <1>10, <1>11, AnswerGoesOn
  <1>7. IF e = << >> THEN next < cursor ELSE e[1].sequence <= cursor
    BY <1>1, <1>10, <1>11 DEF TimerIsBehind
  <1>8. e # << >> => e[1].sequence \in Nat
    <2> HAVE e # << >>
    <2>1. output.events \in Seq(Slice) /\ lo \in Nat /\ hi \in Nat
      BY DEF RingInv, RingType
    <2>2. e \in Seq(Slice)
      <3>1. e = SubSeq(output.events, lo, hi)
        BY <1>10, <1>11
      <3> HIDE DEF e
      <3> QED BY <2>1, <3>1
    <2> HIDE DEF e
    <2>3. e[1] \in Slice
      BY <2>2
    <2> QED BY <2>3 DEF Slice
  <1> HIDE DEF e, next
  <1>9. after < cursor
    BY <1>1, <1>3, <1>6, <1>7, <1>8
  <1> QED BY <1>1, <1>9 DEF TimerIsBehind, after

\* Every step keeps the places of the stream.
LEMMA NextStream ==
    ASSUME TypeOK, RingInv, StreamInv, [Next]_vars
    PROVE  StreamInv'
  <1>1. RingInv'
    BY NextRing
  <1>2. /\ polls \in [Pollers -> Poll] /\ screen \in Seq(Slice) /\ cursor \in Nat
        /\ output.state \in {"running", "exited", "closed"}
        /\ Exited(output.state) \in {"running", "exited", "closed"}
        /\ Stopped(output.state) \in {"running", "exited", "closed"}
        /\ output.nextSequence \in Nat /\ taken \in Nat /\ output.droppedBytes \in Nat
    BY DEF TypeOK, Poll, Exited, Stopped, RingInv, RingType
  <1>3. /\ Coherent(Known, output.nextSequence, taken)
        /\ \A p \in Pollers : polls[p].stage = "asked" => Place(polls[p].after)
        /\ \A p \in Pollers : polls[p].stage = "answered" => AnswerFits(polls[p])
        /\ polls["mount"] # Idle => ~TimerIsBehind
    BY DEF StreamInv
  <1>4. CASE ReadLocal \/ PumpOutput
    <2>1. /\ Coherent(Known', output'.nextSequence, taken')
          /\ output.droppedBytes <= output'.droppedBytes
          /\ UNCHANGED <<cursor, screen, polls>>
      BY <1>3, <1>4, ReadContinues
    <2>2. TimerIsBehind' <=> TimerIsBehind
      BY <2>1 DEF TimerIsBehind
    <2> QED BY <1>1, <1>3, <2>1, <2>2, StreamKept
  <1>5. ASSUME UNCHANGED <<taken, cursor, screen>>,
               \/ output' = output
               \/ \E st \in {"running", "exited", "closed"} :
                     output' = [output EXCEPT !.state = st],
               Carried' \subseteq Known,
               \A p \in Pollers : polls'[p].stage = "asked" => Place(polls'[p].after),
               \A p \in Pollers : polls'[p].stage = "answered" => AnswerFits(polls'[p]),
               polls'["mount"] # Idle => ~TimerIsBehind'
        PROVE  StreamInv'
    <2>1. /\ output'.events = output.events /\ output'.droppedBytes = output.droppedBytes
          /\ output'.nextSequence = output.nextSequence
      BY <1>5 DEF RingInv, RingType
    <2>2. Known' \subseteq Known
      <3>1. Has(output'.events) = Has(output.events) /\ Has(screen') = Has(screen)
        BY <1>5, <2>1 DEF Has
      <3> QED BY <1>5, <3>1 DEF Known, Has
    <2>3. Coherent(Known', output'.nextSequence, taken')
      BY <1>2, <1>3, <1>5, <2>1, <2>2, CoherentLess
    <2> QED BY <1>1, <1>2, <1>5, <2>1, <2>3, StreamKept
  <1>6. CASE \/ Produce \/ Exit \/ EndOfPty \/ EndOfChannel \/ PumpWriteFails \/ Close
             \/ CloseTab \/ UNCHANGED vars
    <2>1. UNCHANGED <<taken, cursor, screen, polls>>
      BY <1>6 DEF Produce, Exit, EndOfPty, EndOfChannel, PumpWriteFails, Close, CloseTab,
                  vars, runtimeVars, tabVars
    <2>2. \/ output' = output
          \/ \E st \in {"running", "exited", "closed"} : output' = [output EXCEPT !.state = st]
      BY <1>2, <1>6 DEF Produce, Exit, EndOfPty, EndOfChannel, PumpWriteFails, Close, CloseTab,
                  vars, runtimeVars, MarkExited
    <2>3. Carried' = Carried /\ (TimerIsBehind' <=> TimerIsBehind)
      BY <2>1 DEF Carried, Has, TimerIsBehind
    <2> QED BY <1>3, <1>5, <2>1, <2>2, <2>3 DEF Known
  <1>7. CASE Ask
    <2> DEFINE r == [stage |-> "asked", after |-> cursor]
    <2>1. /\ UNCHANGED <<output, taken, cursor, screen>>
          /\ polls' = [polls EXCEPT !["timer"] = r] /\ "timer" \in Pollers
      BY <1>7 DEF Ask, runtimeVars, Pollers
    <2>2. r.stage = "asked" /\ r.after = cursor
      OBVIOUS
    <2> HIDE DEF r
    <2>3. \A p \in Pollers : polls'[p] = IF p = "timer" THEN r ELSE polls[p]
      BY <1>2, <2>1
    <2>4. Carried' \subseteq Carried \cup {}
      BY <1>2, <2>1, <2>2, CarriedLess
    <2>5. ~TimerIsBehind'
      BY <1>2, <2>1, <2>2, <2>3 DEF TimerIsBehind
    <2>6. Place(cursor)
      BY DEF StreamInv
    <2> QED BY <1>3, <1>5, <2>1, <2>2, <2>3, <2>4, <2>5, <2>6 DEF Known
  <1>8. ASSUME NEW p \in Pollers, PollFails(p)
        PROVE  StreamInv'
    <2>1. /\ polls' = [polls EXCEPT ![p] = Idle] /\ UNCHANGED <<output, taken, cursor, screen>>
      BY <1>8 DEF PollFails, runtimeVars
    <2>2. \A q \in Pollers : polls'[q] = IF q = p THEN Idle ELSE polls[q]
      BY <1>2, <2>1
    <2>3. Carried' \subseteq Carried \cup {}
      BY <1>2, <2>1, IdleStage, CarriedLess
    <2>4. polls'["mount"] # Idle => ~TimerIsBehind'
      BY <1>3, <2>1, <2>2, IdleStage DEF TimerIsBehind, Pollers
    <2> QED BY <1>3, <1>5, <2>1, <2>2, <2>3, <2>4, IdleStage DEF Known
  <1>9. ASSUME NEW p \in Pollers, Show(p)
        PROVE  StreamInv'
    <2> DEFINE e == polls[p].events
    <2>1. /\ e \in Seq(Slice) /\ screen' = screen \o e
          /\ UNCHANGED <<output, taken>> /\ polls' = [polls EXCEPT ![p] = Idle]
          /\ Place(cursor)' /\ \A i \in 1..Len(screen') : Reached(screen[i].to)'
          /\ Has(e) \subseteq Known /\ \A offset : Reached(offset) => Reached(offset)'
      BY <1>9, ShowFits
    <2> HIDE DEF e
    <2>2. \A q \in Pollers : polls'[q] = IF q = p THEN Idle ELSE polls[q]
      BY <1>2, <2>1
    <2>3. /\ Has(screen') = Has(screen) \cup Has(e)
          /\ \A number : Place(number) => Place(number)'
      BY <1>2, <2>1, Grows
    <2>4. Carried' \subseteq Carried \cup {}
      BY <1>2, <2>1, IdleStage, CarriedLess
    <2>5. Known' \subseteq Known
      <3>1. Has(output'.events) = Has(output.events)
        BY <2>1 DEF Has
      <3> QED BY <2>1, <2>3, <2>4, <3>1 DEF Known, Has
    <2>6. Coherent(Known', output'.nextSequence, taken')
      BY <1>2, <1>3, <2>1, <2>5, CoherentLess
    <2>7. \A q \in Pollers : polls'[q].stage = "asked" => Place(polls[q].after)'
      BY <1>3, <2>2, <2>3, IdleStage DEF Place
    <2>8. \A q \in Pollers : polls'[q].stage = "answered" => AnswerFits(polls[q])'
      <3> SUFFICES ASSUME NEW q \in Pollers, polls'[q].stage = "answered"
                   PROVE  AnswerFits(polls[q])'
        OBVIOUS
      <3>1. polls'[q] = polls[q] /\ AnswerFits(polls[q])
        BY <1>3, <2>2, IdleStage
      <3> DEFINE a == polls[q]
      <3>2. a.events = << >> => Place(a.next)'
        BY <2>3, <3>1 DEF AnswerFits
      <3>3. a.events # << >> => Reached(a.events[1].from)'
        BY <2>1, <3>1 DEF AnswerFits
      <3> QED BY <3>1, <3>2, <3>3 DEF AnswerFits, Place, Reached, Bytes, Contiguous, Ordered
    <2>9. polls'["mount"] # Idle => ~TimerIsBehind'
      <3>1. CASE p = "timer"
        BY <2>2, <3>1, IdleStage DEF TimerIsBehind, Pollers
      <3>2. CASE p = "mount"
        BY <2>2, <3>2 DEF Pollers
      <3> QED BY <3>1, <3>2 DEF Pollers
    <2> QED BY <2>1, <2>6, <2>7, <2>8, <2>9 DEF StreamInv
  <1>10. ASSUME NEW p \in Pollers, Answer(p)
         PROVE  StreamInv'
    <2> DEFINE after == polls[p].after
    <2>1. /\ polls[p].stage = "asked" /\ UNCHANGED <<taken, cursor, screen>>
          /\ output' = Snapshot(output) /\ polls[p] \in Poll
      BY <1>2, <1>10 DEF Answer
    <2>2. after \in Nat /\ Place(after)
      BY <1>3, <2>1 DEF Poll
    <2>3. PICK lo \in 1..(Len(output.events) + 1) : \E hi \in (lo - 1)..Len(output.events) :
            /\ \A i \in 1..(lo - 1) : ~Unread(output.events[i], after)
            /\ lo <= Len(output.events) => Unread(output.events[lo], after)
            /\ polls' = [polls EXCEPT ![p] =
                 [ stage  |-> "answered", state  |-> output'.state,
                   events |-> SubSeq(output.events, lo, hi),
                   next   |-> NextAfter(SubSeq(output.events, lo, hi), after) ]]
      BY <1>10 DEF Answer
    <2>4. PICK hi \in (lo - 1)..Len(output.events) :
            /\ \A i \in 1..(lo - 1) : ~Unread(output.events[i], after)
            /\ lo <= Len(output.events) => Unread(output.events[lo], after)
            /\ polls' = [polls EXCEPT ![p] =
                 [ stage  |-> "answered", state  |-> output'.state,
                   events |-> SubSeq(output.events, lo, hi),
                   next   |-> NextAfter(SubSeq(output.events, lo, hi), after) ]]
      BY <2>3
    <2> DEFINE r == [ stage |-> "answered", state |-> output'.state,
                      events |-> SubSeq(output.events, lo, hi),
                      next |-> NextAfter(SubSeq(output.events, lo, hi), after) ]
    <2>5. /\ r.stage = "answered" /\ r.events = SubSeq(output.events, lo, hi)
          /\ r.next = NextAfter(r.events, after) /\ polls' = [polls EXCEPT ![p] = r]
      BY <2>4
    <2> HIDE DEF r, after
    <2>6. /\ AnswerFits(r) /\ Has(r.events) \subseteq Has(output.events)
          /\ IF r.events = << >> THEN r.next = after ELSE r.events[1].sequence > after
      BY <1>2, <2>2, <2>4, <2>5, AnswerGoesOn
    <2>7. \A q \in Pollers : polls'[q] = IF q = p THEN r ELSE polls[q]
      BY <1>2, <2>5
    <2>8. Carried' \subseteq Carried \cup Has(output.events)
      BY <1>2, <2>5, <2>6, CarriedLess
    <2>9. \/ output' = output
          \/ \E st \in {"running", "exited", "closed"} : output' = [output EXCEPT !.state = st]
      BY <1>2, <2>1 DEF Snapshot, MarkExited
    <2>10. polls'["mount"] # Idle => ~TimerIsBehind'
      <3>1. CASE p = "timer"
        <4>1. polls'["mount"] = polls["mount"]
          BY <2>7, <3>1 DEF Pollers
        <4> QED BY <1>3, <1>10, <3>1, <4>1, AnswerStaysAhead
      <3>2. CASE p = "mount"
        <4>1. polls["mount"] # Idle /\ polls'["timer"] = polls["timer"]
          BY <2>1, <2>7, <3>2, IdleStage DEF Pollers
        <4> QED BY <1>3, <2>1, <4>1 DEF TimerIsBehind
      <3> QED BY <3>1, <3>2 DEF Pollers
    <2>11. \A q \in Pollers : polls'[q].stage = "asked" => Place(polls'[q].after)
      BY <1>3, <2>5, <2>7
    <2>12. \A q \in Pollers : polls'[q].stage = "answered" => AnswerFits(polls'[q])
      BY <1>3, <2>6, <2>7
    <2> QED BY <1>5, <2>1, <2>8, <2>9, <2>10, <2>11, <2>12 DEF Known
  <1> QED BY <1>4, <1>6, <1>7, <1>8, <1>9, <1>10 DEF Next, Read


\* Among coherent slices the one with a number is that of the number.
LEMMA OffsetIn ==
    ASSUME NEW s \in Seq(Slice), NEW K, NEW next, NEW n, Coherent(K, next, n), Has(s) \subseteq K,
           NEW i \in 1..Len(s)
    PROVE  /\ s[i] \in K /\ s[i].to <= n
           /\ s[i].sequence \in Nat /\ s[i].sequence # 0 /\ s[i].to \in Nat
           /\ s[CHOOSE k \in 1..Len(s) : s[k].sequence = s[i].sequence].to = s[i].to
  <1>1. s[i] \in K /\ s[i] \in Slice
    BY DEF Has
  <1>2. /\ s[i].sequence \in Nat /\ 1 <= s[i].sequence /\ s[i].to \in Nat /\ s[i].to <= n
    BY <1>1 DEF Slice, Coherent
  <1> DEFINE number == s[i].sequence
             j == CHOOSE k \in 1..Len(s) : s[k].sequence = number
  <1>3. j \in 1..Len(s) /\ s[j].sequence = number
    <2>1. \E k \in 1..Len(s) : s[k].sequence = number
      OBVIOUS
    <2> QED BY <2>1, Zenon
  <1> HIDE DEF j
  <1>4. s[j] \in K
    BY <1>3 DEF Has
  <1>5. s[j] = s[i]
    BY <1>1, <1>3, <1>4 DEF Coherent
  <1> QED BY <1>1, <1>2, <1>5 DEF j

\* The event of a cursor is the one with its number, wherever on the screen it is.
LEMMA OffsetFacts ==
    ASSUME screen \in Seq(Slice), StreamInv, taken \in Nat
    PROVE  /\ OffsetOf(0) = 0
           /\ \A i \in 1..Len(screen) :
                 /\ screen[i] \in Known
                 /\ screen[i].sequence \in Nat \ {0} /\ screen[i].to \in Nat
                 /\ OffsetOf(screen[i].sequence) = screen[i].to
           /\ \A number : Place(number) => /\ OffsetOf(number) \in 0..taken
                                           /\ Reached(OffsetOf(number))
  <1>1. OffsetOf(0) = 0
    BY DEF OffsetOf
  <1>2. ASSUME NEW i \in 1..Len(screen)
        PROVE  /\ screen[i] \in Known /\ screen[i].to <= taken
               /\ screen[i].sequence \in Nat \ {0} /\ screen[i].to \in Nat
               /\ OffsetOf(screen[i].sequence) = screen[i].to
    <2>1. Has(screen) \subseteq Known
      BY DEF Known
    <2>2. /\ screen[i] \in Known /\ screen[i].to <= taken
          /\ screen[i].sequence \in Nat /\ screen[i].sequence # 0 /\ screen[i].to \in Nat
          /\ screen[CHOOSE k \in 1..Len(screen) : screen[k].sequence = screen[i].sequence].to
               = screen[i].to
      BY <2>1, OffsetIn DEF StreamInv
    <2> QED BY <2>2 DEF OffsetOf
  <1>3. ASSUME NEW number, Place(number)
        PROVE  OffsetOf(number) \in 0..taken /\ Reached(OffsetOf(number))
    <2>1. CASE number = 0
      BY <2>1, <1>1 DEF Reached
    <2>2. CASE number # 0
      <3>1. PICK i \in 1..Len(screen) : screen[i].sequence = number
        BY <1>3, <2>2 DEF Place
      <3>2. OffsetOf(number) = screen[i].to /\ screen[i].to \in Nat /\ screen[i].to <= taken
        BY <1>2, <3>1
      <3>3. Reached(screen[i].to)
        BY DEF StreamInv
      <3> QED BY <3>2, <3>3
    <2> QED BY <2>1, <2>2
  <1> QED BY <1>1, <1>2, <1>3

\* The setbacks that the polls under way may still bring.
Setbacks == IF polls["mount"] # Idle THEN 2 ELSE IF TimerIsBehind THEN 1 ELSE 0

\* A step that shows nothing and reads nothing brings no setback: none is added.
LEMMA Settles ==
    ASSUME UNCHANGED <<taken, screen, cursor>>, output'.droppedBytes = output.droppedBytes,
           Setbacks' \in 0..Setbacks
    PROVE  [Stream!Next]_(Stream!vars)
  <1>1. OffsetOf(cursor)' = OffsetOf(cursor) /\ Setbacks \in Nat
    BY DEF OffsetOf, Setbacks
  <1>2. CASE Setbacks' = Setbacks
    BY <1>1, <1>2 DEF Stream!vars, Setbacks
  <1>3. CASE Setbacks' # Setbacks
    <2>1. Setbacks' \in 0..(Setbacks - 1)
      BY <1>1, <1>3
    <2>2. Stream!Settle
      BY <1>1, <2>1 DEF Stream!Settle, Setbacks
    <2> QED BY <2>2 DEF Stream!Next
  <1> QED BY <1>2, <1>3

\* What is shown starts at a place, or goes back from the cursor only on an answer that
\* overlapped another (pollOutput).
LEMMA ShowDelivers ==
    ASSUME TypeOK, RingInv, RingInv', StreamInv, StreamInv', NEW p \in Pollers, Show(p)
    PROVE  Stream!Deliver
  <1> DEFINE e == polls[p].events
             next == polls[p].next
             from == IF e = << >> THEN OffsetOf(next) ELSE e[1].from
             to == IF e = << >> THEN OffsetOf(next) ELSE e[Len(e)].to
  <1>1. /\ e \in Seq(Slice) /\ AnswerFits(polls[p]) /\ screen \in Seq(Slice)
        /\ screen' = screen \o e /\ UNCHANGED <<output, taken>> /\ cursor' = next
        /\ polls' = [polls EXCEPT ![p] = Idle] /\ Has(e) \subseteq Known
        /\ polls \in [Pollers -> Poll] /\ taken \in Nat /\ cursor \in Nat
        /\ polls[p].stage = "answered" /\ polls[p] \in Poll
    <2>1. polls \in [Pollers -> Poll] /\ taken \in Nat /\ cursor \in Nat
          /\ polls[p].stage = "answered"
      BY DEF TypeOK, Poll, Show
    <2> QED BY <2>1, ShowFits
  <1>2. next \in Nat
    BY <1>1 DEF Poll
  <1>3. screen' \in Seq(Slice) /\ Bytes(screen') = Bytes(screen) \cup Bytes(e)
        /\ \A i \in 1..Len(e) : /\ screen'[Len(screen) + i] = e[i]
                                /\ Len(screen) + i \in 1..Len(screen')
    BY <1>1, Grows
  <1>4. /\ from \in 0..taken /\ to \in from..taken
        /\ Reached(from) /\ Bytes(e) = from..(to - 1) /\ OffsetOf(cursor)' = to
    <2>1. CASE e = << >>
      <3>1. Place(next)
        BY <1>1, <2>1 DEF AnswerFits
      <3>2. OffsetOf(next) \in 0..taken /\ Reached(OffsetOf(next))
        BY <1>1, <3>1, OffsetFacts
      <3>3. screen' = screen
        BY <1>1, <2>1
      <3>4. OffsetOf(cursor)' = OffsetOf(next)
        BY <1>1, <3>3 DEF OffsetOf
      <3>5. Bytes(e) = {}
        BY <2>1 DEF Bytes
      <3> DEFINE o == OffsetOf(next)
      <3>6. o \in 0..taken /\ o..(o - 1) = {}
        BY <3>2
      <3>7. from = o /\ to = o
        BY <2>1
      <3> HIDE DEF e, next, from, to, o
      <3>8. o \in o..taken
        BY <1>1, <3>6
      <3> QED BY <3>2, <3>4, <3>5, <3>6, <3>7, <3>8 DEF o
    <2>2. CASE e # << >>
      <3>1. /\ Contiguous(e) /\ Ordered(e) /\ Reached(e[1].from) /\ next = e[Len(e)].sequence
        BY <1>1, <2>2 DEF AnswerFits
      <3>2. /\ 1 \in 1..Len(e) /\ Len(e) \in 1..Len(e) /\ (Len(e) = 1 \/ 1 < Len(e))
            /\ e[1] \in Slice /\ e[Len(e)] \in Slice
        <4> HIDE DEF e
        <4>1. Len(e) \in Nat /\ Len(e) # 0
          BY <1>1, <2>2
        <4>2. 1 \in 1..Len(e) /\ Len(e) \in 1..Len(e) /\ (Len(e) = 1 \/ 1 < Len(e))
          BY <4>1
        <4> QED BY <1>1, <4>2
      <3>3. /\ e[1].from \in Nat /\ e[1].to \in Nat /\ e[Len(e)].from \in Nat
            /\ e[Len(e)].to \in Nat /\ e[1].from < e[1].to /\ e[Len(e)].from < e[Len(e)].to
            /\ 1 < Len(e) => e[1].to <= e[Len(e)].from
        BY <3>1, <3>2 DEF Slice, Contiguous, Ordered
      <3>4. e[1].from <= e[Len(e)].to
        BY <3>2, <3>3
      <3>5. e[Len(e)].to <= taken
        <4>1. e[Len(e)] \in Known
          BY <1>1, <3>2 DEF Has
        <4> QED BY <4>1 DEF StreamInv, Coherent
      <3>6. Bytes(e) = e[1].from..(e[Len(e)].to - 1)
        BY <1>1, <2>2, <3>1, StretchBytes
      <3>7. OffsetOf(cursor)' = e[Len(e)].to
        <4> DEFINE i == Len(screen) + Len(e)
        <4>1. i \in 1..Len(screen') /\ screen'[i] = e[Len(e)]
          BY <1>3, <3>2
        <4> HIDE DEF i
        <4>2. screen' \in Seq(Slice) /\ Has(screen') \subseteq Known'
          BY <1>3 DEF Known, Has
        <4>3. /\ screen'[i].sequence # 0
              /\ screen'[CHOOSE k \in 1..Len(screen') : screen'[k].sequence = screen'[i].sequence].to
                   = screen'[i].to
          BY <4>1, <4>2, OffsetIn DEF StreamInv
        <4>4. cursor' = screen'[i].sequence
          BY <1>1, <3>1, <4>1
        <4> QED BY <4>1, <4>3, <4>4 DEF OffsetOf
      <3> DEFINE f == e[1].from
                 g == e[Len(e)].to
      <3>8. from = f /\ to = g
        BY <2>2
      <3>9. f \in Nat /\ g \in Nat /\ f <= g /\ g <= taken
        BY <3>3, <3>4, <3>5
      <3> HIDE DEF e, next, from, to, f, g
      <3>10. f \in 0..taken /\ g \in f..taken
        BY <1>1, <3>9
      <3> QED BY <3>1, <3>6, <3>7, <3>8, <3>10 DEF f, g
    <2> QED BY <2>1, <2>2
  <1>5. Setbacks' \in 0..Setbacks /\ (from < OffsetOf(cursor) => Setbacks' < Setbacks)
    <2>1. \A q \in Pollers : polls'[q] = IF q = p THEN Idle ELSE polls[q]
      BY <1>1
    <2>2. polls[p] # Idle
      BY <1>1, IdleStage
    <2>3. CASE p = "mount"
      <3>1. Setbacks = 2 /\ Setbacks' \in {0, 1}
        BY <2>1, <2>2, <2>3 DEF Setbacks, Pollers
      <3> QED BY <3>1
    <2>4. CASE p = "timer"
      <3>1. /\ polls'["mount"] = polls["mount"] /\ polls'["timer"] = Idle
        BY <2>1, <2>4 DEF Pollers
      <3>2. ~TimerIsBehind'
        BY <3>1, IdleStage DEF TimerIsBehind
      <3>3. CASE TimerIsBehind
        <4>1. polls["mount"] = Idle
          BY <3>3 DEF StreamInv
        <4>2. Setbacks = 1 /\ Setbacks' = 0
          BY <3>1, <3>2, <3>3, <4>1 DEF Setbacks
        <4> QED BY <4>2
      <3>4. CASE ~TimerIsBehind
        <4>1. Setbacks' = Setbacks /\ Setbacks \in Nat
          BY <3>1, <3>2, <3>4 DEF Setbacks
        <4>2. IF e = << >> THEN ~(next < cursor) ELSE ~(e[1].sequence <= cursor)
          BY <1>1, <2>4, <3>4 DEF TimerIsBehind
        <4>3. Place(cursor)
          BY DEF StreamInv
        <4>4. OffsetOf(cursor) \in 0..taken
          BY <1>1, <4>3, OffsetFacts
        <4>5. ~(from < OffsetOf(cursor))
          <5>1. CASE cursor = 0
            <6>1. OffsetOf(cursor) = 0
              BY <5>1 DEF OffsetOf
            <6> HIDE DEF from
            <6> QED BY <1>4, <6>1
          <5>2. CASE cursor # 0
            <6>1. PICK i \in 1..Len(screen) : screen[i].sequence = cursor
              BY <4>3, <5>2 DEF Place
            <6>2. /\ screen[i] \in Known /\ screen[i].to \in Nat
                  /\ OffsetOf(cursor) = screen[i].to
              BY <1>1, <6>1, OffsetFacts
            <6>3. CASE e # << >>
              <7>1. e[1] \in Known /\ e[1] \in Slice
                <8>1. 1 \in 1..Len(e)
                  BY <1>1, <6>3
                <8> QED BY <1>1, <8>1 DEF Has
              <7>2. e[1].sequence \in Nat /\ e[1].from \in Nat
                BY <7>1 DEF Slice
              <7>3. screen[i].sequence < e[1].sequence
                BY <1>1, <4>2, <6>1, <6>3, <7>2
              <7>4. screen[i].to <= e[1].from
                BY <6>2, <7>1, <7>3 DEF StreamInv, Coherent
              <7> QED BY <6>2, <6>3, <7>2, <7>4
            <6>4. CASE e = << >>
              <7>1. ~(next < cursor) /\ Place(next) /\ next # 0
                BY <1>1, <1>2, <4>2, <5>2, <6>4 DEF AnswerFits
              <7>2. PICK j \in 1..Len(screen) : screen[j].sequence = next
                BY <7>1 DEF Place
              <7>3. /\ screen[j] \in Known /\ screen[j].to \in Nat
                    /\ OffsetOf(next) = screen[j].to
                BY <1>1, <7>2, OffsetFacts
              <7>4. screen[j] \in Slice /\ screen[j].from < screen[j].to
                BY <7>3 DEF StreamInv, Coherent
              <7>5. screen[j].from \in Nat
                BY <7>4 DEF Slice
              <7>6. cursor = next \/ screen[i].sequence < screen[j].sequence
                BY <1>1, <1>2, <6>1, <7>1, <7>2
              <7>7. CASE cursor = next
                BY <6>4, <4>4, <7>7, <7>3
              <7>8. CASE screen[i].sequence < screen[j].sequence
                <8>1. screen[i].to <= screen[j].from
                  BY <6>2, <7>3, <7>8 DEF StreamInv, Coherent
                <8>2. from = screen[j].to
                  BY <6>4, <7>3
                <8> HIDE DEF from
                <8> QED BY <8>1, <8>2, <6>2, <7>3, <7>4, <7>5
              <7> QED BY <7>6, <7>7, <7>8
            <6> QED BY <6>3, <6>4
          <5> QED BY <5>1, <5>2
        <4> HIDE DEF from
        <4> QED BY <4>1, <4>5
      <3> QED BY <3>3, <3>4
    <2> QED BY <2>3, <2>4 DEF Pollers
  <1>6. 0..(from - 1) \subseteq Bytes(screen) \cup 0..(output.droppedBytes - 1)
    BY <1>4 DEF Reached
  <1>7. Bytes(screen') = Bytes(screen) \cup from..(to - 1)
    BY <1>3, <1>4
  <1> HIDE DEF from, to, e, next
  <1> QED BY <1>1, <1>4, <1>5, <1>6, <1>7 DEF Stream!Deliver, Bytes, Setbacks

\* Every step is a step of ByteStream or leaves its variables alone.
LEMMA StreamStep ==
    ASSUME TypeOK, RingInv, RingInv', StreamInv, StreamInv', [Next]_vars
    PROVE  [Stream!Next]_(Stream!vars)
  <1>1. /\ taken \in Nat /\ taken' \in Nat /\ output.droppedBytes \in Nat
        /\ output'.droppedBytes \in Nat /\ output'.bufferedBytes \in Nat
        /\ output'.droppedBytes + output'.bufferedBytes = taken'
        /\ screen \in Seq(Slice) /\ polls \in [Pollers -> Poll] /\ cursor \in Nat
        /\ Setbacks \in 0..Setbacks
    BY DEF RingInv, RingType, RingAccounts, TypeOK, Poll, Setbacks
  <1>2. CASE ReadLocal \/ PumpOutput
    <2>1. /\ UNCHANGED <<cursor, screen, polls>> /\ taken < taken'
          /\ output.droppedBytes <= output'.droppedBytes
      BY <1>2, ReadContinues DEF StreamInv
    <2>2. output'.droppedBytes <= taken'
      BY <1>1
    <2>3. OffsetOf(cursor)' = OffsetOf(cursor) /\ Setbacks' = Setbacks
      BY <2>1 DEF OffsetOf, Setbacks, TimerIsBehind
    <2>4. Stream!Accept
      BY <1>1, <2>1, <2>2, <2>3 DEF Stream!Accept, Setbacks
    <2> QED BY <2>4 DEF Stream!Next
  <1>3. CASE \/ Produce \/ Exit \/ PumpWriteFails \/ EndOfPty \/ EndOfChannel \/ Close
             \/ CloseTab \/ UNCHANGED vars
    <2>1. UNCHANGED <<taken, cursor, screen, polls>>
      BY <1>3 DEF Produce, Exit, EndOfPty, EndOfChannel, PumpWriteFails, Close, CloseTab,
                  vars, runtimeVars, tabVars
    <2>2. output'.droppedBytes = output.droppedBytes
      BY <1>3 DEF Produce, Exit, EndOfPty, EndOfChannel, PumpWriteFails, Close, CloseTab,
                  vars, runtimeVars, MarkExited, RingInv, RingType
    <2>3. Setbacks' = Setbacks
      BY <2>1 DEF Setbacks, TimerIsBehind
    <2> QED BY <1>1, <2>1, <2>2, <2>3, Settles
  <1>4. CASE Ask
    <2>1. /\ UNCHANGED <<output, taken, cursor, screen>> /\ polls["timer"] = Idle
          /\ polls'["timer"] = [stage |-> "asked", after |-> cursor]
          /\ polls'["mount"] = polls["mount"]
      BY <1>1, <1>4 DEF Ask, runtimeVars, Pollers
    <2>2. ~TimerIsBehind /\ ~TimerIsBehind'
      BY <1>1, <2>1, IdleStage DEF TimerIsBehind
    <2>3. Setbacks' = Setbacks
      BY <2>1, <2>2 DEF Setbacks
    <2> QED BY <1>1, <2>1, <2>3, Settles
  <1>5. ASSUME NEW p \in Pollers, PollFails(p)
        PROVE  [Stream!Next]_(Stream!vars)
    <2>1. /\ polls' = [polls EXCEPT ![p] = Idle] /\ UNCHANGED <<output, taken, cursor, screen>>
      BY <1>5 DEF PollFails, runtimeVars
    <2>2. \A q \in Pollers : polls'[q] = IF q = p THEN Idle ELSE polls[q]
      BY <1>1, <2>1
    <2>3. TimerIsBehind' => TimerIsBehind
      BY <2>1, <2>2, IdleStage DEF TimerIsBehind, Pollers
    <2>4. polls'["mount"] # Idle => polls["mount"] # Idle
      BY <2>2 DEF Pollers
    <2>5. Setbacks' \in 0..Setbacks
      BY <2>3, <2>4 DEF Setbacks
    <2> QED BY <2>1, <2>5, Settles
  <1>6. ASSUME NEW p \in Pollers, Answer(p)
        PROVE  [Stream!Next]_(Stream!vars)
    <2>1. /\ UNCHANGED <<taken, cursor, screen>> /\ output'.droppedBytes = output.droppedBytes
          /\ polls[p].stage = "asked"
      BY <1>6 DEF Answer, Snapshot, MarkExited, RingInv, RingType
    <2>2. PICK r : polls' = [polls EXCEPT ![p] = r] /\ r.stage = "answered"
      <3>1. PICK lo \in 1..(Len(output.events) + 1) : \E hi \in (lo - 1)..Len(output.events) :
              polls' = [polls EXCEPT ![p] =
                [ stage |-> "answered", state |-> output'.state,
                  events |-> SubSeq(output.events, lo, hi),
                  next |-> NextAfter(SubSeq(output.events, lo, hi), polls[p].after) ]]
        BY <1>6 DEF Answer
      <3>2. PICK hi \in (lo - 1)..Len(output.events) :
              polls' = [polls EXCEPT ![p] =
                [ stage |-> "answered", state |-> output'.state,
                  events |-> SubSeq(output.events, lo, hi),
                  next |-> NextAfter(SubSeq(output.events, lo, hi), polls[p].after) ]]
        BY <3>1
      <3> DEFINE a == [ stage |-> "answered", state |-> output'.state,
                        events |-> SubSeq(output.events, lo, hi),
                        next |-> NextAfter(SubSeq(output.events, lo, hi), polls[p].after) ]
      <3>3. polls' = [polls EXCEPT ![p] = a] /\ a.stage = "answered"
        BY <3>2
      <3> HIDE DEF a
      <3> QED BY <3>3
    <2>3. \A q \in Pollers : polls'[q] = IF q = p THEN r ELSE polls[q]
      BY <1>1, <2>2
    <2>4. (polls'["mount"] # Idle) <=> (polls["mount"] # Idle)
      BY <2>1, <2>2, <2>3, IdleStage DEF Pollers
    <2>5. CASE polls["mount"] # Idle
      <3>1. Setbacks' = 2 /\ Setbacks = 2
        BY <2>4, <2>5 DEF Setbacks
      <3> QED BY <2>1, <3>1, Settles
    <2>6. CASE polls["mount"] = Idle
      <3>1. p = "timer"
        BY <2>1, <2>6, IdleStage DEF Pollers
      <3>2. TimerIsBehind' => TimerIsBehind
        BY <1>6, <3>1, AnswerStaysAhead
      <3>3. Setbacks' \in 0..Setbacks
        BY <2>4, <2>6, <3>2 DEF Setbacks
      <3> QED BY <2>1, <3>3, Settles
    <2> QED BY <2>5, <2>6
  <1>7. ASSUME NEW p \in Pollers, Show(p)
        PROVE  [Stream!Next]_(Stream!vars)
    <2>1. Stream!Deliver
      BY <1>7, ShowDelivers
    <2> QED BY <2>1 DEF Stream!Next
  <1> QED BY <1>2, <1>3, <1>4, <1>5, <1>6, <1>7 DEF Next, Read

\* The tab shows the output in order, and skips only what it has shown or the ring has
\* dropped; only the poll of mountTerminal and the poll of the timer that overlaps it set
\* its cursor back.
THEOREM TabImplementsStream == Spec => StreamSpec
  <1>1. Init => Stream!Init
    <2> SUFFICES ASSUME Init PROVE Stream!Init
      OBVIOUS
    <2>1. /\ screen = << >> /\ taken = 0 /\ output.droppedBytes = 0 /\ cursor = 0
          /\ polls["mount"].stage = "asked"
      BY DEF Init, NewOutput, Pollers
    <2>2. OffsetOf(cursor) = 0 /\ Bytes(screen) = {} /\ Setbacks = 2
      BY <2>1, IdleStage DEF OffsetOf, Bytes, Setbacks
    <2> QED BY <2>1, <2>2 DEF Stream!Init, Bytes, Setbacks
  <1>2. /\ StreamInv /\ StreamInv' /\ RingInv /\ RingInv' /\ TypeOK /\ [Next]_vars
           => [Stream!Next]_(Stream!vars)
    BY StreamStep
  <1>3. StreamInv /\ RingInv /\ TypeOK /\ [Next]_vars => StreamInv'
    BY NextStream
  <1>4. RingInv /\ [Next]_vars => RingInv'
    BY NextRing
  <1>5. Spec => []TypeOK
    BY TypeCorrect
  <1> QED BY <1>1, <1>2, <1>3, <1>4, <1>5, InitRing, InitStream, PTL DEF Spec, StreamSpec, Stream!Spec

=============================================================================
