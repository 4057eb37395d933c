-------------------------- MODULE UartStreamProofs --------------------------
(***************************************************************************)
(* Proofs about the bytes of a UART on their way to a client, for every    *)
(* size of ring, chunk and buffer and every number of bytes, faults and    *)
(* lives of the board: what the client reads is in the order of the line,  *)
(* and what it misses of the first life is counted.                        *)
(*                                                                         *)
(* The way of a byte is a pipeline: the ring, the chunk of the object, the *)
(* last fragments on the bus, the buffer of the daemon, the client.  All   *)
(* bytes of a later stage are older than those of an earlier one, and the  *)
(* bus keeps the order of its frames, so whatever a step moves stays in    *)
(* order and what it drops does not matter.                                *)
(*                                                                         *)
(* The account of the first life: a byte was refused by the ring, is in    *)
(* the ring or in the chunk, or was sent in one numbered event, and the    *)
(* bus brings those events in the order of their numbers.                  *)
(***************************************************************************)
EXTENDS UartStream, FiniteSetTheorems, TLAPS

(* Frames on their way to the daemon and to the board.                     *)
EventPackets == [kind : {"event"}, sequence : Nat, bytes : Seq(Nat)]
AnswerPackets == [kind : {"created"}, request : Nat]
RequestPackets == [kind : {"create"}, request : Nat]
FramesOf(packets) == {Frame(p, t, n) : p \in packets, t \in Nat, n \in {0, 1}}
UpFrames == FramesOf(EventPackets \cup AnswerPackets)
DownFrames == FramesOf(RequestPackets)

(* The last fragment of an event shows all of it: it is the one that       *)
(* brings bytes to the daemon.                                             *)
Brings(f) == f.sequence = 1 /\ f.piece.kind = "event"
Chunk(f) == f.piece.bytes

LEMMA ChunkType ==
    ASSUME NEW f \in UpFrames, Brings(f)
    PROVE  f.piece \in EventPackets /\ Chunk(f) \in Seq(Nat) /\ f.piece.sequence \in Nat
<1>1. PICK p \in EventPackets \cup AnswerPackets, t \in Nat, n \in {0, 1} : f = Frame(p, t, n)
  BY DEF UpFrames, FramesOf
<1>2. n = 1 /\ f.piece = p
  BY <1>1 DEF Brings, Frame
<1>3. p \in EventPackets
  BY <1>2 DEF Brings, AnswerPackets
<1> QED
  BY <1>2, <1>3 DEF Chunk, EventPackets

-----------------------------------------------------------------------------
(* Sequences of byte numbers.                                              *)
Below(s, t) == \A a \in ToSet(s), b \in ToSet(t) : a < b
UpTo(s, n) == \A a \in ToSet(s) : a <= n

LEMMA Elements ==
    ASSUME NEW S, NEW s \in Seq(S)
    PROVE  ToSet(s) \subseteq S /\ \A i \in 1..Len(s) : s[i] \in ToSet(s) /\ s[i] \in S
  BY DEF ToSet

LEMMA EmptySequence ==
    /\ <<>> \in Seq(Nat) /\ ToSet(<<>>) = {} /\ Increasing(<<>>)
    /\ \A s : Below(<<>>, s) /\ Below(s, <<>>)
    /\ \A n : UpTo(<<>>, n)
<1>1. ToSet(<<>>) = {}
  BY DEF ToSet
<1> QED
  BY <1>1 DEF Increasing, Below, UpTo

LEMMA Joined ==
    ASSUME NEW S, NEW s \in Seq(S), NEW t \in Seq(S)
    PROVE  /\ s \o t \in Seq(S) /\ Len(s \o t) = Len(s) + Len(t)
           /\ DOMAIN (s \o t) = 1..(Len(s) + Len(t))
           /\ \A i \in 1..Len(s) : (s \o t)[i] = s[i]
           /\ \A i \in 1..Len(t) : (s \o t)[Len(s) + i] = t[i]
           /\ \A i \in 1..(Len(s) + Len(t)) : i > Len(s) => (s \o t)[i] = t[i - Len(s)]
           /\ ToSet(s \o t) = ToSet(s) \cup ToSet(t)
<1> DEFINE r == s \o t
<1>1. /\ r \in Seq(S) /\ Len(r) = Len(s) + Len(t) /\ DOMAIN r = 1..(Len(s) + Len(t))
      /\ Len(s) \in Nat /\ Len(t) \in Nat
  OBVIOUS
<1>2. \A i \in 1..Len(s) : r[i] = s[i]
  OBVIOUS
<1>3. \A i \in 1..(Len(s) + Len(t)) : i > Len(s) => r[i] = t[i - Len(s)]
  OBVIOUS
<1> HIDE DEF r
<1>4. \A i \in 1..Len(t) : r[Len(s) + i] = t[i]
  <2> SUFFICES ASSUME NEW i \in 1..Len(t) PROVE r[Len(s) + i] = t[i]
    OBVIOUS
  <2>1. Len(s) + i \in 1..(Len(s) + Len(t)) /\ Len(s) + i > Len(s) /\ (Len(s) + i) - Len(s) = i
    BY <1>1
  <2>2. r[Len(s) + i] = t[(Len(s) + i) - Len(s)]
    BY <1>3, <2>1
  <2> QED
    BY <2>1, <2>2
<1>5. ToSet(r) \subseteq ToSet(s) \cup ToSet(t)
  <2> SUFFICES ASSUME NEW i \in 1..(Len(s) + Len(t)) PROVE r[i] \in ToSet(s) \cup ToSet(t)
    BY <1>1 DEF ToSet
  <2>1. CASE i > Len(s)
    <3>1. i - Len(s) \in 1..Len(t)
      BY <1>1, <2>1
    <3> QED
      BY <1>3, <2>1, <3>1 DEF ToSet
  <2>2. CASE ~(i > Len(s))
    <3>1. i \in 1..Len(s)
      BY <1>1, <2>2
    <3> QED
      BY <1>2, <3>1 DEF ToSet
  <2> QED
    BY <2>1, <2>2
<1>6. ToSet(s) \subseteq ToSet(r)
  <2> SUFFICES ASSUME NEW i \in 1..Len(s) PROVE s[i] \in ToSet(r)
    BY DEF ToSet
  <2>1. i \in 1..(Len(s) + Len(t))
    BY <1>1
  <2> QED
    BY <1>1, <1>2, <2>1 DEF ToSet
<1>7. ToSet(t) \subseteq ToSet(r)
  <2> SUFFICES ASSUME NEW i \in 1..Len(t) PROVE t[i] \in ToSet(r)
    BY DEF ToSet
  <2>1. Len(s) + i \in 1..(Len(s) + Len(t))
    BY <1>1
  <2> QED
    BY <1>1, <1>4, <2>1 DEF ToSet
<1> QED
  BY <1>1, <1>2, <1>3, <1>4, <1>5, <1>6, <1>7 DEF r

LEMMA JoinedIncreasing ==
    ASSUME NEW s \in Seq(Nat), NEW t \in Seq(Nat), Increasing(s), Increasing(t), Below(s, t)
    PROVE  Increasing(s \o t)
<1> DEFINE r == s \o t
<1>1. /\ r \in Seq(Nat) /\ Len(r) = Len(s) + Len(t) /\ DOMAIN r = 1..(Len(s) + Len(t))
      /\ \A i \in 1..Len(s) : r[i] = s[i]
      /\ \A i \in 1..(Len(s) + Len(t)) : i > Len(s) => r[i] = t[i - Len(s)]
      /\ Len(s) \in Nat /\ Len(t) \in Nat /\ DOMAIN s = 1..Len(s) /\ DOMAIN t = 1..Len(t)
  BY Joined
<1> HIDE DEF r
<1> SUFFICES ASSUME NEW i \in 1..(Len(s) + Len(t)), NEW j \in 1..(Len(s) + Len(t)), i < j
             PROVE  r[i] < r[j]
  BY <1>1 DEF Increasing, r
<1>2. CASE j \in 1..Len(s)
  <2>1. i \in 1..Len(s)
    BY <1>1, <1>2
  <2> QED
    BY <1>1, <1>2, <2>1 DEF Increasing
<1>3. CASE i > Len(s)
  <2>1. /\ i - Len(s) \in 1..Len(t) /\ j - Len(s) \in 1..Len(t) /\ i - Len(s) < j - Len(s)
        /\ j > Len(s)
    BY <1>1, <1>3, SMTT(20)
  <2> QED
    BY <1>1, <1>3, <2>1 DEF Increasing
<1>4. CASE i \in 1..Len(s) /\ j > Len(s)
  <2>1. j - Len(s) \in 1..Len(t)
    BY <1>1, <1>4
  <2>2. s[i] \in ToSet(s) /\ t[j - Len(s)] \in ToSet(t)
    BY <1>4, <2>1, Elements
  <2> QED
    BY <1>1, <1>4, <2>2 DEF Below
<1> QED
  BY <1>1, <1>2, <1>3, <1>4

(* A piece of a sequence, from position m + 1 to position n.               *)
LEMMA Piece ==
    ASSUME NEW S, NEW s \in Seq(S), NEW m \in Nat, NEW n \in Nat, m <= n, n <= Len(s)
    PROVE  LET r == SubSeq(s, m + 1, n) IN
           /\ r \in Seq(S) /\ Len(r) = n - m /\ DOMAIN r = 1..(n - m)
           /\ \A i \in 1..(n - m) : r[i] = s[m + i] /\ m + i \in 1..Len(s)
           /\ ToSet(r) \subseteq ToSet(s)
<1> DEFINE r == SubSeq(s, m + 1, n)
<1>1. Len(s) \in Nat /\ r \in Seq(S) /\ Len(r) = n - m
  OBVIOUS
<1>2. DOMAIN r = 1..(n - m)
  BY <1>1
<1>3. ASSUME NEW i \in 1..(n - m) PROVE r[i] = s[m + i] /\ m + i \in 1..Len(s)
  <2>1. m + i \in 1..Len(s) /\ (m + 1) + i - 1 = m + i
    BY <1>1
  <2>2. r[i] = s[(m + 1) + i - 1]
    BY <1>1, SMTT(30)
  <2> QED
    BY <2>1, <2>2
<1> HIDE DEF r
<1>4. ToSet(r) \subseteq ToSet(s)
  <2> SUFFICES ASSUME NEW i \in 1..(n - m) PROVE r[i] \in ToSet(s)
    BY <1>2 DEF ToSet
  <2> QED
    BY <1>3, Elements
<1> QED
  BY <1>1, <1>2, <1>3, <1>4 DEF r

LEMMA PieceIncreasing ==
    ASSUME NEW s \in Seq(Nat), NEW m \in Nat, NEW n \in Nat, m <= n, n <= Len(s), Increasing(s)
    PROVE  Increasing(SubSeq(s, m + 1, n))
<1> DEFINE r == SubSeq(s, m + 1, n)
<1>1. DOMAIN r = 1..(n - m) /\ \A i \in 1..(n - m) : r[i] = s[m + i] /\ m + i \in 1..Len(s)
  BY Piece
<1> HIDE DEF r
<1> SUFFICES ASSUME NEW i \in 1..(n - m), NEW j \in 1..(n - m), i < j PROVE r[i] < r[j]
  BY <1>1 DEF Increasing, r
<1>2. m + i < m + j /\ m + i \in DOMAIN s /\ m + j \in DOMAIN s
  BY <1>1
<1> QED
  BY <1>1, <1>2 DEF Increasing

(* A sequence cut in two.                                                  *)
LEMMA CutInTwo ==
    ASSUME NEW s \in Seq(Nat), NEW c \in Nat, c <= Len(s)
    PROVE  LET f == SubSeq(s, 1, c)
               r == SubSeq(s, c + 1, Len(s)) IN
           /\ f \in Seq(Nat) /\ r \in Seq(Nat) /\ Len(f) = c /\ Len(r) = Len(s) - c
           /\ ToSet(f) \cup ToSet(r) = ToSet(s)
           /\ Increasing(s) => Increasing(f) /\ Increasing(r) /\ Below(f, r)
<1> DEFINE f == SubSeq(s, 1, c)
           r == SubSeq(s, c + 1, Len(s))
<1>0. Len(s) \in Nat /\ 0 \in Nat /\ 0 + 1 = 1 /\ c - 0 = c /\ DOMAIN s = 1..Len(s)
  OBVIOUS
<1> HIDE DEF f, r
<1>1. /\ f \in Seq(Nat) /\ Len(f) = c /\ DOMAIN f = 1..c /\ ToSet(f) \subseteq ToSet(s)
      /\ \A i \in 1..c : f[i] = s[i]
  <2>1. PICK m \in Nat : m = 0
    OBVIOUS
  <2>2. f = SubSeq(s, m + 1, c) /\ m <= c
    BY <2>1 DEF f
  <2>3. /\ f \in Seq(Nat) /\ Len(f) = c - m /\ DOMAIN f = 1..(c - m) /\ ToSet(f) \subseteq ToSet(s)
        /\ \A i \in 1..(c - m) : f[i] = s[m + i]
    BY <2>2, Piece
  <2> QED
    BY <2>1, <2>3
<1>2. /\ r \in Seq(Nat) /\ Len(r) = Len(s) - c /\ DOMAIN r = 1..(Len(s) - c)
      /\ ToSet(r) \subseteq ToSet(s)
      /\ \A i \in 1..(Len(s) - c) : r[i] = s[c + i]
  <2>1. PICK n \in Nat : n = Len(s)
    BY <1>0
  <2>2. r = SubSeq(s, c + 1, n) /\ c <= n /\ n <= Len(s)
    BY <1>0, <2>1 DEF r
  <2>3. /\ r \in Seq(Nat) /\ Len(r) = n - c /\ DOMAIN r = 1..(n - c) /\ ToSet(r) \subseteq ToSet(s)
        /\ \A i \in 1..(n - c) : r[i] = s[c + i]
    BY <2>2, Piece
  <2> QED
    BY <2>1, <2>3
<1>3. Increasing(s) => Increasing(f) /\ Increasing(r)
  <2> SUFFICES ASSUME Increasing(s) PROVE Increasing(f) /\ Increasing(r)
    OBVIOUS
  <2>1. PICK m \in Nat : m = 0
    OBVIOUS
  <2>2. PICK n \in Nat : n = Len(s)
    BY <1>0
  <2>3. f = SubSeq(s, m + 1, c) /\ m <= c
    BY <2>1 DEF f
  <2>4. r = SubSeq(s, c + 1, n) /\ c <= n /\ n <= Len(s)
    BY <1>0, <2>2 DEF r
  <2> QED
    BY <2>3, <2>4, PieceIncreasing
<1>4. ToSet(s) \subseteq ToSet(f) \cup ToSet(r)
  <2> SUFFICES ASSUME NEW i \in 1..Len(s) PROVE s[i] \in ToSet(f) \cup ToSet(r)
    BY <1>0 DEF ToSet
  <2>1. CASE i <= c
    <3>1. i \in 1..c /\ f[i] = s[i]
      BY <1>0, <1>1, <2>1
    <3> QED
      BY <1>1, <3>1 DEF ToSet
  <2>2. CASE ~(i <= c)
    <3>1. i - c \in 1..(Len(s) - c) /\ c + (i - c) = i
      BY <1>0, <2>2
    <3>2. r[i - c] = s[i]
      BY <1>2, <3>1
    <3> QED
      BY <1>2, <3>1, <3>2 DEF ToSet
  <2> QED
    BY <2>1, <2>2
<1>5. ASSUME Increasing(s) PROVE Below(f, r)
  <2> SUFFICES ASSUME NEW i \in 1..c, NEW j \in 1..(Len(s) - c) PROVE f[i] < r[j]
    BY <1>1, <1>2 DEF Below, ToSet
  <2>1. i \in 1..Len(s) /\ c + j \in 1..Len(s) /\ i < c + j
    BY <1>0
  <2>2. s[i] < s[c + j]
    BY <1>0, <1>5, <2>1 DEF Increasing
  <2> QED
    BY <1>1, <1>2, <2>2
<1>6. ToSet(f) \cup ToSet(r) = ToSet(s)
  BY <1>1, <1>2, <1>4
<1> QED
  BY <1>1, <1>2, <1>3, <1>5, <1>6 DEF f, r

LEMMA RestOf ==
    ASSUME NEW S, NEW s \in Seq(S), NEW c \in Nat, c <= Len(s)
    PROVE  LET r == SubSeq(s, c + 1, Len(s)) IN
           /\ r \in Seq(S) /\ Len(r) = Len(s) - c
           /\ \A i \in 1..(Len(s) - c) : r[i] = s[c + i] /\ c + i \in 1..Len(s)
<1> DEFINE r == SubSeq(s, c + 1, Len(s))
<1>1. PICK n \in Nat : n = Len(s)
  OBVIOUS
<1>2. r = SubSeq(s, c + 1, n) /\ c <= n /\ n <= Len(s)
  BY <1>1
<1> HIDE DEF r
<1>3. /\ r \in Seq(S) /\ Len(r) = n - c
      /\ \A i \in 1..(n - c) : r[i] = s[c + i] /\ c + i \in 1..Len(s)
  BY <1>2, Piece
<1> QED
  BY <1>1, <1>3 DEF r

LEMMA OneMore ==
    ASSUME NEW s \in Seq(Nat), NEW n \in Nat, UpTo(s, n), Increasing(s)
    PROVE  LET r == Append(s, n + 1) IN
           /\ r \in Seq(Nat) /\ ToSet(r) = ToSet(s) \cup {n + 1}
           /\ Increasing(r)
<1> DEFINE t == <<n + 1>>
<1>1. t \in Seq(Nat) /\ Len(t) = 1 /\ t[1] = n + 1 /\ DOMAIN t = {1}
  OBVIOUS
<1>2. ToSet(t) = {n + 1} /\ Increasing(t)
  BY <1>1 DEF ToSet, Increasing
<1>3. Append(s, n + 1) = s \o t
  OBVIOUS
<1> HIDE DEF t
<1>4. ToSet(s) \subseteq Nat
  BY Elements
<1>5. Below(s, t)
  BY <1>2, <1>4 DEF UpTo, Below
<1>6. s \o t \in Seq(Nat) /\ ToSet(s \o t) = ToSet(s) \cup ToSet(t)
  BY <1>1, Joined
<1>7. Increasing(s \o t)
  BY <1>1, <1>2, <1>5, JoinedIncreasing
<1> QED
  BY <1>2, <1>3, <1>6, <1>7

-----------------------------------------------------------------------------
(* The pipeline: rd is what the client has read, by the buffer, u the bus, *)
(* pe the chunk, ri the ring and n the number of the last byte.            *)
Fine(s, n) == s \in Seq(Nat) /\ Increasing(s) /\ UpTo(s, n)

Flow(rd, by, u, pe, ri, n) ==
    /\ n \in Nat /\ u \in Seq(UpFrames)
    /\ Fine(rd, n) /\ Fine(by, n) /\ Fine(pe, n) /\ Fine(ri, n)
    /\ Below(rd, by) /\ Below(rd, pe) /\ Below(rd, ri) /\ Below(by, pe) /\ Below(by, ri)
    /\ Below(pe, ri)
    /\ \A i \in 1..Len(u) : Brings(u[i]) =>
           /\ Fine(Chunk(u[i]), n)
           /\ Below(rd, Chunk(u[i])) /\ Below(by, Chunk(u[i]))
           /\ Below(Chunk(u[i]), pe) /\ Below(Chunk(u[i]), ri)
    /\ \A i, j \in 1..Len(u) : i < j /\ Brings(u[i]) /\ Brings(u[j]) =>
           Below(Chunk(u[i]), Chunk(u[j]))

(* A byte comes in at the ring, or is lost there.                          *)
LEMMA FineLater ==
    ASSUME NEW n \in Nat, NEW s, Fine(s, n)
    PROVE  Fine(s, n + 1)
<1>1. ToSet(s) \subseteq Nat
  BY Elements DEF Fine
<1> QED
  BY <1>1 DEF Fine, UpTo

LEMMA FlowLater ==
    ASSUME NEW rd, NEW by, NEW u, NEW pe, NEW ri, NEW n, Flow(rd, by, u, pe, ri, n)
    PROVE  Flow(rd, by, u, pe, ri, n + 1)
<1>1. n \in Nat
  BY DEF Flow
<1>2. Fine(rd, n + 1) /\ Fine(by, n + 1) /\ Fine(pe, n + 1) /\ Fine(ri, n + 1)
  BY <1>1, FineLater DEF Flow
<1>3. \A i \in 1..Len(u) : Brings(u[i]) => Fine(Chunk(u[i]), n + 1)
  BY <1>1, FineLater DEF Flow
<1> QED
  BY <1>1, <1>2, <1>3 DEF Flow

LEMMA BelowNew ==
    ASSUME NEW s, NEW n \in Nat, Fine(s, n), NEW t, NEW r, Below(s, t),
           ToSet(r) = ToSet(t) \cup {n + 1}
    PROVE  Below(s, r)
<1>1. ToSet(s) \subseteq Nat
  BY Elements DEF Fine
<1> QED
  BY <1>1 DEF Fine, UpTo, Below

LEMMA FlowGrows ==
    ASSUME NEW rd, NEW by, NEW u, NEW pe, NEW ri, NEW n, Flow(rd, by, u, pe, ri, n)
    PROVE  Flow(rd, by, u, pe, Append(ri, n + 1), n + 1)
<1> DEFINE r == Append(ri, n + 1)
<1>1. n \in Nat /\ Fine(ri, n)
  BY DEF Flow
<1>2. r \in Seq(Nat) /\ ToSet(r) = ToSet(ri) \cup {n + 1} /\ Increasing(r)
  BY <1>1, OneMore DEF Fine
<1> HIDE DEF r
<1>3. Flow(rd, by, u, pe, ri, n + 1)
  BY FlowLater
<1>4. Fine(r, n + 1)
  BY <1>1, <1>2, <1>3 DEF Fine, Flow, UpTo
<1>5. Below(rd, r) /\ Below(by, r) /\ Below(pe, r)
  BY <1>1, <1>2, BelowNew DEF Flow
<1>6. \A i \in 1..Len(u) : Brings(u[i]) => Below(Chunk(u[i]), r)
  BY <1>1, <1>2, BelowNew DEF Flow
<1>7. Flow(rd, by, u, pe, r, n + 1)
  BY <1>3, <1>4, <1>5, <1>6 DEF Flow
<1> QED
  BY <1>7 DEF r

(* rbsp_core_poll() takes bytes from the ring to the chunk.                *)
LEMMA FlowFills ==
    ASSUME NEW rd, NEW by, NEW u, NEW pe, NEW ri, NEW n, Flow(rd, by, u, pe, ri, n),
           NEW c \in Nat, c <= Len(ri)
    PROVE  Flow(rd, by, u, pe \o SubSeq(ri, 1, c), SubSeq(ri, c + 1, Len(ri)), n)
<1> DEFINE f == SubSeq(ri, 1, c)
           r == SubSeq(ri, c + 1, Len(ri))
           p == pe \o f
<1>1. n \in Nat /\ Fine(ri, n) /\ Fine(pe, n) /\ Below(pe, ri)
  BY DEF Flow
<1>2. /\ f \in Seq(Nat) /\ r \in Seq(Nat) /\ ToSet(f) \cup ToSet(r) = ToSet(ri)
      /\ Increasing(f) /\ Increasing(r) /\ Below(f, r)
  BY <1>1, CutInTwo DEF Fine
<1> HIDE DEF f, r
<1>3. Below(pe, f) /\ Below(pe, r)
  BY <1>1, <1>2 DEF Below
<1>4. p \in Seq(Nat) /\ ToSet(p) = ToSet(pe) \cup ToSet(f)
  BY <1>1, <1>2, Joined DEF Fine
<1>5. Increasing(p)
  BY <1>1, <1>2, <1>3, JoinedIncreasing DEF Fine
<1> HIDE DEF p
<1>6. Fine(p, n) /\ Fine(r, n)
  BY <1>1, <1>2, <1>4, <1>5 DEF Fine, UpTo
<1>7. Below(p, r)
  BY <1>2, <1>3, <1>4 DEF Below
<1>8. ASSUME NEW s, Below(s, pe), Below(s, ri) PROVE Below(s, p) /\ Below(s, r)
  BY <1>2, <1>4, <1>8 DEF Below
<1>9. Flow(rd, by, u, p, r, n)
  BY <1>6, <1>7, <1>8 DEF Flow
<1> QED
  BY <1>9 DEF f, r, p

(* What leaves the board without an event, or not the whole of it.         *)
LEMMA FlowPosts ==
    ASSUME NEW rd, NEW by, NEW u, NEW pe, NEW ri, NEW n, Flow(rd, by, u, pe, ri, n),
           NEW v \in Seq(UpFrames), \A i \in 1..Len(v) : ~Brings(v[i])
    PROVE  Flow(rd, by, u \o v, pe, ri, n)
<1> DEFINE w == u \o v
<1>1. u \in Seq(UpFrames) /\ Len(u) \in Nat /\ Len(v) \in Nat
  BY DEF Flow
<1>2. /\ w \in Seq(UpFrames) /\ Len(w) = Len(u) + Len(v)
      /\ \A i \in 1..Len(u) : w[i] = u[i]
      /\ \A i \in 1..(Len(u) + Len(v)) : i > Len(u) => w[i] = v[i - Len(u)]
  BY <1>1, Joined
<1> HIDE DEF w
<1>3. ASSUME NEW i \in 1..Len(w), Brings(w[i]) PROVE i \in 1..Len(u) /\ w[i] = u[i]
  <2>1. ASSUME i > Len(u) PROVE FALSE
    <3>1. i - Len(u) \in 1..Len(v) /\ i \in 1..(Len(u) + Len(v))
      BY <1>1, <1>2, <2>1
    <3>2. w[i] = v[i - Len(u)]
      BY <1>2, <2>1, <3>1
    <3> QED
      BY <1>3, <3>1, <3>2
  <2>2. i \in 1..Len(u)
    BY <1>1, <1>2, <2>1
  <2> QED
    BY <1>2, <2>2
<1>4. Flow(rd, by, w, pe, ri, n)
  BY <1>2, <1>3 DEF Flow
<1> QED
  BY <1>4 DEF w

(* An event that is sent takes the chunk to the bus.                       *)
LEMMA FlowSends ==
    ASSUME NEW rd, NEW by, NEW u, NEW pe, NEW ri, NEW n, Flow(rd, by, u, pe, ri, n),
           NEW f \in UpFrames, Brings(f), Chunk(f) = pe
    PROVE  Flow(rd, by, u \o <<f>>, <<>>, ri, n)
<1> DEFINE w == u \o <<f>>
<1>1. u \in Seq(UpFrames) /\ Len(u) \in Nat
  BY DEF Flow
<1>2. /\ w \in Seq(UpFrames) /\ Len(w) = Len(u) + 1
      /\ \A i \in 1..Len(u) : w[i] = u[i]
      /\ w[Len(u) + 1] = f
  BY <1>1
<1> HIDE DEF w
<1>3. ASSUME NEW i \in 1..Len(w) PROVE i \in 1..Len(u) \/ i = Len(u) + 1
  BY <1>1, <1>2
<1>4. Fine(<<>>, n) /\ \A s : Below(s, <<>>) /\ Below(<<>>, s)
  BY EmptySequence DEF Fine
<1>5. \A i \in 1..Len(w) : Brings(w[i]) =>
          /\ Fine(Chunk(w[i]), n)
          /\ Below(rd, Chunk(w[i])) /\ Below(by, Chunk(w[i])) /\ Below(Chunk(w[i]), ri)
  BY <1>2, <1>3 DEF Flow
<1>6. ASSUME NEW i \in 1..Len(w), NEW j \in 1..Len(w), i < j, Brings(w[i]), Brings(w[j])
      PROVE  Below(Chunk(w[i]), Chunk(w[j]))
  <2>1. i \in 1..Len(u) /\ w[i] = u[i]
    BY <1>1, <1>2, <1>6
  <2>2. CASE j \in 1..Len(u)
    BY <1>2, <1>6, <2>1, <2>2 DEF Flow
  <2>3. CASE j = Len(u) + 1
    BY <1>2, <1>6, <2>1, <2>3 DEF Flow
  <2> QED
    BY <1>3, <2>2, <2>3
<1>7. Flow(rd, by, w, <<>>, ri, n)
  BY <1>2, <1>4, <1>5, <1>6 DEF Flow
<1> QED
  BY <1>7 DEF w

(* A reset, or a port that is configured.                                  *)
LEMMA FlowEmpties ==
    ASSUME NEW rd, NEW by, NEW u, NEW pe, NEW ri, NEW n, Flow(rd, by, u, pe, ri, n)
    PROVE  Flow(rd, by, u, <<>>, <<>>, n)
<1>1. Fine(<<>>, n) /\ \A s : Below(s, <<>>) /\ Below(<<>>, s)
  BY EmptySequence DEF Fine
<1> QED
  BY <1>1 DEF Flow

(* A frame leaves the bus.                                                 *)
LEMMA TailOf ==
    ASSUME NEW S, NEW u \in Seq(S), u # <<>>
    PROVE  /\ Tail(u) \in Seq(S) /\ Len(Tail(u)) = Len(u) - 1 /\ Len(u) \in Nat \ {0}
           /\ Head(u) = u[1] /\ u[1] \in S
           /\ \A i \in 1..Len(Tail(u)) : i + 1 \in 1..Len(u) /\ Tail(u)[i] = u[i + 1]
  OBVIOUS

LEMMA FlowDrops ==
    ASSUME NEW rd, NEW by, NEW u, NEW pe, NEW ri, NEW n, Flow(rd, by, u, pe, ri, n), u # <<>>
    PROVE  Flow(rd, by, Tail(u), pe, ri, n)
<1> DEFINE w == Tail(u)
<1>1. /\ w \in Seq(UpFrames) /\ Len(w) = Len(u) - 1 /\ Len(u) \in Nat \ {0}
      /\ \A i \in 1..Len(w) : i + 1 \in 1..Len(u) /\ w[i] = u[i + 1]
  BY TailOf DEF Flow
<1> HIDE DEF w
<1>2. \A i \in 1..Len(w) : Brings(w[i]) =>
          /\ Fine(Chunk(w[i]), n)
          /\ Below(rd, Chunk(w[i])) /\ Below(by, Chunk(w[i]))
          /\ Below(Chunk(w[i]), pe) /\ Below(Chunk(w[i]), ri)
  BY <1>1 DEF Flow
<1>3. ASSUME NEW i \in 1..Len(w), NEW j \in 1..Len(w), i < j, Brings(w[i]), Brings(w[j])
      PROVE  Below(Chunk(w[i]), Chunk(w[j]))
  <2>1. i + 1 \in 1..Len(u) /\ j + 1 \in 1..Len(u) /\ i + 1 < j + 1
    BY <1>1, <1>3
  <2> QED
    BY <1>1, <1>3, <2>1 DEF Flow
<1>4. Flow(rd, by, w, pe, ri, n)
  BY <1>1, <1>2, <1>3 DEF Flow
<1> QED
  BY <1>4 DEF w

(* The bytes of an event that is accepted join the buffer, from which the  *)
(* oldest may go.                                                          *)
LEMMA FlowArrives ==
    ASSUME NEW rd, NEW by, NEW u, NEW pe, NEW ri, NEW n, Flow(rd, by, u, pe, ri, n), u # <<>>,
           Brings(Head(u)), NEW o \in Nat, o <= Len(by \o Chunk(Head(u)))
    PROVE  Flow(rd, Kept(by \o Chunk(Head(u)), o), Tail(u), pe, ri, n)
<1> DEFINE w == Tail(u)
           c == Chunk(Head(u))
           all == by \o c
           k == Kept(all, o)
<1>1. /\ w \in Seq(UpFrames) /\ Len(w) = Len(u) - 1 /\ Len(u) \in Nat \ {0} /\ Head(u) = u[1]
      /\ \A i \in 1..Len(w) : i + 1 \in 1..Len(u) /\ w[i] = u[i + 1]
  BY TailOf DEF Flow
<1>2. 1 \in 1..Len(u)
  BY <1>1
<1>3. /\ Fine(c, n) /\ Below(rd, c) /\ Below(by, c) /\ Below(c, pe) /\ Below(c, ri)
      /\ Fine(by, n)
  BY <1>1, <1>2 DEF Flow
<1>4. \A i \in 1..Len(w) : Brings(w[i]) => Below(c, Chunk(w[i]))
  <2> SUFFICES ASSUME NEW i \in 1..Len(w), Brings(w[i]) PROVE Below(c, Chunk(w[i]))
    OBVIOUS
  <2>1. i + 1 \in 1..Len(u) /\ w[i] = u[i + 1] /\ 1 < i + 1
    BY <1>1
  <2> QED
    BY <1>1, <1>2, <2>1 DEF Flow
<1>5. Flow(rd, by, w, pe, ri, n)
  BY FlowDrops
<1> HIDE DEF w, c
<1>6. all \in Seq(Nat) /\ ToSet(all) = ToSet(by) \cup ToSet(c)
  BY <1>3, Joined DEF Fine
<1>7. Increasing(all)
  BY <1>3, JoinedIncreasing DEF Fine
<1>8. o <= Len(all)
  BY DEF c
<1> HIDE DEF all
<1>9. k \in Seq(Nat) /\ ToSet(k) \subseteq ToSet(all) /\ Increasing(k)
  BY <1>6, <1>7, <1>8, CutInTwo DEF Kept
<1> HIDE DEF k
<1>10. ToSet(k) \subseteq ToSet(by) \cup ToSet(c)
  BY <1>6, <1>9
<1>11. Fine(k, n)
  BY <1>3, <1>9, <1>10 DEF Fine, UpTo
<1>12. ASSUME NEW s, Below(by, s), Below(c, s) PROVE Below(k, s)
  BY <1>10, <1>12 DEF Below
<1>13. Below(rd, k)
  BY <1>3, <1>5, <1>10 DEF Below, Flow
<1>14. \A i \in 1..Len(w) : Brings(w[i]) => Below(k, Chunk(w[i]))
  BY <1>4, <1>5, <1>12 DEF Flow
<1>15. Below(k, pe) /\ Below(k, ri)
  BY <1>3, <1>5, <1>12 DEF Flow
<1>16. Flow(rd, k, w, pe, ri, n)
  BY <1>5, <1>11, <1>13, <1>14, <1>15 DEF Flow
<1> QED
  BY <1>16 DEF k, w, all, c

(* The client takes bytes from the front of the buffer, or loses them.     *)
LEMMA FlowReads ==
    ASSUME NEW rd, NEW by, NEW u, NEW pe, NEW ri, NEW n, Flow(rd, by, u, pe, ri, n),
           NEW c \in Nat, c <= Len(by)
    PROVE  /\ Flow(rd \o SubSeq(by, 1, c), SubSeq(by, c + 1, Len(by)), u, pe, ri, n)
           /\ Flow(rd, SubSeq(by, c + 1, Len(by)), u, pe, ri, n)
<1> DEFINE f == SubSeq(by, 1, c)
           r == SubSeq(by, c + 1, Len(by))
           d == rd \o f
<1>1. Fine(by, n) /\ Fine(rd, n) /\ Below(rd, by)
  BY DEF Flow
<1>2. /\ f \in Seq(Nat) /\ r \in Seq(Nat) /\ ToSet(f) \cup ToSet(r) = ToSet(by)
      /\ Increasing(f) /\ Increasing(r) /\ Below(f, r)
  BY <1>1, CutInTwo DEF Fine
<1> HIDE DEF f, r
<1>3. Below(rd, f) /\ Below(rd, r)
  BY <1>1, <1>2 DEF Below
<1>4. d \in Seq(Nat) /\ ToSet(d) = ToSet(rd) \cup ToSet(f)
  BY <1>1, <1>2, Joined DEF Fine
<1>5. Increasing(d)
  BY <1>1, <1>2, <1>3, JoinedIncreasing DEF Fine
<1> HIDE DEF d
<1>6. Fine(d, n) /\ Fine(r, n)
  BY <1>1, <1>2, <1>4, <1>5 DEF Fine, UpTo
<1>7. Below(d, r)
  BY <1>2, <1>3, <1>4 DEF Below
<1>8. ASSUME NEW s, Below(rd, s), Below(by, s) PROVE Below(d, s) /\ Below(r, s)
  BY <1>2, <1>4, <1>8 DEF Below
<1>9. \A i \in 1..Len(u) : Brings(u[i]) => Below(d, Chunk(u[i])) /\ Below(r, Chunk(u[i]))
  BY <1>8 DEF Flow
<1>10. Below(d, pe) /\ Below(d, ri) /\ Below(r, pe) /\ Below(r, ri)
  BY <1>8 DEF Flow
<1>11. Flow(d, r, u, pe, ri, n)
  BY <1>6, <1>7, <1>9, <1>10 DEF Flow
<1>12. Flow(rd, r, u, pe, ri, n)
  BY <1>3, <1>6, <1>9, <1>10 DEF Flow
<1> QED
  BY <1>11, <1>12 DEF f, r, d

-----------------------------------------------------------------------------
(* The buffer holds the newest of the bytes received, gt: what left it was *)
(* read, dropped or lost with its client.                                  *)
Buffered(rd, by, gt, dr, un) ==
    /\ rd \in Seq(Nat) /\ by \in Seq(Nat) /\ gt \in Seq(Nat) /\ dr \in Nat /\ un \in Nat
    /\ Len(by) <= Len(gt)
    /\ \A i \in 1..Len(by) : by[i] = gt[Len(gt) - Len(by) + i]
    /\ Len(rd) + Len(by) + dr + un = Len(gt)

LEMMA BufferedFacts ==
    ASSUME NEW rd, NEW by, NEW gt, NEW dr, NEW un, Buffered(rd, by, gt, dr, un)
    PROVE  /\ rd \in Seq(Nat) /\ by \in Seq(Nat) /\ gt \in Seq(Nat) /\ dr \in Nat /\ un \in Nat
           /\ Len(by) \in Nat /\ Len(gt) \in Nat /\ Len(rd) \in Nat
           /\ Len(by) <= Len(gt)
           /\ \A i \in 1..Len(by) : by[i] = gt[Len(gt) - Len(by) + i]
           /\ Len(rd) + Len(by) + dr + un = Len(gt)
<1>1. /\ rd \in Seq(Nat) /\ by \in Seq(Nat) /\ gt \in Seq(Nat) /\ dr \in Nat /\ un \in Nat
      /\ Len(by) <= Len(gt)
      /\ \A i \in 1..Len(by) : by[i] = gt[Len(gt) - Len(by) + i]
      /\ Len(rd) + Len(by) + dr + un = Len(gt)
  BY Zenon DEF Buffered
<1>2. \A s \in Seq(Nat) : Len(s) \in Nat
  OBVIOUS
<1> QED
  BY <1>1, <1>2, Zenon

LEMMA BufferedArrives ==
    ASSUME NEW rd, NEW by, NEW gt, NEW dr, NEW un, Buffered(rd, by, gt, dr, un),
           NEW c \in Seq(Nat), NEW o \in Nat, o <= Len(by \o c)
    PROVE  Buffered(rd, Kept(by \o c, o), gt \o c, dr + o, un)
<1> DEFINE all == by \o c
           k == Kept(all, o)
           g == gt \o c
<1>1. /\ rd \in Seq(Nat) /\ by \in Seq(Nat) /\ gt \in Seq(Nat) /\ dr \in Nat /\ un \in Nat
      /\ Len(by) \in Nat /\ Len(gt) \in Nat /\ Len(rd) \in Nat
      /\ Len(by) <= Len(gt)
      /\ \A i \in 1..Len(by) : by[i] = gt[Len(gt) - Len(by) + i]
      /\ Len(rd) + Len(by) + dr + un = Len(gt)
  BY BufferedFacts
<1>2. /\ all \in Seq(Nat) /\ Len(all) = Len(by) + Len(c)
      /\ \A i \in 1..Len(by) : all[i] = by[i]
      /\ \A i \in 1..(Len(by) + Len(c)) : i > Len(by) => all[i] = c[i - Len(by)]
      /\ Len(c) \in Nat
  BY <1>1, Joined
<1>3. /\ g \in Seq(Nat) /\ Len(g) = Len(gt) + Len(c)
      /\ \A i \in 1..Len(gt) : g[i] = gt[i]
      /\ \A i \in 1..(Len(gt) + Len(c)) : i > Len(gt) => g[i] = c[i - Len(gt)]
  BY <1>1, Joined
<1>4. o <= Len(all) /\ k = SubSeq(all, o + 1, Len(all))
  BY DEF Kept
<1> HIDE DEF all, k, g
<1>5. PICK n \in Nat : n = Len(all)
  BY <1>1, <1>2
<1>6. /\ k \in Seq(Nat) /\ Len(k) = n - o
      /\ \A i \in 1..(n - o) : k[i] = all[o + i] /\ o + i \in 1..n
  <2>1. k = SubSeq(all, o + 1, n) /\ o <= n /\ n <= Len(all)
    BY <1>4, <1>5
  <2>2. /\ k \in Seq(Nat) /\ Len(k) = n - o /\ DOMAIN k = 1..(n - o)
        /\ \A i \in 1..(n - o) : k[i] = all[o + i] /\ o + i \in 1..Len(all)
    <3>1. all \in Seq(Nat)
      BY <1>2
    <3> QED
      BY <2>1, <3>1, Piece
  <2> QED
    BY <1>5, <2>2
<1>7. ASSUME NEW i \in 1..Len(k) PROVE k[i] = g[Len(g) - Len(k) + i]
  <2>1. k[i] = all[o + i] /\ o + i \in 1..n /\ n = Len(by) + Len(c)
    BY <1>2, <1>5, <1>6
  <2>2. Len(g) - Len(k) + i = Len(gt) - Len(by) + (o + i)
    BY <1>1, <1>3, <1>6, <2>1
  <2>3. CASE o + i <= Len(by)
    <3>1. all[o + i] = by[o + i] /\ by[o + i] = gt[Len(gt) - Len(by) + (o + i)]
      <4>1. PICK j : j = o + i
        OBVIOUS
      <4>2. j \in 1..Len(by)
        BY <1>1, <2>1, <2>3, <4>1
      <4>3. all[j] = by[j]
        BY <1>2, <4>2
      <4>4. by[j] = gt[Len(gt) - Len(by) + j]
        BY <1>1, <4>2
      <4> QED
        BY <4>1, <4>3, <4>4
    <3>2. Len(gt) - Len(by) + (o + i) \in 1..Len(gt)
      BY <1>1, <2>1, <2>3
    <3> QED
      BY <1>3, <2>1, <2>2, <3>1, <3>2
  <2>4. CASE ~(o + i <= Len(by))
    <3>1. all[o + i] = c[(o + i) - Len(by)]
      <4>1. PICK j : j = o + i
        OBVIOUS
      <4>2. j \in 1..(Len(by) + Len(c)) /\ j > Len(by)
        BY <1>1, <1>2, <2>1, <2>4, <4>1
      <4>3. all[j] = c[j - Len(by)]
        BY <1>2, <4>2
      <4> QED
        BY <4>1, <4>3
    <3>2. /\ Len(gt) - Len(by) + (o + i) \in 1..(Len(gt) + Len(c))
          /\ Len(gt) - Len(by) + (o + i) > Len(gt)
          /\ (Len(gt) - Len(by) + (o + i)) - Len(gt) = (o + i) - Len(by)
      BY <1>1, <2>1, <2>4
    <3>3. g[Len(gt) - Len(by) + (o + i)] = c[(Len(gt) - Len(by) + (o + i)) - Len(gt)]
      BY <1>3, <3>2
    <3> QED
      BY <2>1, <2>2, <3>1, <3>2, <3>3
  <2> QED
    BY <2>3, <2>4
<1>8. /\ Len(k) <= Len(g) /\ Len(rd) + Len(k) + (dr + o) + un = Len(g) /\ dr + o \in Nat
  <2>1. /\ Len(k) = Len(by) + Len(c) - o /\ Len(g) = Len(gt) + Len(c) /\ o <= Len(by) + Len(c)
        /\ Len(by) \in Nat /\ Len(gt) \in Nat /\ Len(c) \in Nat /\ Len(rd) \in Nat
        /\ Len(by) <= Len(gt) /\ Len(rd) + Len(by) + dr + un = Len(gt)
        /\ dr \in Nat /\ un \in Nat
    BY <1>1, <1>2, <1>3, <1>4, <1>5, <1>6
  <2> QED
    BY <2>1, SMTT(20)
<1>9. Buffered(rd, k, g, dr + o, un)
  BY <1>1, <1>3, <1>6, <1>7, <1>8 DEF Buffered
<1> QED
  BY <1>9 DEF k, g, all

LEMMA BufferedReads ==
    ASSUME NEW rd, NEW by, NEW gt, NEW dr, NEW un, Buffered(rd, by, gt, dr, un),
           NEW c \in Nat, c <= Len(by)
    PROVE  /\ Buffered(rd \o SubSeq(by, 1, c), SubSeq(by, c + 1, Len(by)), gt, dr, un)
           /\ Buffered(rd, SubSeq(by, c + 1, Len(by)), gt, dr, un + c)
<1> DEFINE f == SubSeq(by, 1, c)
           r == SubSeq(by, c + 1, Len(by))
           d == rd \o f
<1>1. /\ rd \in Seq(Nat) /\ by \in Seq(Nat) /\ gt \in Seq(Nat) /\ dr \in Nat /\ un \in Nat
      /\ Len(by) \in Nat /\ Len(gt) \in Nat /\ Len(rd) \in Nat
      /\ Len(by) <= Len(gt)
      /\ \A i \in 1..Len(by) : by[i] = gt[Len(gt) - Len(by) + i]
      /\ Len(rd) + Len(by) + dr + un = Len(gt)
  BY BufferedFacts
<1>2. f \in Seq(Nat) /\ Len(f) = c
  BY <1>1, CutInTwo
<1> HIDE DEF f
<1>3. d \in Seq(Nat) /\ Len(d) = Len(rd) + c
  BY <1>1, <1>2, Joined
<1>4. /\ r \in Seq(Nat) /\ Len(r) = Len(by) - c
      /\ \A i \in 1..(Len(by) - c) : r[i] = by[c + i] /\ c + i \in 1..Len(by)
  <2>1. by \in Seq(Nat)
    BY <1>1
  <2> QED
    BY <2>1, RestOf
<1> HIDE DEF r, d
<1>5. Len(r) \in Nat
  BY <1>1, <1>4
<1>6. ASSUME NEW i \in 1..Len(r) PROVE r[i] = gt[Len(gt) - Len(r) + i]
  <2>1. r[i] = by[c + i] /\ c + i \in 1..Len(by)
    BY <1>4, <1>5
  <2>2. by[c + i] = gt[Len(gt) - Len(by) + (c + i)]
    BY <1>1, <2>1
  <2>3. Len(gt) - Len(by) + (c + i) = Len(gt) - Len(r) + i
    BY <1>1, <1>4, <1>5
  <2> QED
    BY <2>1, <2>2, <2>3
<1>7. /\ Len(r) <= Len(gt) /\ un + c \in Nat
      /\ Len(d) + Len(r) + dr + un = Len(gt)
      /\ Len(rd) + Len(r) + dr + (un + c) = Len(gt)
  <2>1. /\ Len(r) = Len(by) - c /\ Len(d) = Len(rd) + c
        /\ Len(by) \in Nat /\ Len(gt) \in Nat /\ Len(rd) \in Nat
        /\ Len(by) <= Len(gt) /\ Len(rd) + Len(by) + dr + un = Len(gt)
        /\ dr \in Nat /\ un \in Nat
    BY <1>1, <1>3, <1>4, <1>5
  <2> QED
    BY <2>1
<1>8. Buffered(d, r, gt, dr, un) /\ Buffered(rd, r, gt, dr, un + c)
  BY <1>1, <1>3, <1>4, <1>6, <1>7 DEF Buffered
<1> QED
  BY <1>8 DEF r, d, f

LEMMA SameSequence ==
    ASSUME NEW s \in Seq(Nat), NEW t \in Seq(Nat), Len(s) = Len(t),
           \A i \in 1..Len(s) : s[i] = t[i]
    PROVE  s = t
  OBVIOUS

LEMMA ReverseOf ==
    ASSUME NEW s \in Seq(Nat)
    PROVE  /\ Reverse(s) \in Seq(Nat) /\ Len(Reverse(s)) = Len(s)
           /\ \A i \in 1..Len(s) : Reverse(s)[i] = s[(Len(s) - i) + 1]
<1>1. Len(s) \in Nat
  OBVIOUS
<1>2. \A i \in 1..Len(s) : (Len(s) - i) + 1 \in 1..Len(s) /\ s[(Len(s) - i) + 1] \in Nat
  BY <1>1
<1>3. Reverse(s) = [i \in 1..Len(s) |-> s[(Len(s) - i) + 1]]
  BY DEF Reverse
<1>4. Reverse(s) \in [1..Len(s) -> Nat]
  BY <1>2, <1>3
<1>5. Reverse(s) \in Seq(Nat) /\ Len(Reverse(s)) = Len(s)
  BY <1>1, <1>4
<1> QED
  BY <1>3, <1>5

LEMMA BufferIsSuffix ==
    ASSUME NEW rd, NEW by, NEW gt, NEW dr, NEW un, Buffered(rd, by, gt, dr, un)
    PROVE  IsSuffix(by, gt)
<1> DEFINE s == Reverse(by)
           t == Reverse(gt)
<1>1. /\ by \in Seq(Nat) /\ gt \in Seq(Nat) /\ Len(by) \in Nat /\ Len(gt) \in Nat
      /\ Len(by) <= Len(gt)
      /\ \A i \in 1..Len(by) : by[i] = gt[Len(gt) - Len(by) + i]
  BY BufferedFacts
<1>2. /\ s \in Seq(Nat) /\ Len(s) = Len(by)
      /\ \A i \in 1..Len(by) : s[i] = by[(Len(by) - i) + 1]
      /\ t \in Seq(Nat) /\ Len(t) = Len(gt)
      /\ \A i \in 1..Len(gt) : t[i] = gt[(Len(gt) - i) + 1]
  BY <1>1, ReverseOf
<1> HIDE DEF s, t
<1>3. \A i \in 1..Len(by) : s[i] = t[i]
  <2> SUFFICES ASSUME NEW i \in 1..Len(by) PROVE s[i] = t[i]
    OBVIOUS
  <2>1. /\ (Len(by) - i) + 1 \in 1..Len(by) /\ i \in 1..Len(gt)
        /\ Len(gt) - Len(by) + ((Len(by) - i) + 1) = (Len(gt) - i) + 1
    BY <1>1
  <2>2. by[(Len(by) - i) + 1] = gt[Len(gt) - Len(by) + ((Len(by) - i) + 1)]
    BY <1>1, <2>1
  <2> QED
    BY <1>2, <2>1, <2>2
<1>4. PICK n \in Nat : n = Len(by)
  BY <1>1
<1> DEFINE x == SubSeq(s, 1, n)
           y == SubSeq(t, 1, n)
<1>5. /\ x \in Seq(Nat) /\ Len(x) = n /\ \A i \in 1..n : x[i] = s[i]
      /\ y \in Seq(Nat) /\ Len(y) = n /\ \A i \in 1..n : y[i] = t[i]
  <2>1. PICK m \in Nat : m = 0
    OBVIOUS
  <2>2. x = SubSeq(s, m + 1, n) /\ y = SubSeq(t, m + 1, n) /\ m <= n /\ n <= Len(s) /\ n <= Len(t)
    BY <1>1, <1>2, <1>4, <2>1
  <2> HIDE DEF x, y
  <2>3. s \in Seq(Nat) /\ t \in Seq(Nat)
    BY <1>2
  <2>4. x \in Seq(Nat) /\ Len(x) = n - m /\ \A i \in 1..(n - m) : x[i] = s[m + i]
    BY <2>2, <2>3, Piece, SMTT(20)
  <2>5. y \in Seq(Nat) /\ Len(y) = n - m /\ \A i \in 1..(n - m) : y[i] = t[m + i]
    BY <2>2, <2>3, Piece, SMTT(20)
  <2> QED
    BY <2>1, <2>4, <2>5
<1> HIDE DEF x, y
<1>6. x = y
  BY <1>3, <1>4, <1>5, SameSequence
<1>7. SubSeq(s, 1, Len(s)) = SubSeq(t, 1, Len(s)) /\ Len(s) <= Len(t)
  BY <1>1, <1>2, <1>4, <1>6 DEF x, y
<1> QED
  BY <1>7 DEF IsSuffix, IsPrefix, s, t

-----------------------------------------------------------------------------
(* The state.  What the reassembler of the daemon remembers of a transfer  *)
(* begins with its first fragment, so only a last one completes a packet.  *)
FramesKept ==
    /\ down \in Seq(DownFrames)
    /\ request \in Nat /\ requests \in Nat /\ daemonTransfer \in Nat /\ boardTransfer \in Nat
    /\ \A k \in DOMAIN table : 0 \in DOMAIN table[k]

RecordsKept ==
    /\ object \in [used : BOOLEAN, pending : Seq(Nat), sequence : Nat]
    /\ Len(object.pending) <= ChunkSize
    /\ stream \in [initialized : BOOLEAN, last : Nat, bytes : Seq(Nat), lost : Nat, dropped : Nat]

Ordered == Flow(read, stream.bytes, up, object.pending, ring, line)
Bought == Buffered(read, stream.bytes, got, stream.dropped, unread)

StreamInv == FramesKept /\ RecordsKept /\ Ordered /\ Bought

LEMMA StreamStarts == Init => StreamInv
<1> SUFFICES ASSUME Init PROVE StreamInv
  OBVIOUS
<1> USE StreamAssumption DEF StreamAssumption
<1>1. FramesKept
  BY DEF Init, FramesKept
<1>2. RecordsKept
  BY DEF Init, RecordsKept, NoObject, NewStream
<1>3. /\ read = <<>> /\ stream.bytes = <<>> /\ up = <<>> /\ object.pending = <<>> /\ ring = <<>>
      /\ line = 0 /\ got = <<>> /\ stream.dropped = 0 /\ unread = 0
  BY DEF Init, NoObject, NewStream
<1>4. Fine(<<>>, 0) /\ Below(<<>>, <<>>)
  BY EmptySequence DEF Fine
<1>5. <<>> \in Seq(UpFrames) /\ Len(<<>>) = 0
  OBVIOUS
<1>6. Ordered
  BY <1>3, <1>4, <1>5 DEF Ordered, Flow
<1>7. Bought
  BY <1>3 DEF Bought, Buffered
<1> QED
  BY <1>1, <1>2, <1>6, <1>7 DEF StreamInv

(* Sequences of one and of two.                                            *)
LEMMA Pairs ==
    ASSUME NEW S, NEW f \in S, NEW l \in S
    PROVE  /\ <<f>> \in Seq(S) /\ Len(<<f>>) = 1 /\ <<f>>[1] = f
           /\ <<f, l>> \in Seq(S) /\ Len(<<f, l>>) = 2 /\ <<f, l>>[1] = f /\ <<f, l>>[2] = l
           /\ SubSeq(<<f, l>>, 1, 0) = <<>>
           /\ SubSeq(<<f, l>>, 1, 1) = <<f>>
           /\ SubSeq(<<f, l>>, 1, 2) = <<f, l>>
<1>1. /\ <<f>> \in Seq(S) /\ Len(<<f>>) = 1 /\ <<f>>[1] = f
      /\ <<f, l>> \in Seq(S) /\ Len(<<f, l>>) = 2 /\ <<f, l>>[1] = f /\ <<f, l>>[2] = l
  OBVIOUS
<1>2. SubSeq(<<f, l>>, 1, 0) = <<>>
  <2>1. SubSeq(<<f, l>>, 1, 0) \in Seq(S) /\ Len(SubSeq(<<f, l>>, 1, 0)) = 0
    BY <1>1
  <2> QED
    BY <2>1
<1>3. SubSeq(<<f, l>>, 1, 1) = <<f>>
  <2> DEFINE r == SubSeq(<<f, l>>, 1, 1)
  <2>1. r \in Seq(S) /\ Len(r) = 1 /\ r[1] = f
    BY <1>1
  <2> HIDE DEF r
  <2>2. r = <<f>>
    BY <1>1, <2>1
  <2> QED
    BY <2>2 DEF r
<1>4. SubSeq(<<f, l>>, 1, 2) = <<f, l>>
  <2> DEFINE r == SubSeq(<<f, l>>, 1, 2)
  <2>1. r \in Seq(S) /\ Len(r) = 2 /\ r[1] = f /\ r[2] = l
    BY <1>1
  <2> HIDE DEF r
  <2>2. r = <<f, l>>
    BY <1>1, <2>1
  <2> QED
    BY <2>2 DEF r
<1> QED
  BY <1>1, <1>2, <1>3, <1>4

LEMMA JoinTwice ==
    ASSUME NEW S, NEW f \in S, NEW l \in S, NEW u \in Seq(S)
    PROVE  (u \o <<f>>) \o <<l>> = u \o <<f, l>>
<1> DEFINE x == (u \o <<f>>) \o <<l>>
           y == u \o <<f, l>>
<1>1. Len(u) \in Nat
  OBVIOUS
<1>2. /\ x \in Seq(S) /\ Len(x) = Len(u) + 2
      /\ \A i \in 1..Len(u) : x[i] = u[i]
      /\ x[Len(u) + 1] = f /\ x[Len(u) + 2] = l
  BY <1>1
<1>3. /\ y \in Seq(S) /\ Len(y) = Len(u) + 2
      /\ \A i \in 1..Len(u) : y[i] = u[i]
      /\ y[Len(u) + 1] = f /\ y[Len(u) + 2] = l
  BY <1>1
<1> HIDE DEF x, y
<1>4. \A i \in 1..Len(x) : x[i] = y[i]
  <2> SUFFICES ASSUME NEW i \in 1..Len(x) PROVE x[i] = y[i]
    OBVIOUS
  <2>1. i \in 1..Len(u) \/ i = Len(u) + 1 \/ i = Len(u) + 2
    BY <1>1, <1>2
  <2> QED
    BY <1>2, <1>3, <2>1
<1>5. x = y
  BY <1>2, <1>3, <1>4
<1> QED
  BY <1>5 DEF x, y

(* The frames of a packet the board sends: none, the first or both.        *)
LEMMA SentFrames ==
    ASSUME NEW p \in EventPackets \cup AnswerPackets, NEW t \in Nat, NEW n \in SendCounts
    PROVE  LET f == Frame(p, t, 0)
               l == Frame(p, t, 1)
               v == SubSeq(Split(p, t), 1, n) IN
           /\ f \in UpFrames /\ l \in UpFrames
           /\ ~Brings(f) /\ (Brings(l) <=> p \in EventPackets) /\ Chunk(l) = p.bytes
           /\ n = 0 => v = <<>>
           /\ n = 1 => v = <<f>>
           /\ n = 2 => v = <<f, l>>
<1> DEFINE f == Frame(p, t, 0)
           l == Frame(p, t, 1)
<1>1. f \in UpFrames /\ l \in UpFrames
  BY DEF UpFrames, FramesOf
<1>2. ~Brings(f) /\ Chunk(l) = p.bytes
  BY DEF Frame, Brings, Chunk
<1>3. Brings(l) <=> p \in EventPackets
  <2>1. l.sequence = 1 /\ l.piece = p
    BY DEF Frame
  <2>2. p.kind = "event" <=> p \in EventPackets
    BY DEF EventPackets, AnswerPackets
  <2> QED
    BY <2>1, <2>2 DEF Brings
<1>4. Split(p, t) = <<f, l>>
  BY DEF Split
<1> HIDE DEF f, l
<1>5. SubSeq(<<f, l>>, 1, 0) = <<>> /\ SubSeq(<<f, l>>, 1, 1) = <<f>> /\ SubSeq(<<f, l>>, 1, 2) = <<f, l>>
  BY <1>1, Pairs, Zenon
<1> QED
  BY <1>1, <1>2, <1>3, <1>4, <1>5 DEF f, l

(* An answer, and an event that is not sent whole, brings nothing.         *)
LEMMA QuietFrames ==
    ASSUME NEW p \in EventPackets \cup AnswerPackets, NEW t \in Nat, NEW sends \in SendCounts,
           sends < 2 \/ p \in AnswerPackets
    PROVE  LET v == SubSeq(Split(p, t), 1, sends) IN
           v \in Seq(UpFrames) /\ \A i \in 1..Len(v) : ~Brings(v[i])
<1> DEFINE f == Frame(p, t, 0)
           l == Frame(p, t, 1)
           v == SubSeq(Split(p, t), 1, sends)
<1>1. /\ f \in UpFrames /\ l \in UpFrames
      /\ ~Brings(f) /\ (Brings(l) <=> p \in EventPackets)
      /\ sends = 0 => v = <<>>
      /\ sends = 1 => v = <<f>>
      /\ sends = 2 => v = <<f, l>>
  BY SentFrames
<1>2. p \in AnswerPackets => p \notin EventPackets
  BY DEF AnswerPackets, EventPackets
<1> HIDE DEF f, l
<1>3. sends \in {0, 1, 2}
  BY DEF SendCounts
<1> HIDE DEF v
<1>4. v \in Seq(UpFrames) /\ \A i \in 1..Len(v) : ~Brings(v[i])
  <2>1. CASE sends = 0
    BY <1>1, <2>1
  <2>2. CASE sends = 1
    <3>1. v = <<f>> /\ f \in UpFrames /\ ~Brings(f)
      BY <1>1, <2>2
    <3>2. v \in Seq(UpFrames) /\ Len(v) = 1 /\ v[1] = f
      BY <3>1, Pairs
    <3> QED
      BY <3>1, <3>2
  <2>3. CASE sends = 2
    <3>1. ~Brings(l) /\ v = <<f, l>>
      BY <1>1, <1>2, <2>3
    <3>2. v \in Seq(UpFrames) /\ \A i \in 1..Len(v) : v[i] = f \/ v[i] = l
      BY <1>1, <3>1
    <3> QED
      BY <1>1, <3>1, <3>2
  <2> QED
    BY <1>3, <2>1, <2>2, <2>3
<1> QED
  BY <1>4 DEF v

LEMMA NothingBrought ==
    ASSUME NEW rd, NEW by, NEW u, NEW pe, NEW ri, NEW n, Flow(rd, by, u, pe, ri, n),
           NEW p \in EventPackets \cup AnswerPackets, NEW t \in Nat, NEW sends \in SendCounts,
           sends < 2 \/ p \in AnswerPackets
    PROVE  Flow(rd, by, u \o SubSeq(Split(p, t), 1, sends), pe, ri, n)
<1> DEFINE v == SubSeq(Split(p, t), 1, sends)
<1>1. v \in Seq(UpFrames) /\ \A i \in 1..Len(v) : ~Brings(v[i])
  BY QuietFrames
<1> HIDE DEF v
<1>2. Flow(rd, by, u \o v, pe, ri, n)
  BY <1>1, FlowPosts
<1> QED
  BY <1>2 DEF v

(* An event that is sent whole takes the chunk with it.                    *)
LEMMA ChunkBrought ==
    ASSUME NEW rd, NEW by, NEW u, NEW pe, NEW ri, NEW n, Flow(rd, by, u, pe, ri, n),
           NEW p \in EventPackets, NEW t \in Nat, p.bytes = pe
    PROVE  Flow(rd, by, u \o SubSeq(Split(p, t), 1, 2), <<>>, ri, n)
<1> DEFINE f == Frame(p, t, 0)
           l == Frame(p, t, 1)
           v == SubSeq(Split(p, t), 1, 2)
<1>1. /\ f \in UpFrames /\ l \in UpFrames
      /\ ~Brings(f) /\ Brings(l) /\ Chunk(l) = pe
      /\ v = <<f, l>>
  <2>1. 2 \in SendCounts
    BY DEF SendCounts
  <2> QED
    BY <2>1, SentFrames
<1> HIDE DEF f, l, v
<1>2. <<f>> \in Seq(UpFrames) /\ \A i \in 1..Len(<<f>>) : ~Brings(<<f>>[i])
  BY <1>1
<1>3. Flow(rd, by, u \o <<f>>, pe, ri, n)
  BY <1>2, FlowPosts
<1>4. Flow(rd, by, (u \o <<f>>) \o <<l>>, <<>>, ri, n)
  BY <1>1, <1>3, FlowSends
<1>5. u \in Seq(UpFrames)
  BY DEF Flow
<1>6. (u \o <<f>>) \o <<l>> = u \o <<f, l>>
  BY <1>1, <1>5, JoinTwice, Zenon
<1> QED
  BY <1>1, <1>4, <1>6 DEF v

-----------------------------------------------------------------------------
(* The steps.                                                              *)
LEMMA Untouched ==
    ASSUME StreamInv, UNCHANGED <<line, ring, object, up, stream, got, read, unread>>, FramesKept'
    PROVE  StreamInv'
<1>1. RecordsKept'
  BY DEF StreamInv, RecordsKept
<1>2. Ordered' /\ Bought'
  BY DEF StreamInv, Ordered, Bought
<1> QED
  BY <1>1, <1>2 DEF StreamInv

LEMMA ReceiveKeeps ==
    ASSUME StreamInv, Receive
    PROVE  StreamInv'
<1>1. /\ line' = line + 1 /\ UNCHANGED <<board, down, up, daemon, client>>
      /\ ring' = ring \/ ring' = Append(ring, line + 1)
  BY DEF Receive
<1>2. FramesKept' /\ RecordsKept'
  BY <1>1 DEF StreamInv, FramesKept, RecordsKept, board, daemon, client
<1>3. Flow(read, stream.bytes, up, object.pending, ring', line + 1)
  BY <1>1, FlowGrows, FlowLater DEF StreamInv, Ordered
<1>4. Ordered'
  BY <1>1, <1>3 DEF Ordered, board, client
<1>5. Bought'
  BY <1>1 DEF StreamInv, Bought, client
<1> QED
  BY <1>2, <1>4, <1>5 DEF StreamInv

(* What rbsp_core_poll() takes from the ring fits the chunk.               *)
LEMMA PollTakes ==
    ASSUME NEW pe \in Seq(Nat), NEW ri \in Seq(Nat), Len(pe) <= ChunkSize
    PROVE  LET c == IF Len(ri) < ChunkSize - Len(pe) THEN Len(ri) ELSE ChunkSize - Len(pe) IN
           /\ c \in Nat /\ c <= Len(ri)
           /\ pe \o SubSeq(ri, 1, c) \in Seq(Nat)
           /\ Len(pe \o SubSeq(ri, 1, c)) <= ChunkSize
<1> DEFINE c == IF Len(ri) < ChunkSize - Len(pe) THEN Len(ri) ELSE ChunkSize - Len(pe)
           f == SubSeq(ri, 1, c)
<1>1. ChunkSize \in Nat /\ Len(pe) \in Nat /\ Len(ri) \in Nat
  BY StreamAssumption DEF StreamAssumption
<1>2. c \in Nat /\ c <= Len(ri) /\ Len(pe) + c <= ChunkSize
  BY <1>1
<1> HIDE DEF c
<1>3. f \in Seq(Nat) /\ Len(f) = c
  BY <1>2, CutInTwo
<1> HIDE DEF f
<1>4. pe \o f \in Seq(Nat) /\ Len(pe \o f) = Len(pe) + c
  BY <1>3, Joined
<1>5. pe \o f \in Seq(Nat) /\ Len(pe \o f) <= ChunkSize
  BY <1>2, <1>4
<1> QED
  BY <1>2, <1>5 DEF c, f

LEMMA NextTransferType == boardTransfer \in Nat => NextTransfer \in Nat
  BY DEF NextTransfer

LEMMA PollKeeps ==
    ASSUME StreamInv, Poll
    PROVE  StreamInv'
<1> DEFINE count == ReadCount(ChunkSize - Len(object.pending))
           p == object.pending \o SubSeq(ring, 1, count)
           r == SubSeq(ring, count + 1, Len(ring))
           e == Event(object.sequence + 1, p)
           Polled == /\ FramesKept'
                     /\ object' \in [used : BOOLEAN, pending : Seq(Nat), sequence : Nat]
                     /\ Len(object'.pending) <= ChunkSize
                     /\ Flow(read, stream.bytes, up', object'.pending, r, line)
<1>0. /\ object \in [used : BOOLEAN, pending : Seq(Nat), sequence : Nat]
      /\ Len(object.pending) <= ChunkSize
      /\ ring \in Seq(Nat) /\ boardTransfer \in Nat
  BY DEF StreamInv, RecordsKept, Ordered, Flow, Fine, FramesKept
<1>1. count \in Nat /\ count <= Len(ring) /\ p \in Seq(Nat) /\ Len(p) <= ChunkSize
  <2>1. object.pending \in Seq(Nat)
    BY <1>0
  <2> QED
    BY <1>0, <2>1, PollTakes DEF ReadCount
<1>2. Flow(read, stream.bytes, up, p, r, line)
  BY <1>1, FlowFills DEF StreamInv, Ordered
<1>3. e \in EventPackets /\ e.bytes = p
  BY <1>0, <1>1, SMTT(20) DEF Event, EventPackets
<1>4. /\ ring' = r
      /\ UNCHANGED <<line, overruns, slots, executed, boots, down, daemon, client>>
  BY DEF Poll
<1>5. \/ /\ object' = [object EXCEPT !.pending = p]
         /\ UNCHANGED <<up, boardTransfer>>
      \/ \E sends \in SendCounts : Sends(e, sends) /\ object' = AfterSending(p, sends)
  BY DEF Poll
<1> HIDE DEF p, r, e, count
<1>6. <<>> \in Seq(Nat) /\ Len(<<>>) <= ChunkSize /\ ChunkSize \in Nat
  BY StreamAssumption DEF StreamAssumption
<1>7. Polled
  <2>1. ASSUME object' = [object EXCEPT !.pending = p], UNCHANGED <<up, boardTransfer>>
        PROVE  Polled
    <3>1. /\ object' \in [used : BOOLEAN, pending : Seq(Nat), sequence : Nat]
          /\ object'.pending = p
      BY <1>0, <1>1, <2>1
    <3>2. FramesKept'
      BY <1>4, <2>1 DEF StreamInv, FramesKept, daemon
    <3> QED
      BY <1>1, <1>2, <2>1, <3>1, <3>2
  <2>2. ASSUME NEW sends \in SendCounts, Sends(e, sends), object' = AfterSending(p, sends)
        PROVE  Polled
    <3>1. up' = up \o SubSeq(Split(e, boardTransfer), 1, sends) /\ boardTransfer' = NextTransfer
      BY <2>2 DEF Sends
    <3>2. FramesKept'
      BY <1>0, <1>4, <3>1, NextTransferType DEF StreamInv, FramesKept, daemon
    <3>3. CASE sends = 2
      <4>1. object' = [object EXCEPT !.pending = <<>>, !.sequence = @ + 1]
        BY <2>2, <3>3 DEF AfterSending
      <4>2. /\ object' \in [used : BOOLEAN, pending : Seq(Nat), sequence : Nat]
            /\ object'.pending = <<>>
        <5>1. PICK q \in Nat : q = object.sequence + 1
          BY <1>0
        <5>2. object' = [object EXCEPT !.pending = <<>>, !.sequence = q]
          BY <4>1, <5>1
        <5> QED
          BY <1>0, <1>6, <5>2
      <4>3. Flow(read, stream.bytes, up', <<>>, r, line)
        BY <1>0, <1>2, <1>3, <3>1, <3>3, ChunkBrought
      <4> QED
        BY <1>6, <3>2, <4>2, <4>3
    <3>4. CASE sends # 2
      <4>1. object' = [object EXCEPT !.pending = p]
        BY <2>2, <3>4 DEF AfterSending
      <4>2. /\ object' \in [used : BOOLEAN, pending : Seq(Nat), sequence : Nat]
            /\ object'.pending = p
        BY <1>0, <1>1, <4>1
      <4>3. sends < 2
        BY <3>4 DEF SendCounts
      <4>4. Flow(read, stream.bytes, up', p, r, line)
        BY <1>0, <1>2, <1>3, <3>1, <4>3, NothingBrought
      <4> QED
        BY <1>1, <3>2, <4>2, <4>4
    <3> QED
      BY <3>3, <3>4
  <2> QED
    BY <1>5, <2>1, <2>2
<1>8. RecordsKept'
  BY <1>4, <1>7 DEF StreamInv, RecordsKept, client
<1>9. Ordered'
  BY <1>4, <1>7 DEF Ordered, client
<1>10. Bought'
  BY <1>4 DEF StreamInv, Bought, client
<1> QED
  BY <1>7, <1>8, <1>9, <1>10 DEF StreamInv

(* A request that reaches the board whole is one of the client's.          *)
LEMMA RequestType ==
    ASSUME NEW s, NEW f \in DownFrames, NEW packet \in SlotPackets(s, f)
    PROVE  packet.request \in Nat /\ Created(packet.request) \in AnswerPackets
<1>1. PICK p \in RequestPackets, t \in Nat, n \in {0, 1} : f = Frame(p, t, n)
  BY DEF DownFrames, FramesOf
<1>2. f.last /\ packet = f.piece
  BY DEF SlotPackets, Decoded
<1>3. packet = p
  <2>1. n = 1
    BY <1>1, <1>2 DEF Frame
  <2>2. f.piece = p
    BY <1>1, <2>1 DEF Frame
  <2> QED
    BY <1>2, <2>2
<1>4. packet.request \in Nat
  BY <1>3 DEF RequestPackets
<1> QED
  BY <1>4 DEF Created, AnswerPackets

LEMMA BoardReceivesKeeps ==
    ASSUME StreamInv, BoardReceives
    PROVE  StreamInv'
<1>0. /\ down # <<>> /\ down \in Seq(DownFrames) /\ down' = Tail(down)
      /\ UNCHANGED <<line, overruns, boots, sent, daemon, client>>
      /\ boardTransfer \in Nat
      /\ object \in [used : BOOLEAN, pending : Seq(Nat), sequence : Nat]
  BY DEF BoardReceives, StreamInv, FramesKept, RecordsKept
<1>1. Tail(down) \in Seq(DownFrames) /\ Head(down) \in DownFrames
  BY <1>0, TailOf
<1>2. Bought'
  BY <1>0 DEF StreamInv, Bought, client
<1>3. CASE UNCHANGED <<ring, object, executed, up, boardTransfer, faults>>
  <2>1. FramesKept' /\ RecordsKept'
    BY <1>0, <1>1, <1>3 DEF StreamInv, FramesKept, RecordsKept, daemon, client
  <2>2. Ordered'
    BY <1>0, <1>3 DEF StreamInv, Ordered, client
  <2> QED
    BY <1>2, <2>1, <2>2 DEF StreamInv
<1>4. ASSUME NEW packet \in SlotPackets(slots, Head(down)), NEW sends \in SendCounts,
             object' = IF Creates(packet) THEN NewObject ELSE object,
             ring' = IF Creates(packet) THEN ConfiguredRing ELSE ring,
             Sends(Created(packet.request), sends)
      PROVE  StreamInv'
  <2>1. Created(packet.request) \in AnswerPackets
    BY <1>1, RequestType
  <2>2. /\ up' = up \o SubSeq(Split(Created(packet.request), boardTransfer), 1, sends)
        /\ boardTransfer' = NextTransfer
    BY <1>4 DEF Sends
  <2>3. Flow(read, stream.bytes, up', object.pending, ring, line)
    BY <1>0, <2>1, <2>2, NothingBrought DEF StreamInv, Ordered
  <2>4. Flow(read, stream.bytes, up', <<>>, <<>>, line)
    BY <2>3, FlowEmpties
  <2>5. FramesKept'
    BY <1>0, <1>1, <2>2, NextTransferType DEF StreamInv, FramesKept, daemon
  <2>6. \/ object' = object /\ ring' = ring
        \/ object' = NewObject /\ ring' = <<>>
    BY <1>4 DEF ConfiguredRing
  <2>7. NewObject \in [used : BOOLEAN, pending : Seq(Nat), sequence : Nat] /\ NewObject.pending = <<>>
        /\ Len(<<>>) <= ChunkSize
    BY StreamAssumption DEF StreamAssumption, NewObject
  <2>8. RecordsKept'
    BY <1>0, <2>6, <2>7 DEF StreamInv, RecordsKept, client
  <2>9. Ordered'
    BY <1>0, <2>3, <2>4, <2>6, <2>7 DEF Ordered, client
  <2> QED
    BY <1>2, <2>5, <2>8, <2>9 DEF StreamInv
<1> QED
  BY <1>3, <1>4 DEF BoardReceives

LEMMA ResetKeeps ==
    ASSUME StreamInv, BoardResets
    PROVE  StreamInv'
<1>1. /\ object' = NoObject /\ boardTransfer' = 1 /\ ring' = <<>>
      /\ UNCHANGED <<line, overruns, sent, down, up, daemon, client, faults>>
  BY DEF BoardResets
<1>2. NoObject \in [used : BOOLEAN, pending : Seq(Nat), sequence : Nat] /\ NoObject.pending = <<>>
      /\ Len(<<>>) <= ChunkSize
  BY StreamAssumption DEF StreamAssumption, NoObject
<1>3. FramesKept' /\ RecordsKept'
  BY <1>1, <1>2 DEF StreamInv, FramesKept, RecordsKept, daemon, client
<1>4. Flow(read, stream.bytes, up, <<>>, <<>>, line)
  BY FlowEmpties DEF StreamInv, Ordered
<1>5. Ordered' /\ Bought'
  BY <1>1, <1>2, <1>4 DEF StreamInv, Ordered, Bought, client
<1> QED
  BY <1>3, <1>5 DEF StreamInv

(* The reassembler of the daemon: the entry of a frame, and what the frame *)
(* completes, which is the packet its last fragment shows.                 *)
Begun(t) == \A k \in DOMAIN t : 0 \in DOMAIN t[k]

LEMMA EntryOf ==
    ASSUME NEW t, NEW f, HostAccepts(t, f)
    PROVE  LET n == Pieces(HostTable(t, f), f) IN
           /\ DOMAIN n = DOMAIN Pieces(t, f) \cup {f.sequence}
           /\ n[f.sequence] = f.piece
           /\ \A k \in DOMAIN HostTable(t, f) :
                  \/ k \in DOMAIN t /\ HostTable(t, f)[k] = t[k]
                  \/ k = FrameKey(f) /\ HostTable(t, f)[k] = n
<1> DEFINE old == Pieces(t, f)
           new == [i \in DOMAIN old \cup {f.sequence} |->
                       IF i = f.sequence THEN f.piece ELSE old[i]]
<1>1. HostTable(t, f) = [k \in DOMAIN t \cup {FrameKey(f)} |->
                            IF k = FrameKey(f) THEN new ELSE t[k]]
  BY DEF HostTable
<1> HIDE DEF old
<1>2. DOMAIN new = DOMAIN old \cup {f.sequence} /\ new[f.sequence] = f.piece
  OBVIOUS
<1> HIDE DEF new
<1>3. FrameKey(f) \in DOMAIN HostTable(t, f) /\ HostTable(t, f)[FrameKey(f)] = new
  BY <1>1
<1>4. Pieces(HostTable(t, f), f) = new
  BY <1>3 DEF Pieces
<1>5. \A k \in DOMAIN HostTable(t, f) :
          \/ k \in DOMAIN t /\ HostTable(t, f)[k] = t[k]
          \/ k = FrameKey(f) /\ HostTable(t, f)[k] = new
  BY <1>1
<1> QED
  BY <1>2, <1>4, <1>5 DEF old

LEMMA FirstPiece ==
    ASSUME NEW t, Begun(t), NEW f, HostAccepts(t, f)
    PROVE  /\ FrameKey(f) \in DOMAIN t => 0 \in DOMAIN Pieces(t, f) /\ f.sequence # 0
           /\ FrameKey(f) \notin DOMAIN t => DOMAIN Pieces(t, f) = {} /\ f.sequence = 0
<1>1. CASE FrameKey(f) \in DOMAIN t
  <2>1. Pieces(t, f) = t[FrameKey(f)]
    BY <1>1 DEF Pieces
  <2>2. 0 \in DOMAIN Pieces(t, f)
    BY <1>1, <2>1 DEF Begun
  <2> QED
    BY <1>1, <2>2 DEF HostAccepts, Duplicate
<1>2. CASE FrameKey(f) \notin DOMAIN t
  <2>1. Pieces(t, f) = [i \in {} |-> 0]
    BY <1>2 DEF Pieces
  <2> QED
    BY <1>2, <2>1 DEF HostAccepts, UnknownTransfer
<1> QED
  BY <1>1, <1>2

LEMMA TableBegun ==
    ASSUME NEW t, Begun(t), NEW f
    PROVE  Begun(HostTable(t, f))
<1>1. CASE ~HostAccepts(t, f)
  BY <1>1 DEF HostTable
<1>2. CASE HostAccepts(t, f)
  <2>1. 0 \in DOMAIN Pieces(HostTable(t, f), f)
    <3>1. DOMAIN Pieces(HostTable(t, f), f) = DOMAIN Pieces(t, f) \cup {f.sequence}
      BY <1>2, EntryOf
    <3>2. 0 \in DOMAIN Pieces(t, f) \/ f.sequence = 0
      BY <1>2, FirstPiece
    <3> QED
      BY <3>1, <3>2
  <2>2. \A k \in DOMAIN HostTable(t, f) :
            \/ k \in DOMAIN t /\ HostTable(t, f)[k] = t[k]
            \/ k = FrameKey(f) /\ HostTable(t, f)[k] = Pieces(HostTable(t, f), f)
    BY <1>2, EntryOf
  <2> QED
    BY <2>1, <2>2 DEF Begun
<1> QED
  BY <1>1, <1>2

LEMMA HostCompletes ==
    ASSUME NEW t, Begun(t), NEW f \in UpFrames, NEW p \in HostPackets(t, f)
    PROVE  f.sequence = 1 /\ p = f.piece
<1> DEFINE n == Pieces(HostTable(t, f), f)
<1>1. HostAccepts(t, f) /\ Complete(n) /\ p \in Decoded(n[0], n[1])
  BY DEF HostPackets
<1>2. /\ DOMAIN n = DOMAIN Pieces(t, f) \cup {f.sequence}
      /\ n[f.sequence] = f.piece
  BY <1>1, EntryOf
<1> HIDE DEF n
<1>3. DOMAIN n = {0, 1} /\ p = n[1]
  BY <1>1 DEF Complete, Decoded
<1>4. f.sequence \in {0, 1}
  BY DEF UpFrames, FramesOf, Frame
<1>5. f.sequence # 0
  <2> SUFFICES ASSUME f.sequence = 0 PROVE FALSE
    OBVIOUS
  <2>1. DOMAIN Pieces(t, f) = {}
    BY <1>1, FirstPiece
  <2>2. DOMAIN n = {0}
    BY <1>2, <2>1
  <2> QED
    BY <1>3, <2>2
<1> QED
  BY <1>2, <1>3, <1>4, <1>5

(* The filter counts a gap and an overflow with what is really missing.    *)
LEMMA FilterCounts ==
    ASSUME stream \in [initialized : BOOLEAN, last : Nat, bytes : Seq(Nat), lost : Nat, dropped : Nat],
           NEW e \in EventPackets, Accepted(e)
    PROVE  /\ Gap(e) \in Nat
           /\ Overflow(e) \in Nat /\ Overflow(e) <= Len(stream.bytes \o e.bytes)
<1>1. e.sequence \in Nat /\ e.bytes \in Seq(Nat) /\ stream.last \in Nat /\ stream.bytes \in Seq(Nat)
  BY DEF EventPackets
<1>2. Gap(e) \in Nat
  BY <1>1 DEF Gap, Accepted
<1>3. Len(stream.bytes \o e.bytes) = Len(stream.bytes) + Len(e.bytes)
  BY <1>1, Joined
<1>4. Len(stream.bytes) \in Nat /\ Len(e.bytes) \in Nat /\ BufferSize \in Nat
  BY <1>1, StreamAssumption DEF StreamAssumption
<1> QED
  BY <1>2, <1>3, <1>4 DEF Overflow

(* What the daemon does with a frame: only the last fragment of an event   *)
(* that is newer than the last one changes the stream.                     *)
LEMMA DaemonTakes ==
    ASSUME StreamInv, DaemonReceives
    PROVE  LET f == Head(up)
               packets == HostPackets(table, f) IN
           /\ \A p \in packets : p = f.piece /\ f.sequence = 1
           /\ up' = Tail(up) /\ table' = HostTable(table, f)
           /\ UNCHANGED <<port, board, down, daemonTransfer, requests, read, unread, faults>>
           /\ \/ UNCHANGED <<stream, got>> /\ (request' = request \/ request' = 0)
              \/ \E p \in packets : p.kind = "event" /\ AcceptEvent(p) /\ request' = request
<1> DEFINE f == Head(up)
           packets == HostPackets(table, f)
<1>0. up # <<>> /\ up \in Seq(UpFrames) /\ Begun(table)
  BY DEF DaemonReceives, StreamInv, FramesKept, Ordered, Flow, Begun
<1>1. \A p \in packets : p = f.piece /\ f.sequence = 1
  <2>1. f \in UpFrames
    BY <1>0, TailOf
  <2> QED
    BY <1>0, <2>1, HostCompletes
<1> HIDE DEF f
<1>2. /\ up' = Tail(up) /\ table' = HostTable(table, f)
      /\ UNCHANGED <<port, board, down, daemonTransfer, requests, read, unread, faults>>
      /\ IF \E p \in packets : p.kind = "event"
         THEN \E p \in packets : AcceptEvent(p) /\ UNCHANGED request
         ELSE /\ request' = IF \E p \in packets : p.request = request THEN 0 ELSE request
              /\ UNCHANGED <<stream, got>>
  BY DEF DaemonReceives, f
<1> HIDE DEF packets
<1>3. CASE \E p \in packets : p.kind = "event"
  BY <1>1, <1>2, <1>3 DEF f, packets
<1>4. CASE ~\E p \in packets : p.kind = "event"
  BY <1>1, <1>2, <1>4 DEF f, packets
<1> QED
  BY <1>3, <1>4

LEMMA DaemonReceivesKeeps ==
    ASSUME StreamInv, DaemonReceives
    PROVE  StreamInv'
<1> DEFINE f == Head(up)
           packets == HostPackets(table, f)
<1>0. /\ up # <<>> /\ up \in Seq(UpFrames) /\ Begun(table) /\ request \in Nat
      /\ stream \in [initialized : BOOLEAN, last : Nat, bytes : Seq(Nat), lost : Nat, dropped : Nat]
      /\ Flow(read, stream.bytes, up, object.pending, ring, line)
      /\ Buffered(read, stream.bytes, got, stream.dropped, unread)
  BY DEF DaemonReceives, StreamInv, FramesKept, RecordsKept, Ordered, Bought, Flow, Begun
<1>1. /\ up' = Tail(up) /\ table' = HostTable(table, f)
      /\ UNCHANGED <<port, board, down, daemonTransfer, requests, read, unread, faults>>
      /\ \/ UNCHANGED <<stream, got>> /\ (request' = request \/ request' = 0)
         \/ \E p \in packets : p.kind = "event" /\ AcceptEvent(p) /\ request' = request
  BY DaemonTakes
<1>2. FramesKept'
  <2>1. Begun(table')
    BY <1>0, <1>1, TableBegun
  <2>2. request' \in Nat
    BY <1>0, <1>1
  <2> HIDE DEF f, packets
  <2> QED
    BY <1>1, <2>1, <2>2 DEF StreamInv, FramesKept, Begun, board
<1>3. /\ object' = object /\ ring' = ring /\ line' = line /\ read' = read /\ unread' = unread
  BY <1>1 DEF port, board
<1>4. ASSUME UNCHANGED <<stream, got>>
      PROVE  StreamInv'
  <2>1. Flow(read, stream.bytes, Tail(up), object.pending, ring, line)
    BY <1>0, FlowDrops
  <2>2. Ordered'
    BY <1>1, <1>3, <1>4, <2>1 DEF Ordered
  <2>3. RecordsKept' /\ Bought'
    BY <1>3, <1>4 DEF StreamInv, RecordsKept, Bought
  <2> QED
    BY <1>2, <2>2, <2>3 DEF StreamInv
<1>5. ASSUME NEW p \in packets, p.kind = "event", Accepted(p), AcceptEvent(p)
      PROVE  StreamInv'
  <2>1. f \in UpFrames /\ f.sequence = 1 /\ p = f.piece
    <3>1. f \in UpFrames
      BY <1>0, TailOf
    <3> QED
      BY <1>0, <3>1, HostCompletes
  <2> HIDE DEF f, packets
  <2>2. Brings(f) /\ Chunk(f) = p.bytes
    BY <1>5, <2>1 DEF Brings, Chunk
  <2>3. p \in EventPackets /\ p.bytes \in Seq(Nat) /\ p.sequence \in Nat
    BY <2>1, <2>2, ChunkType
  <2>4. PICK o \in Nat : o = Overflow(p) /\ o <= Len(stream.bytes \o p.bytes)
    BY <1>0, <1>5, <2>3, FilterCounts
  <2>5. PICK g \in Nat : g = Gap(p)
    BY <1>0, <1>5, <2>3, FilterCounts
  <2>6. /\ stream' = [initialized |-> TRUE, last |-> p.sequence,
                      bytes |-> Kept(stream.bytes \o p.bytes, o),
                      lost |-> stream.lost + g, dropped |-> stream.dropped + o]
        /\ got' = got \o p.bytes
    BY <1>5, <2>4, <2>5 DEF AcceptEvent
  <2>7. Flow(read, Kept(stream.bytes \o p.bytes, o), Tail(up), object.pending, ring, line)
    BY <1>0, <2>2, <2>4, FlowArrives DEF f
  <2>8. Buffered(read, Kept(stream.bytes \o p.bytes, o), got \o p.bytes, stream.dropped + o, unread)
    BY <1>0, <2>3, <2>4, BufferedArrives
  <2>9. Kept(stream.bytes \o p.bytes, o) \in Seq(Nat) /\ stream.dropped + o \in Nat
    BY <2>8 DEF Buffered
  <2>10. stream.lost + g \in Nat
    BY <1>0
  <2>11. RecordsKept'
    BY <1>3, <2>3, <2>6, <2>9, <2>10 DEF StreamInv, RecordsKept
  <2>12. Ordered' /\ Bought'
    BY <1>1, <1>3, <2>6, <2>7, <2>8 DEF Ordered, Bought
  <2> QED
    BY <1>2, <2>11, <2>12 DEF StreamInv
<1>6. ASSUME NEW p \in packets, ~Accepted(p), AcceptEvent(p)
      PROVE  UNCHANGED <<stream, got>>
  BY <1>6 DEF AcceptEvent
<1> HIDE DEF packets
<1> QED
  BY <1>1, <1>4, <1>5, <1>6

LEMMA ClientReadsKeeps ==
    ASSUME StreamInv, ClientReads
    PROVE  StreamInv'
<1>0. /\ stream \in [initialized : BOOLEAN, last : Nat, bytes : Seq(Nat), lost : Nat, dropped : Nat]
      /\ Flow(read, stream.bytes, up, object.pending, ring, line)
      /\ Buffered(read, stream.bytes, got, stream.dropped, unread)
  BY DEF StreamInv, RecordsKept, Ordered, Bought
<1>1. UNCHANGED <<port, board, down, up, daemon, got>>
  BY DEF ClientReads
<1>2. PICK n \in 1..Len(stream.bytes) :
          /\ stream' = [stream EXCEPT !.bytes = SubSeq(@, n + 1, Len(@))]
          /\ \/ read' = read \o SubSeq(stream.bytes, 1, n) /\ unread' = unread
             \/ unread' = unread + n /\ read' = read
  BY DEF ClientReads
<1> DEFINE rest == SubSeq(stream.bytes, n + 1, Len(stream.bytes))
<1>3. n \in Nat /\ n <= Len(stream.bytes)
  BY <1>0
<1>4. /\ Flow(read \o SubSeq(stream.bytes, 1, n), rest, up, object.pending, ring, line)
      /\ Flow(read, rest, up, object.pending, ring, line)
  BY <1>0, <1>3, FlowReads
<1>5. /\ Buffered(read \o SubSeq(stream.bytes, 1, n), rest, got, stream.dropped, unread)
      /\ Buffered(read, rest, got, stream.dropped, unread + n)
  BY <1>0, <1>3, BufferedReads
<1>6. stream' = [stream EXCEPT !.bytes = rest]
  BY <1>2
<1> HIDE DEF rest
<1>7. rest \in Seq(Nat)
  BY <1>5 DEF Buffered
<1>8. /\ stream' \in [initialized : BOOLEAN, last : Nat, bytes : Seq(Nat), lost : Nat, dropped : Nat]
      /\ stream'.bytes = rest /\ stream'.dropped = stream.dropped
  BY <1>0, <1>6, <1>7
<1>9. FramesKept' /\ RecordsKept'
  BY <1>1, <1>8 DEF StreamInv, FramesKept, RecordsKept, daemon, board
<1>10. Ordered' /\ Bought'
  BY <1>1, <1>2, <1>4, <1>5, <1>8 DEF Ordered, Bought, port, board
<1> QED
  BY <1>9, <1>10 DEF StreamInv

LEMMA LoseFrameKeeps ==
    ASSUME StreamInv, LoseFrame
    PROVE  StreamInv'
<1>0. /\ UNCHANGED <<port, board, daemon, client>>
      /\ down \in Seq(DownFrames)
      /\ Flow(read, stream.bytes, up, object.pending, ring, line)
  BY DEF LoseFrame, StreamInv, FramesKept, Ordered
<1>1. CASE down # <<>> /\ down' = Tail(down) /\ UNCHANGED up
  <2>1. Tail(down) \in Seq(DownFrames)
    BY <1>0, <1>1, TailOf
  <2>2. FramesKept'
    BY <1>0, <1>1, <2>1 DEF StreamInv, FramesKept, daemon, board
  <2> QED
    BY <1>0, <1>1, <2>2, Untouched DEF port, board, client
<1>2. CASE up # <<>> /\ up' = Tail(up) /\ UNCHANGED down
  <2>1. Flow(read, stream.bytes, Tail(up), object.pending, ring, line)
    BY <1>0, <1>2, FlowDrops
  <2>2. Ordered'
    BY <1>0, <1>2, <2>1 DEF Ordered, port, board, client
  <2>3. FramesKept' /\ RecordsKept' /\ Bought'
    BY <1>0, <1>2 DEF StreamInv, FramesKept, RecordsKept, Bought, daemon, board, client
  <2> QED
    BY <2>2, <2>3 DEF StreamInv
<1> QED
  BY <1>1, <1>2 DEF LoseFrame

LEMMA TransmitKeeps ==
    ASSUME StreamInv, NEW r \in Nat, Transmit(r), request' \in Nat, requests' \in Nat,
           UNCHANGED <<port, board, up, table, client>>
    PROVE  StreamInv'
<1>1. down' \in Seq(DownFrames)
  <2>1. Create(r) \in RequestPackets
    BY DEF Create, RequestPackets
  <2>2. daemonTransfer \in Nat
    BY DEF StreamInv, FramesKept
  <2>3. PICK f \in DownFrames, l \in DownFrames : down' = <<f, l>>
    <3>1. /\ Frame(Create(r), daemonTransfer, 0) \in DownFrames
          /\ Frame(Create(r), daemonTransfer, 1) \in DownFrames
      BY <2>1, <2>2 DEF DownFrames, FramesOf
    <3> QED
      BY <3>1 DEF Transmit, Split
  <2> QED
    BY <2>3, Pairs
<1>2. daemonTransfer' \in Nat
  BY StreamAssumption, SMTT(20) DEF Transmit, StreamAssumption, StreamInv, FramesKept
<1>3. FramesKept'
  BY <1>1, <1>2 DEF StreamInv, FramesKept, board
<1> QED
  BY <1>3, Untouched DEF port, board, client

LEMMA StreamStep == StreamInv /\ [Next]_vars => StreamInv'
<1> SUFFICES ASSUME StreamInv, [Next]_vars PROVE StreamInv'
  OBVIOUS
<1>1. request \in Nat /\ requests \in Nat
  BY DEF StreamInv, FramesKept
<1>2. CASE ClientCreates
  <2>1. /\ requests' = requests + 1 /\ request' = requests + 1 /\ Transmit(requests + 1)
        /\ UNCHANGED <<port, board, up, table, client>>
    BY <1>2 DEF ClientCreates
  <2>2. requests + 1 \in Nat
    BY <1>1
  <2> QED
    BY <2>1, <2>2, TransmitKeeps
<1>3. CASE Retransmit
  BY <1>1, <1>3, TransmitKeeps DEF Retransmit
<1>4. CASE DaemonGivesUp
  <2>1. request' = 0 /\ UNCHANGED <<port, board, down, up, table, daemonTransfer, requests, client>>
    BY <1>4 DEF DaemonGivesUp
  <2>2. FramesKept'
    BY <2>1 DEF StreamInv, FramesKept, board
  <2> QED
    BY <2>1, <2>2, Untouched DEF port, board, client
<1>5. ASSUME NEW s \in slots, SlotExpires(s) PROVE StreamInv'
  <2>1. UNCHANGED <<port, object, executed, boardTransfer, boots, sent, down, up, daemon, client>>
    BY <1>5 DEF SlotExpires
  <2>2. FramesKept'
    BY <2>1 DEF StreamInv, FramesKept, daemon
  <2> QED
    BY <2>1, <2>2, Untouched DEF port, client
<1>6. ASSUME NEW k \in DOMAIN table, TransferExpires(k) PROVE StreamInv'
  <2>1. /\ table' = [l \in DOMAIN table \ {k} |-> table[l]]
        /\ UNCHANGED <<port, board, down, up, daemonTransfer, request, requests, client>>
    BY <1>6 DEF TransferExpires
  <2>2. \A l \in DOMAIN table' : 0 \in DOMAIN table'[l]
    BY <2>1 DEF StreamInv, FramesKept
  <2>3. FramesKept'
    BY <2>1, <2>2 DEF StreamInv, FramesKept, board
  <2> QED
    BY <2>1, <2>3, Untouched DEF port, board, client
<1>7. CASE UNCHANGED vars
  <2>1. UNCHANGED <<port, board, down, up, daemon, client>>
    BY <1>7 DEF vars
  <2>2. FramesKept'
    BY <2>1 DEF StreamInv, FramesKept, board, daemon
  <2> QED
    BY <2>1, <2>2, Untouched DEF port, board, client
<1> QED
  BY <1>2, <1>3, <1>4, <1>5, <1>6, <1>7, ReceiveKeeps, PollKeeps, BoardReceivesKeeps, ResetKeeps,
     DaemonReceivesKeeps, ClientReadsKeeps, LoseFrameKeeps
  DEF Next

LEMMA StreamInvariant == Spec => []StreamInv
<1>1. Init => StreamInv
  BY StreamStarts
<1>2. StreamInv /\ [Next]_vars => StreamInv'
  BY StreamStep
<1> QED
  BY <1>1, <1>2, PTL DEF Spec

LEMMA OrderedIsRead == StreamInv => ReadIsInOrder
<1> SUFFICES ASSUME StreamInv PROVE ReadIsInOrder
  OBVIOUS
<1>1. Flow(read, stream.bytes, up, object.pending, ring, line)
  BY DEF StreamInv, Ordered
<1>2. Buffered(read, stream.bytes, got, stream.dropped, unread)
  BY DEF StreamInv, Bought
<1>3. Increasing(read \o stream.bytes)
  <2>1. /\ read \in Seq(Nat) /\ stream.bytes \in Seq(Nat)
        /\ Increasing(read) /\ Increasing(stream.bytes) /\ Below(read, stream.bytes)
    BY <1>1 DEF Flow, Fine
  <2> QED
    BY <2>1, JoinedIncreasing
<1>4. IsSuffix(stream.bytes, got)
  BY <1>2, BufferIsSuffix
<1>5. Len(read) + Len(stream.bytes) + stream.dropped + unread = Len(got)
  BY <1>2, BufferedFacts
<1> QED
  BY <1>3, <1>4, <1>5 DEF ReadIsInOrder

(* What a client reads of a UART comes in the order the line brought it,   *)
(* no byte twice, and every byte that reached the stream buffer of the     *)
(* daemon was read, is the newest of the buffer, was counted as pushed out *)
(* or went to a client that had gone (rbsp_core_poll, handle_can_message,  *)
(* handle_client): for rings, chunks and buffers of every size, whatever   *)
(* frames are lost, transmissions fail halfway and resets there are.       *)
THEOREM StreamIsInOrder == Spec => []ReadIsInOrder
  BY StreamInvariant, OrderedIsRead, PTL

-----------------------------------------------------------------------------
(* The account of the events of a life: q of them were sent whole, E gives *)
(* their bytes, ov are the bytes the full ring refused.  Every byte the    *)
(* line brought is in one place.                                           *)
Numbered(q, E, pe, ri, ov, n) ==
    /\ q \in Nat /\ n \in Nat /\ E \in [1..q -> Seq(Nat)]
    /\ \A s \in 1..q :
           /\ E[s] # <<>> /\ Increasing(E[s])
           /\ ToSet(E[s]) \subseteq 1..n /\ ov \cap ToSet(E[s]) = {}
           /\ Below(E[s], pe) /\ Below(E[s], ri)
    /\ \A s, t \in 1..q : s < t => Below(E[s], E[t])
    /\ ToSet(pe) \subseteq 1..n /\ ToSet(ri) \subseteq 1..n /\ ov \subseteq 1..n
    /\ ov \cap ToSet(pe) = {} /\ ov \cap ToSet(ri) = {}
    /\ \A x \in 1..n :
           \/ x \in ov \/ x \in ToSet(pe) \/ x \in ToSet(ri)
           \/ \E s \in 1..q : x \in ToSet(E[s])

(* One event more.                                                         *)
Another(q, E, c) == [s \in 1..(q + 1) |-> IF s = q + 1 THEN c ELSE E[s]]

LEMMA AnotherEvent ==
    ASSUME NEW q \in Nat, NEW E \in [1..q -> Seq(Nat)], NEW c \in Seq(Nat)
    PROVE  /\ Another(q, E, c) \in [1..(q + 1) -> Seq(Nat)]
           /\ Another(q, E, c)[q + 1] = c
           /\ \A s \in 1..q : s \in 1..(q + 1) /\ Another(q, E, c)[s] = E[s]
           /\ \A s \in 1..(q + 1) : s = q + 1 \/ s \in 1..q
<1>1. \A s \in 1..(q + 1) : s = q + 1 \/ s \in 1..q
  OBVIOUS
<1>2. \A s \in 1..q : s \in 1..(q + 1) /\ s # q + 1
  OBVIOUS
<1>3. q + 1 \in 1..(q + 1)
  OBVIOUS
<1> QED
  BY <1>1, <1>2, <1>3 DEF Another

LEMMA NumberedGrows ==
    ASSUME NEW q, NEW E, NEW pe, NEW ri, NEW ov, NEW n, Numbered(q, E, pe, ri, ov, n),
           NEW r, ToSet(r) = ToSet(ri) \cup {n + 1}
    PROVE  Numbered(q, E, pe, r, ov, n + 1)
<1>1. n \in Nat /\ q \in Nat /\ E \in [1..q -> Seq(Nat)]
  BY DEF Numbered
<1>2. 1..n \subseteq 1..(n + 1) /\ n + 1 \in 1..(n + 1) /\ n + 1 \notin 1..n
      /\ \A x \in 1..(n + 1) : x \in 1..n \/ x = n + 1
  BY <1>1
<1>3. ASSUME NEW s \in 1..q PROVE Below(E[s], r)
  <2>1. ToSet(E[s]) \subseteq 1..n /\ Below(E[s], ri)
    BY DEF Numbered
  <2>2. \A a \in 1..n : a < n + 1
    BY <1>1
  <2> QED
    BY <2>1, <2>2 DEF Below
<1>4. /\ ToSet(r) \subseteq 1..(n + 1) /\ ToSet(pe) \subseteq 1..(n + 1) /\ ov \subseteq 1..(n + 1)
      /\ ov \cap ToSet(r) = {}
  BY <1>2 DEF Numbered
<1>5. ASSUME NEW x \in 1..(n + 1)
      PROVE  \/ x \in ov \/ x \in ToSet(pe) \/ x \in ToSet(r)
             \/ \E s \in 1..q : x \in ToSet(E[s])
  BY <1>2 DEF Numbered
<1>6. \A s \in 1..q : ToSet(E[s]) \subseteq 1..(n + 1)
  BY <1>2 DEF Numbered
<1>7. n + 1 \in Nat
  BY <1>1
<1> QED
  BY <1>3, <1>4, <1>5, <1>6, <1>7 DEF Numbered

LEMMA NumberedLoses ==
    ASSUME NEW q, NEW E, NEW pe, NEW ri, NEW ov, NEW n, Numbered(q, E, pe, ri, ov, n)
    PROVE  Numbered(q, E, pe, ri, ov \cup {n + 1}, n + 1)
<1>1. n \in Nat
  BY DEF Numbered
<1>2. 1..n \subseteq 1..(n + 1) /\ n + 1 \in 1..(n + 1) /\ n + 1 \notin 1..n
      /\ \A x \in 1..(n + 1) : x \in 1..n \/ x = n + 1
  BY <1>1
<1>3. /\ ToSet(ri) \subseteq 1..(n + 1) /\ ToSet(pe) \subseteq 1..(n + 1)
      /\ ov \cup {n + 1} \subseteq 1..(n + 1)
      /\ (ov \cup {n + 1}) \cap ToSet(ri) = {} /\ (ov \cup {n + 1}) \cap ToSet(pe) = {}
  BY <1>2 DEF Numbered
<1>4. \A s \in 1..q : ToSet(E[s]) \subseteq 1..(n + 1) /\ (ov \cup {n + 1}) \cap ToSet(E[s]) = {}
  BY <1>2 DEF Numbered
<1>5. ASSUME NEW x \in 1..(n + 1)
      PROVE  \/ x \in ov \cup {n + 1} \/ x \in ToSet(pe) \/ x \in ToSet(ri)
             \/ \E s \in 1..q : x \in ToSet(E[s])
  BY <1>2 DEF Numbered
<1>6. n + 1 \in Nat
  BY <1>1
<1> QED
  BY <1>3, <1>4, <1>5, <1>6 DEF Numbered

LEMMA NumberedFills ==
    ASSUME NEW q, NEW E, NEW pe, NEW ri, NEW ov, NEW n, Numbered(q, E, pe, ri, ov, n),
           NEW p, NEW r, ToSet(p) \cup ToSet(r) = ToSet(pe) \cup ToSet(ri)
    PROVE  Numbered(q, E, p, r, ov, n)
<1>1. ASSUME NEW s \in 1..q PROVE Below(E[s], p) /\ Below(E[s], r)
  <2>1. Below(E[s], pe) /\ Below(E[s], ri)
    BY DEF Numbered
  <2>2. \A b \in ToSet(p) \cup ToSet(r) : b \in ToSet(pe) \/ b \in ToSet(ri)
    OBVIOUS
  <2> QED
    BY <2>1, <2>2 DEF Below
<1>2. /\ ToSet(p) \subseteq 1..n /\ ToSet(r) \subseteq 1..n
      /\ ov \cap ToSet(p) = {} /\ ov \cap ToSet(r) = {}
  BY DEF Numbered
<1>3. ASSUME NEW x \in 1..n
      PROVE  \/ x \in ov \/ x \in ToSet(p) \/ x \in ToSet(r)
             \/ \E s \in 1..q : x \in ToSet(E[s])
  BY DEF Numbered
<1> QED
  BY <1>1, <1>2, <1>3 DEF Numbered

LEMMA NumberedSends ==
    ASSUME NEW q, NEW E, NEW pe, NEW ri, NEW ov, NEW n, Numbered(q, E, pe, ri, ov, n),
           pe \in Seq(Nat), pe # <<>>, Increasing(pe), Below(pe, ri)
    PROVE  Numbered(q + 1, Another(q, E, pe), <<>>, ri, ov, n)
<1>1. n \in Nat /\ q \in Nat /\ E \in [1..q -> Seq(Nat)]
  BY DEF Numbered
<1> DEFINE F == Another(q, E, pe)
<1> HIDE DEF F
<1>2. /\ F \in [1..(q + 1) -> Seq(Nat)] /\ F[q + 1] = pe
      /\ \A s \in 1..q : s \in 1..(q + 1) /\ F[s] = E[s]
      /\ \A s \in 1..(q + 1) : s = q + 1 \/ s \in 1..q
  <2>1. F = Another(q, E, pe)
    BY DEF F
  <2>2. q \in Nat
    BY <1>1
  <2>3. E \in [1..q -> Seq(Nat)]
    BY <1>1
  <2>4. /\ Another(q, E, pe) \in [1..(q + 1) -> Seq(Nat)]
        /\ Another(q, E, pe)[q + 1] = pe
        /\ \A s \in 1..q : s \in 1..(q + 1) /\ Another(q, E, pe)[s] = E[s]
        /\ \A s \in 1..(q + 1) : s = q + 1 \/ s \in 1..q
    BY <2>2, <2>3, AnotherEvent, Zenon
  <2> QED
    BY <2>1, <2>4, Zenon
<1>3. /\ ToSet(<<>>) = {} /\ \A s : Below(s, <<>>)
  BY EmptySequence
<1>4. ASSUME NEW s \in 1..(q + 1)
      PROVE  /\ F[s] # <<>> /\ Increasing(F[s])
             /\ ToSet(F[s]) \subseteq 1..n /\ ov \cap ToSet(F[s]) = {}
             /\ Below(F[s], <<>>) /\ Below(F[s], ri)
  <2>1. CASE s = q + 1
    BY <1>2, <1>3, <2>1 DEF Numbered
  <2>2. CASE s \in 1..q
    BY <1>2, <1>3, <2>2 DEF Numbered
  <2> QED
    BY <1>2, <2>1, <2>2
<1>5. ASSUME NEW s \in 1..(q + 1), NEW t \in 1..(q + 1), s < t PROVE Below(F[s], F[t])
  <2>1. s \in 1..q
    BY <1>1, <1>5
  <2>2. CASE t = q + 1
    BY <1>2, <2>1, <2>2 DEF Numbered
  <2>3. CASE t \in 1..q
    BY <1>2, <1>5, <2>1, <2>3 DEF Numbered
  <2> QED
    BY <1>2, <2>2, <2>3
<1>6. ASSUME NEW x \in 1..n
      PROVE  \/ x \in ov \/ x \in ToSet(ri)
             \/ \E s \in 1..(q + 1) : x \in ToSet(F[s])
  <2>1. CASE x \in ToSet(pe)
    <3>1. q + 1 \in 1..(q + 1)
      BY <1>1
    <3> QED
      BY <1>2, <2>1, <3>1
  <2>2. CASE \E s \in 1..q : x \in ToSet(E[s])
    BY <1>2, <2>2
  <2> QED
    BY <2>1, <2>2 DEF Numbered
<1>7. q + 1 \in Nat
  BY <1>1
<1>8. /\ ToSet(<<>>) \subseteq 1..n /\ ToSet(ri) \subseteq 1..n /\ ov \subseteq 1..n
      /\ ov \cap ToSet(<<>>) = {} /\ ov \cap ToSet(ri) = {}
  BY <1>3 DEF Numbered
<1> QED
  BY <1>1, <1>2, <1>4, <1>5, <1>6, <1>7, <1>8 DEF Numbered, F

(* The last fragments on the bus bring whole events, in the order of their *)
(* numbers, and none the daemon has seen.                                  *)
Number(f) == f.piece.sequence

Travelling(q, E, u, ini, last) ==
    /\ \A i \in 1..Len(u) : Brings(u[i]) =>
           /\ Number(u[i]) \in 1..q /\ E[Number(u[i])] = Chunk(u[i])
           /\ ini => last < Number(u[i])
    /\ \A i, j \in 1..Len(u) : i < j /\ Brings(u[i]) /\ Brings(u[j]) => Number(u[i]) < Number(u[j])

LEMMA TravellingPosts ==
    ASSUME NEW q, NEW E, NEW u \in Seq(UpFrames), NEW ini, NEW last, Travelling(q, E, u, ini, last),
           NEW v \in Seq(UpFrames), \A i \in 1..Len(v) : ~Brings(v[i])
    PROVE  Travelling(q, E, u \o v, ini, last)
<1> DEFINE w == u \o v
<1>1. Len(u) \in Nat /\ Len(v) \in Nat
  OBVIOUS
<1>2. /\ w \in Seq(UpFrames) /\ Len(w) = Len(u) + Len(v)
      /\ \A i \in 1..Len(u) : w[i] = u[i]
      /\ \A i \in 1..(Len(u) + Len(v)) : i > Len(u) => w[i] = v[i - Len(u)]
  BY <1>1, Joined
<1> HIDE DEF w
<1>3. ASSUME NEW i \in 1..Len(w), Brings(w[i]) PROVE i \in 1..Len(u) /\ w[i] = u[i]
  <2>1. ASSUME i > Len(u) PROVE FALSE
    <3>1. i - Len(u) \in 1..Len(v) /\ i \in 1..(Len(u) + Len(v))
      BY <1>1, <1>2, <2>1
    <3>2. w[i] = v[i - Len(u)]
      BY <1>2, <2>1, <3>1
    <3> QED
      BY <1>3, <3>1, <3>2
  <2>2. i \in 1..Len(u)
    BY <1>1, <1>2, <2>1
  <2> QED
    BY <1>2, <2>2
<1>4. Travelling(q, E, w, ini, last)
  BY <1>2, <1>3 DEF Travelling
<1> QED
  BY <1>4 DEF w

LEMMA TravellingSends ==
    ASSUME NEW q \in Nat, NEW E \in [1..q -> Seq(Nat)], NEW u \in Seq(UpFrames), NEW ini, NEW last,
           Travelling(q, E, u, ini, last), ini => last \in 1..q,
           NEW f \in UpFrames, Brings(f), Number(f) = q + 1, NEW c \in Seq(Nat), Chunk(f) = c
    PROVE  Travelling(q + 1, Another(q, E, c), u \o <<f>>, ini, last)
<1> DEFINE F == Another(q, E, c)
           w == u \o <<f>>
<1>0. q \in Nat /\ E \in [1..q -> Seq(Nat)] /\ c \in Seq(Nat)
  OBVIOUS
<1>1. Len(u) \in Nat
  OBVIOUS
<1>2. /\ w \in Seq(UpFrames) /\ Len(w) = Len(u) + 1
      /\ \A i \in 1..Len(u) : w[i] = u[i]
      /\ w[Len(u) + 1] = f
  BY <1>1
<1>3. F[q + 1] = c /\ \A s \in 1..q : s \in 1..(q + 1) /\ F[s] = E[s]
  <2>1. /\ Another(q, E, c) \in [1..(q + 1) -> Seq(Nat)]
        /\ Another(q, E, c)[q + 1] = c
        /\ \A s \in 1..q : s \in 1..(q + 1) /\ Another(q, E, c)[s] = E[s]
        /\ \A s \in 1..(q + 1) : s = q + 1 \/ s \in 1..q
    BY ONLY <1>0, AnotherEvent, Zenon
  <2> QED
    BY <2>1
<1> HIDE DEF F, w
<1>4. \A i \in 1..Len(w) : i \in 1..Len(u) \/ i = Len(u) + 1
  BY <1>1, <1>2
<1>5. /\ q + 1 \in 1..(q + 1) /\ \A s \in 1..q : s < q + 1
      /\ ini => last < q + 1
  OBVIOUS
<1>6. ASSUME NEW i \in 1..Len(w), Brings(w[i])
      PROVE  /\ Number(w[i]) \in 1..(q + 1) /\ F[Number(w[i])] = Chunk(w[i])
             /\ ini => last < Number(w[i])
  <2>1. CASE i \in 1..Len(u)
    <3>1. /\ Brings(u[i]) /\ w[i] = u[i] /\ Number(u[i]) \in 1..q /\ E[Number(u[i])] = Chunk(u[i])
          /\ ini => last < Number(u[i])
      BY <1>2, <1>6, <2>1 DEF Travelling
    <3> QED
      BY <1>3, <3>1
  <2>2. CASE i = Len(u) + 1
    BY <1>2, <1>3, <1>5, <2>2
  <2> QED
    BY <1>4, <2>1, <2>2
<1>7. ASSUME NEW i \in 1..Len(w), NEW j \in 1..Len(w), i < j, Brings(w[i]), Brings(w[j])
      PROVE  Number(w[i]) < Number(w[j])
  <2>1. i \in 1..Len(u) /\ w[i] = u[i] /\ Number(u[i]) \in 1..q
    <3>1. i \in 1..Len(u)
      BY <1>1, <1>2, <1>7
    <3> QED
      BY <1>2, <1>7, <3>1 DEF Travelling
  <2>2. CASE j \in 1..Len(u)
    BY <1>2, <1>7, <2>1, <2>2 DEF Travelling
  <2>3. CASE j = Len(u) + 1
    BY <1>2, <1>5, <2>1, <2>3
  <2> QED
    BY <1>4, <2>2, <2>3
<1>8. Travelling(q + 1, F, w, ini, last)
  BY <1>6, <1>7 DEF Travelling
<1> QED
  BY <1>8 DEF F, w

LEMMA TravellingDrops ==
    ASSUME NEW q, NEW E, NEW u \in Seq(UpFrames), NEW ini, NEW last, Travelling(q, E, u, ini, last),
           u # <<>>
    PROVE  /\ Travelling(q, E, Tail(u), ini, last)
           /\ Brings(Head(u)) =>
                  /\ Number(Head(u)) \in 1..q /\ E[Number(Head(u))] = Chunk(Head(u))
                  /\ ini => last < Number(Head(u))
                  /\ Travelling(q, E, Tail(u), TRUE, Number(Head(u)))
<1> DEFINE w == Tail(u)
<1>1. /\ w \in Seq(UpFrames) /\ Len(w) = Len(u) - 1 /\ Len(u) \in Nat \ {0} /\ Head(u) = u[1]
      /\ \A i \in 1..Len(w) : i + 1 \in 1..Len(u) /\ w[i] = u[i + 1]
  BY TailOf
<1> HIDE DEF w
<1>2. \A i \in 1..Len(w) : Brings(w[i]) =>
          /\ Number(w[i]) \in 1..q /\ E[Number(w[i])] = Chunk(w[i])
          /\ ini => last < Number(w[i])
  BY <1>1 DEF Travelling
<1>3. ASSUME NEW i \in 1..Len(w), NEW j \in 1..Len(w), i < j, Brings(w[i]), Brings(w[j])
      PROVE  Number(w[i]) < Number(w[j])
  <2>1. i + 1 \in 1..Len(u) /\ j + 1 \in 1..Len(u) /\ i + 1 < j + 1
    BY <1>1, <1>3
  <2> QED
    BY <1>1, <1>3, <2>1 DEF Travelling
<1>4. Travelling(q, E, w, ini, last)
  BY <1>2, <1>3 DEF Travelling
<1>5. 1 \in 1..Len(u) /\ \A i \in 1..Len(w) : 1 < i + 1
  BY <1>1
<1>6. ASSUME Brings(Head(u))
      PROVE  /\ Number(Head(u)) \in 1..q /\ E[Number(Head(u))] = Chunk(Head(u))
             /\ ini => last < Number(Head(u))
             /\ Travelling(q, E, w, TRUE, Number(Head(u)))
  <2>1. /\ Number(Head(u)) \in 1..q /\ E[Number(Head(u))] = Chunk(Head(u))
        /\ ini => last < Number(Head(u))
    BY <1>1, <1>5, <1>6 DEF Travelling
  <2>2. ASSUME NEW i \in 1..Len(w), Brings(w[i]) PROVE Number(Head(u)) < Number(w[i])
    <3>1. i + 1 \in 1..Len(u) /\ 1 < i + 1 /\ w[i] = u[i + 1] /\ 1 \in 1..Len(u) /\ Head(u) = u[1]
      BY <1>1, <1>5
    <3>2. Brings(u[1]) /\ Brings(u[i + 1])
      BY <1>6, <2>2, <3>1
    <3>3. Number(u[1]) < Number(u[i + 1])
      BY <3>1, <3>2 DEF Travelling
    <3> QED
      BY <3>1, <3>3
  <2>3. Travelling(q, E, w, TRUE, Number(Head(u)))
    BY <1>2, <1>3, <2>2 DEF Travelling
  <2> QED
    BY <2>1, <2>3
<1> QED
  BY <1>4, <1>6 DEF w

Missing(D, first, last) == Cardinality((first..last) \ D)
Within(D, first, last) == D \subseteq first..last

(* What the daemon counted: D are the events it accepted, first the oldest *)
(* and last the newest of them.                                            *)
Delivered(q, E, D, first, last, lost, gt) ==
    /\ D \subseteq 1..q /\ first \in D /\ last \in D
    /\ \A s \in D : first <= s /\ s <= last
    /\ gt # <<>> /\ gt[1] = E[first][1] /\ gt[Len(gt)] = E[last][Len(E[last])]
    /\ \A x : x \in ToSet(gt) <=> \E s \in D : x \in ToSet(E[s])
    /\ lost = Missing(D, first, last)

Counted(q, E, ini, last, lost, gt) ==
    /\ gt \in Seq(Nat) /\ lost \in Nat
    /\ ~ini => gt = <<>> /\ lost = 0
    /\ ini => \E D, first : Delivered(q, E, D, first, last, lost, gt)

LEMMA CountedSends ==
    ASSUME NEW q \in Nat, NEW E \in [1..q -> Seq(Nat)], NEW ini, NEW last, NEW lost, NEW gt,
           Counted(q, E, ini, last, lost, gt), NEW c \in Seq(Nat)
    PROVE  Counted(q + 1, Another(q, E, c), ini, last, lost, gt)
<1> DEFINE F == Another(q, E, c)
<1>1. \A s \in 1..q : s \in 1..(q + 1) /\ F[s] = E[s]
  <2>1. /\ Another(q, E, c) \in [1..(q + 1) -> Seq(Nat)]
        /\ Another(q, E, c)[q + 1] = c
        /\ \A s \in 1..q : s \in 1..(q + 1) /\ Another(q, E, c)[s] = E[s]
        /\ \A s \in 1..(q + 1) : s = q + 1 \/ s \in 1..q
    BY AnotherEvent, Zenon
  <2> QED
    BY <2>1
<1> HIDE DEF F
<1>2. ASSUME NEW D, NEW first, Delivered(q, E, D, first, last, lost, gt)
      PROVE  Delivered(q + 1, F, D, first, last, lost, gt)
  <2>1. D \subseteq 1..q /\ first \in D /\ last \in D
    BY <1>2 DEF Delivered
  <2>2. D \subseteq 1..(q + 1) /\ \A s \in D : F[s] = E[s]
    BY <1>1, <2>1
  <2>3. \A x : x \in ToSet(gt) <=> \E s \in D : x \in ToSet(F[s])
    BY <1>2, <2>2 DEF Delivered
  <2>4. gt[1] = F[first][1] /\ gt[Len(gt)] = F[last][Len(F[last])]
    BY <1>2, <2>1, <2>2 DEF Delivered
  <2> QED
    BY <1>2, <2>2, <2>3, <2>4 DEF Delivered
<1>3. Counted(q + 1, F, ini, last, lost, gt)
  BY <1>2 DEF Counted
<1> QED
  BY <1>3 DEF F

LEMMA JoinedEnds ==
    ASSUME NEW s \in Seq(Nat), NEW t \in Seq(Nat), t # <<>>
    PROVE  /\ s \o t \in Seq(Nat) /\ s \o t # <<>> /\ (s \o t)[Len(s \o t)] = t[Len(t)]
           /\ s # <<>> => (s \o t)[1] = s[1]
           /\ s = <<>> => (s \o t)[1] = t[1]
<1> DEFINE r == s \o t
<1>1. /\ r \in Seq(Nat) /\ Len(r) = Len(s) + Len(t)
      /\ \A i \in 1..Len(s) : r[i] = s[i]
      /\ \A i \in 1..Len(t) : r[Len(s) + i] = t[i]
      /\ Len(s) \in Nat /\ Len(t) \in Nat
  BY Joined
<1>2. Len(t) # 0 /\ (s # <<>> <=> Len(s) # 0)
  OBVIOUS
<1> HIDE DEF r
<1>3. Len(t) \in 1..Len(t) /\ 1 \in 1..Len(t) /\ (Len(s) # 0 => 1 \in 1..Len(s))
  BY <1>1, <1>2
<1>4. r[Len(r)] = t[Len(t)]
  BY <1>1, <1>3
<1>5. s # <<>> => r[1] = s[1]
  BY <1>1, <1>2, <1>3
<1>6. s = <<>> => r[1] = t[1]
  <2> SUFFICES ASSUME s = <<>> PROVE r[1] = t[1]
    OBVIOUS
  <2>1. r[Len(s) + 1] = t[1] /\ Len(s) = 0
    BY <1>1, <1>2, <1>3
  <2> QED
    BY <2>1
<1>7. r # <<>>
  <2>1. Len(r) # 0
    BY <1>1, <1>2
  <2> QED
    BY <2>1
<1> QED
  BY <1>1, <1>4, <1>5, <1>6, <1>7 DEF r

(* The events between the last one accepted and a newer one are missing.   *)
LEMMA GapSize ==
    ASSUME NEW D, NEW first \in Nat, NEW last \in Nat, NEW m \in Nat, first <= last, last < m,
           Within(D, first, last)
    PROVE  Missing(D \cup {m}, first, m) = Missing(D, first, last) + (m - last - 1)
<1> DEFINE a == (first..last) \ D
           b == (last + 1)..(m - 1)
<1>0. D \subseteq first..last
  BY DEF Within
<1>1. (first..m) \ (D \cup {m}) = a \cup b
  <2>1. ASSUME NEW x \in first..m, x \notin D, x # m PROVE x \in a \cup b
    <3>1. x \in first..last \/ x \in b
      BY <2>1
    <3> QED
      BY <2>1, <3>1
  <2>2. ASSUME NEW x \in a PROVE x \in first..m /\ x \notin D /\ x # m
    OBVIOUS
  <2>3. ASSUME NEW x \in b PROVE x \in first..m /\ x \notin D /\ x # m
    <3>1. x \in first..m /\ x # m /\ ~(x <= last)
      OBVIOUS
    <3> QED
      BY <1>0, <3>1
  <2> HIDE DEF a, b
  <2> QED
    BY <2>1, <2>2, <2>3
<1>2. IsFiniteSet(a)
  <2>1. IsFiniteSet(first..last)
    BY FS_Interval
  <2> QED
    BY <2>1, FS_Difference
<1>3. IsFiniteSet(b) /\ Cardinality(b) = m - last - 1
  <2>1. last + 1 \in Int /\ m - 1 \in Int
    OBVIOUS
  <2>2. /\ IsFiniteSet((last + 1)..(m - 1))
        /\ Cardinality((last + 1)..(m - 1)) =
               IF last + 1 > m - 1 THEN 0 ELSE (m - 1) - (last + 1) + 1
    BY <2>1, FS_Interval
  <2> QED
    BY <2>2
<1>4. a \cap b = {}
  OBVIOUS
<1> HIDE DEF a, b
<1>5. Cardinality(a \cup b) = Cardinality(a) + Cardinality(b) - Cardinality(a \cap b)
  BY <1>2, <1>3, FS_Union
<1>6. Cardinality(a \cap b) = 0 /\ Cardinality(a) \in Nat
  BY <1>2, <1>4, FS_EmptySet, FS_CardinalityType
<1>7. Cardinality(a \cup b) = Cardinality(a) + (m - last - 1)
  BY <1>3, <1>5, <1>6
<1> QED
  BY <1>1, <1>7 DEF a, b, Missing

LEMMA CountedArrives ==
    ASSUME NEW q \in Nat, NEW E \in [1..q -> Seq(Nat)], NEW ini \in BOOLEAN, NEW last \in Nat,
           NEW lost, NEW gt, Counted(q, E, ini, last, lost, gt),
           NEW m \in 1..q, E[m] # <<>>, ini => last < m
    PROVE  Counted(q, E, TRUE, m, lost + (IF ini THEN m - last - 1 ELSE 0), gt \o E[m])
<1> DEFINE g == gt \o E[m]
           k == lost + (IF ini THEN m - last - 1 ELSE 0)
<1>1. gt \in Seq(Nat) /\ E[m] \in Seq(Nat) /\ lost \in Nat /\ m \in Nat
  BY DEF Counted
<1>2. /\ g \in Seq(Nat) /\ g # <<>> /\ g[Len(g)] = E[m][Len(E[m])]
      /\ gt # <<>> => g[1] = gt[1]
      /\ gt = <<>> => g[1] = E[m][1]
  BY <1>1, JoinedEnds
<1>3. ToSet(g) = ToSet(gt) \cup ToSet(E[m])
  BY <1>1, Joined
<1> HIDE DEF g
<1>4. k \in Nat
  BY <1>1
<1>5. CASE ~ini
  <2>1. gt = <<>> /\ k = 0
    BY <1>5 DEF Counted
  <2>2. \A x : x \in ToSet(g) <=> \E s \in {m} : x \in ToSet(E[s])
    BY <1>3, <2>1, EmptySequence
  <2>3. Missing({m}, m, m) = 0
    <3>1. (m..m) \ {m} = {}
      BY <1>1
    <3> QED
      BY <3>1, FS_EmptySet DEF Missing
  <2> HIDE DEF k
  <2>4. Delivered(q, E, {m}, m, m, k, g)
    BY <1>1, <1>2, <2>1, <2>2, <2>3 DEF Delivered
  <2>5. Counted(q, E, TRUE, m, k, g)
    BY <1>2, <1>4, <2>4 DEF Counted
  <2> QED
    BY <2>5 DEF g, k
<1>6. CASE ini
  <2>1. PICK D, first : Delivered(q, E, D, first, last, lost, gt)
    BY <1>6 DEF Counted
  <2>2. k = lost + (m - last - 1)
    BY <1>6
  <2> HIDE DEF k
  <2>3. /\ D \subseteq 1..q /\ first \in D /\ last \in D
        /\ \A s \in D : first <= s /\ s <= last
        /\ lost = Missing(D, first, last)
    BY <2>1 DEF Delivered
  <2>4. first \in Nat /\ first <= last /\ last < m /\ \A s \in D : s \in Nat
    BY <1>6, <2>3
  <2>5. k = Missing(D \cup {m}, first, m)
    <3>1. Within(D, first, last)
      BY <2>3, <2>4 DEF Within
    <3>2. first \in Nat /\ last \in Nat /\ m \in Nat /\ first <= last /\ last < m
      BY <1>1, <2>4
    <3>3. Missing(D \cup {m}, first, m) = Missing(D, first, last) + (m - last - 1)
      BY ONLY <3>1, <3>2, GapSize, Zenon
    <3> QED
      BY <2>2, <2>3, <3>3
  <2>6. \A s \in D \cup {m} : first <= s /\ s <= m
    <3>1. ASSUME NEW s \in D PROVE first <= s /\ s <= m
      BY <1>1, <2>3, <2>4
    <3> QED
      BY <1>1, <2>4, <3>1
  <2>7. \A x : x \in ToSet(g) <=> \E s \in D \cup {m} : x \in ToSet(E[s])
    BY <1>3, <2>1 DEF Delivered
  <2>8. g[1] = E[first][1]
    BY <1>2, <2>1 DEF Delivered
  <2>9. Delivered(q, E, D \cup {m}, first, m, k, g)
    BY <1>2, <2>3, <2>5, <2>6, <2>7, <2>8 DEF Delivered
  <2>10. Counted(q, E, TRUE, m, k, g)
    BY <1>2, <1>4, <2>9 DEF Counted
  <2> QED
    BY <2>10 DEF g, k
<1> QED
  BY <1>5, <1>6

(* What is between the oldest and the newest byte accepted and was neither *)
(* accepted nor refused by the ring is in an event that did not arrive.    *)
LEMMA Ends ==
    ASSUME NEW s \in Seq(Nat), s # <<>>, Increasing(s)
    PROVE  /\ s[1] \in ToSet(s) /\ s[Len(s)] \in ToSet(s) /\ DOMAIN s = 1..Len(s)
           /\ \A x \in ToSet(s) : x \in Nat /\ s[1] <= x /\ x <= s[Len(s)]
<1>1. Len(s) \in Nat \ {0} /\ DOMAIN s = 1..Len(s)
  OBVIOUS
<1>2. 1 \in 1..Len(s) /\ Len(s) \in 1..Len(s)
  BY <1>1
<1>3. \A i \in 1..Len(s) : s[i] \in ToSet(s) /\ s[i] \in Nat
  BY Elements
<1>4. ASSUME NEW i \in 1..Len(s) PROVE s[1] <= s[i] /\ s[i] <= s[Len(s)]
  <2>1. s[1] \in Nat /\ s[i] \in Nat /\ s[Len(s)] \in Nat
    BY <1>2, <1>3
  <2>2. i = 1 \/ 1 < i
    BY <1>1
  <2>3. i = Len(s) \/ i < Len(s)
    <3>1. PICK n \in Nat : n = Len(s)
      BY <1>1
    <3>2. i \in 1..n
      BY <3>1
    <3>3. i = n \/ i < n
      BY <3>2
    <3> QED
      BY <3>1, <3>3
  <2>4. 1 < i => s[1] < s[i]
    BY <1>1, <1>2 DEF Increasing
  <2>5. i < Len(s) => s[i] < s[Len(s)]
    BY <1>1, <1>2 DEF Increasing
  <2>6. s[1] <= s[i]
    BY <2>1, <2>2, <2>4
  <2>7. s[i] <= s[Len(s)]
    BY <2>1, <2>3, <2>5
  <2> QED
    BY <2>6, <2>7
<1>5. \A x \in ToSet(s) : \E i \in 1..Len(s) : x = s[i]
  BY <1>1 DEF ToSet
<1> QED
  BY <1>1, <1>2, <1>3, <1>4, <1>5

LEMMA LostAre ==
    ASSUME NEW q, NEW E, NEW pe, NEW ri, NEW ov, NEW n, Numbered(q, E, pe, ri, ov, n),
           NEW D, NEW first, NEW last, NEW lost, NEW gt \in Seq(Nat),
           Delivered(q, E, D, first, last, lost, gt)
    PROVE  LET L == (first..last) \ D
               between == gt[1]..gt[Len(gt)] IN
           /\ L \subseteq 1..q
           /\ \A s \in 1..q : s \in L <=> /\ \A i \in DOMAIN E[s] : E[s][i] \in between
                                          /\ ~ToSet(E[s]) \subseteq ToSet(gt)
           /\ \A x : x \in between \ (ToSet(gt) \cup ov) <=> \E s \in L : x \in ToSet(E[s])
<1> DEFINE L == (first..last) \ D
           a == gt[1]
           z == gt[Len(gt)]
<1>1. /\ q \in Nat /\ n \in Nat
      /\ \A s \in 1..q : /\ E[s] \in Seq(Nat) /\ E[s] # <<>> /\ Increasing(E[s])
                         /\ ToSet(E[s]) \subseteq 1..n /\ ov \cap ToSet(E[s]) = {}
  BY DEF Numbered
<1>2. /\ D \subseteq 1..q /\ first \in 1..q /\ last \in 1..q /\ first \in D /\ last \in D
      /\ \A s \in D : first <= s /\ s <= last
      /\ \A x : x \in ToSet(gt) <=> \E s \in D : x \in ToSet(E[s])
      /\ a = E[first][1] /\ z = E[last][Len(E[last])]
  BY DEF Delivered
<1>3. \A s \in 1..q :
          /\ E[s][1] \in ToSet(E[s]) /\ E[s][Len(E[s])] \in ToSet(E[s])
          /\ DOMAIN E[s] = 1..Len(E[s])
          /\ \A x \in ToSet(E[s]) : x \in Nat /\ E[s][1] <= x /\ x <= E[s][Len(E[s])]
  BY <1>1, Ends
<1>4. /\ a \in ToSet(E[first]) /\ z \in ToSet(E[last]) /\ a \in 1..n /\ z \in 1..n
      /\ \A x \in ToSet(E[first]) : a <= x
      /\ \A x \in ToSet(E[last]) : x <= z
  <2>1. a \in ToSet(E[first]) /\ \A x \in ToSet(E[first]) : a <= x
    BY <1>2, <1>3
  <2>2. z \in ToSet(E[last]) /\ \A x \in ToSet(E[last]) : x <= z
    BY <1>2, <1>3
  <2> QED
    BY <1>1, <1>2, <2>1, <2>2
<1>5. \A s, t \in 1..q : s < t => \A x \in ToSet(E[s]), y \in ToSet(E[t]) : x < y
  BY DEF Numbered, Below
<1> HIDE DEF a, z
<1>6. ASSUME NEW s \in 1..q, NEW x \in ToSet(E[s])
      PROVE  /\ x \in Nat
             /\ s < first => x < a
             /\ s > last => x > z
             /\ s \in first..last => a <= x /\ x <= z
  <2>0. x \in Nat /\ x \in 1..n
    <3>1. ToSet(E[s]) \subseteq 1..n
      BY <1>1
    <3>2. x \in 1..n
      BY <3>1
    <3> QED
      BY <1>1, <3>2
  <2>1. s < first => x < a
    BY <1>2, <1>4, <1>5
  <2>2. s > last => x > z
    <3>1. s > last => z < x
      BY <1>1, <1>2, <1>4, <1>5
    <3> QED
      BY <1>4, <2>0, <3>1
  <2>3. s \in first..last => a <= x
    <3>1. CASE s = first
      BY <1>4, <3>1
    <3>2. CASE first < s
      <4>1. a < x
        BY <1>2, <1>4, <1>5, <3>2
      <4> QED
        BY <1>4, <2>0, <4>1
    <3> QED
      BY <1>1, <1>2, <3>1, <3>2
  <2>4. s \in first..last => x <= z
    <3>1. CASE s = last
      BY <1>4, <3>1
    <3>2. CASE s < last
      <4>1. x < z
        BY <1>2, <1>4, <1>5, <3>2
      <4> QED
        BY <1>4, <2>0, <4>1
    <3> QED
      BY <1>1, <1>2, <3>1, <3>2
  <2> QED
    BY <2>0, <2>1, <2>2, <2>3, <2>4
<1>7. L \subseteq 1..q
  BY <1>1, <1>2
(* Different events have no byte in common.                                *)
<1>8. ASSUME NEW s \in 1..q, NEW t \in 1..q, NEW x, x \in ToSet(E[s]), x \in ToSet(E[t])
      PROVE  s = t
  <2>1. x \in Nat
    BY <1>6, <1>8
  <2>2. s < t => x < x
    BY <1>5, <1>8
  <2>3. t < s => x < x
    BY <1>5, <1>8
  <2> QED
    BY <1>1, <2>1, <2>2, <2>3
<1>9. ASSUME NEW s \in 1..q, s \notin D, NEW x \in ToSet(E[s]) PROVE x \notin ToSet(gt)
  BY <1>2, <1>8, <1>9
<1>10. ASSUME NEW s \in 1..q
       PROVE  s \in L <=> /\ \A i \in DOMAIN E[s] : E[s][i] \in a..z
                          /\ ~ToSet(E[s]) \subseteq ToSet(gt)
  <2>1. E[s][1] \in ToSet(E[s]) /\ 1 \in DOMAIN E[s] /\ \A i \in DOMAIN E[s] : E[s][i] \in ToSet(E[s])
    <3>1. E[s] \in Seq(Nat) /\ E[s] # <<>>
      BY <1>1
    <3>2. Len(E[s]) \in Nat \ {0}
      BY <3>1
    <3>3. 1 \in 1..Len(E[s])
      BY <3>2
    <3> QED
      BY <1>3, <3>1, <3>3, Elements
  <2>2. ASSUME s \in L
        PROVE  /\ \A i \in DOMAIN E[s] : E[s][i] \in a..z
               /\ ~ToSet(E[s]) \subseteq ToSet(gt)
    <3>1. s \in first..last /\ s \notin D
      BY <2>2
    <3>2. \A x \in ToSet(E[s]) : x \in Nat /\ a <= x /\ x <= z
      BY <1>6, <3>1
    <3>3. \A x \in ToSet(E[s]) : x \in a..z
      BY <1>4, <3>2
    <3> QED
      BY <1>9, <2>1, <3>1, <3>3
  <2>3. ASSUME \A i \in DOMAIN E[s] : E[s][i] \in a..z, ~ToSet(E[s]) \subseteq ToSet(gt)
        PROVE  s \in L
    <3>1. s \notin D
      BY <1>2, <2>3
    <3>2. PICK x \in ToSet(E[s]) : x \in a..z
      BY <2>1, <2>3
    <3>3. ~(s < first) /\ ~(s > last)
      BY <1>4, <1>6, <3>2
    <3> QED
      BY <1>1, <1>2, <3>1, <3>3
  <2> QED
    BY <2>2, <2>3
<1>11. ASSUME NEW x
       PROVE  x \in (a..z) \ (ToSet(gt) \cup ov) <=> \E s \in L : x \in ToSet(E[s])
  <2>1. ASSUME x \in a..z, x \notin ToSet(gt), x \notin ov
        PROVE  \E s \in L : x \in ToSet(E[s])
    <3>1. x \in 1..n
      BY <1>1, <1>4, <2>1
    <3>2. x \notin ToSet(pe) /\ x \notin ToSet(ri)
      <4>1. Below(E[last], pe) /\ Below(E[last], ri)
        BY <1>2 DEF Numbered
      <4>2. ~(z < x)
        BY <1>4, <2>1
      <4> QED
        BY <1>4, <4>1, <4>2 DEF Below
    <3>3. PICK s \in 1..q : x \in ToSet(E[s])
      BY <2>1, <3>1, <3>2 DEF Numbered
    <3>4. s \notin D
      BY <1>2, <2>1, <3>3
    <3>5. ~(s < first) /\ ~(s > last)
      BY <1>4, <1>6, <2>1, <3>3
    <3>6. s \in L
      BY <1>1, <1>2, <3>4, <3>5
    <3> QED
      BY <3>3, <3>6
  <2>2. ASSUME NEW s \in L, x \in ToSet(E[s])
        PROVE  x \in (a..z) \ (ToSet(gt) \cup ov)
    <3>1. s \in 1..q /\ s \in first..last /\ s \notin D
      BY <1>7
    <3>2. x \in Nat /\ a <= x /\ x <= z
      BY <1>6, <2>2, <3>1
    <3>3. x \in a..z
      BY <1>4, <3>2
    <3>4. x \notin ToSet(gt)
      BY <1>9, <2>2, <3>1
    <3>5. x \notin ov
      BY <1>1, <2>2, <3>1
    <3> QED
      BY <3>3, <3>4, <3>5
  <2> QED
    BY <2>1, <2>2
<1> QED
  BY <1>7, <1>10, <1>11 DEF a, z

-----------------------------------------------------------------------------
(* The account of the first life of the board.                             *)
Sent == [s \in 1..object.sequence |-> sent[<<1, s>>]]

FirstLife ==
    /\ DOMAIN sent = {<<1, s>> : s \in 1..object.sequence}
    /\ ~object.used => object.sequence = 0 /\ object.pending = <<>> /\ ring = <<>>
    /\ Numbered(object.sequence, Sent, object.pending, ring, overruns, line)
    /\ Travelling(object.sequence, Sent, up, stream.initialized, stream.last)
    /\ Counted(object.sequence, Sent, stream.initialized, stream.last, stream.lost, got)

GapInv == boots \in Nat \ {0} /\ (boots = 1 => FirstLife)

LEMMA GapStarts == Init => GapInv
<1> SUFFICES ASSUME Init PROVE GapInv
  OBVIOUS
<1>1. /\ line = 0 /\ ring = <<>> /\ overruns = {} /\ boots = 1 /\ DOMAIN sent = {}
      /\ object.sequence = 0 /\ object.pending = <<>> /\ up = <<>> /\ got = <<>>
      /\ stream.initialized = FALSE /\ stream.last = 0 /\ stream.lost = 0
  BY DEF Init, NoObject, NewStream
<1>2. 1..0 = {} /\ Sent \in [1..object.sequence -> Seq(Nat)]
  BY <1>1 DEF Sent
<1>3. DOMAIN sent = {<<1, s>> : s \in 1..object.sequence}
  BY <1>1, <1>2
<1>4. Numbered(object.sequence, Sent, object.pending, ring, overruns, line)
  BY <1>1, <1>2, EmptySequence DEF Numbered
<1>5. Travelling(object.sequence, Sent, up, stream.initialized, stream.last)
  BY <1>1 DEF Travelling
<1>6. Counted(object.sequence, Sent, stream.initialized, stream.last, stream.lost, got)
  BY <1>1 DEF Counted
<1> QED
  BY <1>1, <1>3, <1>4, <1>5, <1>6 DEF GapInv, FirstLife

(* A step that sends no event leaves the account of the events as it is.   *)
LEMMA SameEvents ==
    ASSUME GapInv, boots' = boots, sent' = sent, object'.sequence = object.sequence,
           ~object'.used => ~object.used /\ object'.pending = object.pending /\ ring' = ring,
           boots = 1 /\ FirstLife =>
               /\ Numbered(object.sequence, Sent, object'.pending, ring', overruns', line')
               /\ Travelling(object.sequence, Sent, up', stream'.initialized, stream'.last)
               /\ Counted(object.sequence, Sent, stream'.initialized, stream'.last, stream'.lost, got')
    PROVE  GapInv'
<1>1. Sent' = Sent
  BY DEF Sent
<1>2. ASSUME boots = 1 PROVE FirstLife'
  <2>1. FirstLife
    BY <1>2 DEF GapInv
  <2>2. DOMAIN sent' = {<<1, s>> : s \in 1..object'.sequence}
    BY <2>1 DEF FirstLife
  <2>3. ~object'.used => object'.sequence = 0 /\ object'.pending = <<>> /\ ring' = <<>>
    BY <2>1 DEF FirstLife
  <2>4. /\ Numbered(object'.sequence, Sent', object'.pending, ring', overruns', line')
        /\ Travelling(object'.sequence, Sent', up', stream'.initialized, stream'.last)
        /\ Counted(object'.sequence, Sent', stream'.initialized, stream'.last, stream'.lost, got')
    BY <1>1, <1>2, <2>1
  <2> QED
    BY <2>2, <2>3, <2>4 DEF FirstLife
<1> QED
  BY <1>2 DEF GapInv

LEMMA GapUntouched ==
    ASSUME GapInv, UNCHANGED <<line, overruns, ring, object, sent, boots, got>>,
           stream'.initialized = stream.initialized, stream'.last = stream.last,
           stream'.lost = stream.lost,
           boots = 1 /\ FirstLife =>
               Travelling(object.sequence, Sent, up', stream.initialized, stream.last)
    PROVE  GapInv'
<1>1. ASSUME boots = 1, FirstLife
      PROVE  /\ Numbered(object.sequence, Sent, object'.pending, ring', overruns', line')
             /\ Travelling(object.sequence, Sent, up', stream'.initialized, stream'.last)
             /\ Counted(object.sequence, Sent, stream'.initialized, stream'.last, stream'.lost, got')
  BY <1>1 DEF FirstLife
<1> QED
  BY <1>1, SameEvents

LEMMA ReceiveCounts ==
    ASSUME StreamInv, GapInv, Receive
    PROVE  GapInv'
<1>1. /\ line' = line + 1 /\ UNCHANGED <<board, up, client>>
      /\ \/ ring' = Append(ring, line + 1) /\ overruns' = overruns
         \/ overruns' = overruns \cup {line + 1} /\ ring' = ring
  BY DEF Receive
<1>2. object' = object /\ sent' = sent /\ boots' = boots /\ stream' = stream /\ got' = got /\ up' = up
  BY <1>1 DEF board, client
<1>3. object.used
  BY DEF Receive
<1>4. ring' = Append(ring, line + 1) => ToSet(ring') = ToSet(ring) \cup {line + 1}
  <2>1. ring \in Seq(Nat) /\ line \in Nat /\ UpTo(ring, line) /\ Increasing(ring)
    BY DEF StreamInv, Ordered, Flow, Fine
  <2> QED
    BY <2>1, OneMore
<1>5. ASSUME boots = 1, FirstLife
      PROVE  /\ Numbered(object.sequence, Sent, object'.pending, ring', overruns', line')
             /\ Travelling(object.sequence, Sent, up', stream'.initialized, stream'.last)
             /\ Counted(object.sequence, Sent, stream'.initialized, stream'.last, stream'.lost, got')
  <2>1. Numbered(object.sequence, Sent, object.pending, ring, overruns, line)
    BY <1>5 DEF FirstLife
  <2>2. CASE ring' = Append(ring, line + 1) /\ overruns' = overruns
    <3>1. Numbered(object.sequence, Sent, object.pending, ring', overruns, line + 1)
      BY <1>4, <2>1, <2>2, NumberedGrows
    <3> QED
      BY <1>1, <1>2, <1>5, <2>2, <3>1 DEF FirstLife
  <2>3. CASE overruns' = overruns \cup {line + 1} /\ ring' = ring
    <3>1. Numbered(object.sequence, Sent, object.pending, ring, overruns \cup {line + 1}, line + 1)
      BY <2>1, NumberedLoses
    <3> QED
      BY <1>1, <1>2, <1>5, <2>3, <3>1 DEF FirstLife
  <2> QED
    BY <1>1, <2>2, <2>3
<1> QED
  BY <1>2, <1>3, <1>5, SameEvents

LEMMA EventFrames ==
    ASSUME NEW p \in EventPackets, NEW t \in Nat
    PROVE  LET f == Frame(p, t, 0)
               l == Frame(p, t, 1) IN
           /\ f \in UpFrames /\ l \in UpFrames
           /\ ~Brings(f) /\ Brings(l) /\ Chunk(l) = p.bytes
           /\ SubSeq(Split(p, t), 1, 2) = <<f, l>>
<1>1. 2 \in SendCounts /\ p \in EventPackets \cup AnswerPackets
  BY DEF SendCounts
<1> QED
  BY <1>1, SentFrames

(* An event that is sent whole is the next one of the account.             *)
LEMMA EventSent ==
    ASSUME NEW q \in Nat, NEW E \in [1..q -> Seq(Nat)], NEW ini, NEW last,
           NEW u \in Seq(UpFrames), Travelling(q, E, u, ini, last), ini => last \in 1..q,
           NEW p \in EventPackets, NEW t \in Nat, p.sequence = q + 1
    PROVE  Travelling(q + 1, Another(q, E, p.bytes), u \o SubSeq(Split(p, t), 1, 2), ini, last)
<1> DEFINE f == Frame(p, t, 0)
           l == Frame(p, t, 1)
           v == SubSeq(Split(p, t), 1, 2)
<1>1. /\ f \in UpFrames /\ l \in UpFrames
      /\ ~Brings(f) /\ Brings(l) /\ Chunk(l) = p.bytes /\ Number(l) = q + 1
      /\ v = <<f, l>>
  <2>1. Number(l) = q + 1
    BY DEF Number, Frame
  <2>2. p \in EventPackets /\ t \in Nat
    OBVIOUS
  <2>3. /\ f \in UpFrames /\ l \in UpFrames
        /\ ~Brings(f) /\ Brings(l) /\ Chunk(l) = p.bytes
        /\ v = <<f, l>>
    BY ONLY <2>2, EventFrames
  <2> QED
    BY <2>1, <2>3
<1> HIDE DEF f, l, v
<1>2. <<f>> \in Seq(UpFrames) /\ \A i \in 1..Len(<<f>>) : ~Brings(<<f>>[i])
  BY <1>1
<1>3. Travelling(q, E, u \o <<f>>, ini, last)
  BY <1>2, TravellingPosts
<1>4. u \o <<f>> \in Seq(UpFrames)
  BY <1>2, Joined
<1>5. p.bytes \in Seq(Nat)
  BY DEF EventPackets
<1>6. Travelling(q + 1, Another(q, E, p.bytes), (u \o <<f>>) \o <<l>>, ini, last)
  BY <1>1, <1>3, <1>4, <1>5, TravellingSends
<1>7. (u \o <<f>>) \o <<l>> = u \o <<f, l>>
  BY <1>1, JoinTwice, Zenon
<1> QED
  BY <1>1, <1>6, <1>7 DEF v

LEMMA SentMore ==
    ASSUME boots = 1, NEW q \in Nat, q = object.sequence, NEW p \in Seq(Nat),
           DOMAIN sent = {<<1, s>> : s \in 1..q},
           sent' = Remembered(p), object'.sequence = q + 1
    PROVE  /\ DOMAIN sent' = {<<1, s>> : s \in 1..(q + 1)}
           /\ Sent' = Another(q, Sent, p)
<1>1. /\ DOMAIN sent' = {<<1, s>> : s \in 1..q} \cup {<<1, q + 1>>}
      /\ \A e \in DOMAIN sent' : sent'[e] = IF e \in DOMAIN sent THEN sent[e] ELSE p
  BY DEF Remembered
<1>2. \A s \in 1..(q + 1) : s = q + 1 \/ s \in 1..q
  OBVIOUS
<1>3. q + 1 \in 1..(q + 1) /\ q + 1 \notin 1..q /\ \A s \in 1..q : s \in 1..(q + 1) /\ s # q + 1
  OBVIOUS
<1>4. {<<1, s>> : s \in 1..q} \cup {<<1, q + 1>>} = {<<1, s>> : s \in 1..(q + 1)}
  BY <1>2, <1>3
<1>5. \A s \in 1..q : <<1, s>> \in DOMAIN sent /\ <<1, s>> \in DOMAIN sent'
  BY <1>1
<1>6. <<1, q + 1>> \notin DOMAIN sent /\ <<1, q + 1>> \in DOMAIN sent'
  BY <1>1, <1>3
<1>7. ASSUME NEW s \in 1..(q + 1)
      PROVE  sent'[<<1, s>>] = IF s = q + 1 THEN p ELSE Sent[s]
  <2>1. CASE s = q + 1
    BY <1>1, <1>6, <2>1
  <2>2. CASE s \in 1..q
    <3>1. s # q + 1 /\ Sent[s] = sent[<<1, s>>]
      BY <1>3, <2>2 DEF Sent
    <3> QED
      BY <1>1, <1>5, <2>2, <3>1
  <2> QED
    BY <1>2, <2>1, <2>2
<1>8. Sent' = [s \in 1..(q + 1) |-> sent'[<<1, s>>]]
  BY DEF Sent
<1> QED
  BY <1>1, <1>4, <1>7, <1>8 DEF Another

LEMMA NewestIsSent ==
    ASSUME NEW q, NEW E, NEW ini, NEW last, NEW lost, NEW gt, Counted(q, E, ini, last, lost, gt), ini
    PROVE  last \in 1..q
BY DEF Counted, Delivered

LEMMA PollCounts ==
    ASSUME StreamInv, GapInv, Poll
    PROVE  GapInv'
<1> DEFINE count == ReadCount(ChunkSize - Len(object.pending))
           p == object.pending \o SubSeq(ring, 1, count)
           r == SubSeq(ring, count + 1, Len(ring))
           e == Event(object.sequence + 1, p)
           q == object.sequence
<1>0. /\ object \in [used : BOOLEAN, pending : Seq(Nat), sequence : Nat]
      /\ Len(object.pending) <= ChunkSize
      /\ ring \in Seq(Nat) /\ boardTransfer \in Nat /\ up \in Seq(UpFrames)
      /\ Flow(read, stream.bytes, up, object.pending, ring, line)
  BY DEF StreamInv, RecordsKept, Ordered, Flow, Fine, FramesKept
<1>1. count \in Nat /\ count <= Len(ring) /\ p \in Seq(Nat)
  <2>1. object.pending \in Seq(Nat)
    BY <1>0
  <2> QED
    BY <1>0, <2>1, PollTakes DEF ReadCount
<1>2. Flow(read, stream.bytes, up, p, r, line)
  BY <1>0, <1>1, FlowFills
<1>3. ToSet(p) \cup ToSet(r) = ToSet(object.pending) \cup ToSet(ring)
  <2>1. /\ SubSeq(ring, 1, count) \in Seq(Nat)
        /\ ToSet(SubSeq(ring, 1, count)) \cup ToSet(r) = ToSet(ring)
    BY <1>0, <1>1, CutInTwo
  <2>2. ToSet(p) = ToSet(object.pending) \cup ToSet(SubSeq(ring, 1, count))
    <3> DEFINE c == SubSeq(ring, 1, count)
    <3>1. object.pending \in Seq(Nat) /\ c \in Seq(Nat)
      BY <1>0, <2>1
    <3> HIDE DEF c
    <3>2. ToSet(object.pending \o c) = ToSet(object.pending) \cup ToSet(c)
      BY ONLY <3>1, Joined
    <3> QED
      BY <3>2 DEF c
  <2> QED
    BY <2>1, <2>2
<1>4. e \in EventPackets /\ e.bytes = p /\ e.sequence = q + 1
  BY <1>0, <1>1, SMTT(20) DEF Event, EventPackets
<1>5. ring' = r /\ line' = line /\ overruns' = overruns /\ boots' = boots /\ stream' = stream
      /\ got' = got /\ object.used
  BY DEF Poll, client
<1>6. \/ /\ object' = [object EXCEPT !.pending = p]
         /\ UNCHANGED <<up, sent>>
      \/ \E sends \in SendCounts :
             /\ Sends(e, sends) /\ object' = AfterSending(p, sends) /\ Due(p)
             /\ sent' = IF sends = 2 THEN Remembered(p) ELSE sent
  BY DEF Poll
<1> HIDE DEF p, r, e, count, q
<1>7. ASSUME FirstLife PROVE Numbered(q, Sent, p, r, overruns, line)
  BY <1>3, <1>7, NumberedFills DEF FirstLife, q
<1>8. ASSUME object' = [object EXCEPT !.pending = p], sent' = sent,
             FirstLife => Travelling(q, Sent, up', stream.initialized, stream.last)
      PROVE  GapInv'
  <2>1. object'.sequence = q /\ object'.pending = p /\ object'.used
    BY <1>0, <1>5, <1>8 DEF q
  <2>2. ASSUME boots = 1, FirstLife
        PROVE  /\ Numbered(object.sequence, Sent, object'.pending, ring', overruns', line')
               /\ Travelling(object.sequence, Sent, up', stream'.initialized, stream'.last)
               /\ Counted(object.sequence, Sent, stream'.initialized, stream'.last, stream'.lost, got')
    BY <1>5, <1>7, <1>8, <2>1, <2>2 DEF FirstLife, q
  <2> QED
    BY <1>5, <1>8, <2>1, <2>2, SameEvents DEF q
<1>9. ASSUME NEW sends \in SendCounts, Sends(e, sends), object' = AfterSending(p, sends), Due(p),
             sent' = IF sends = 2 THEN Remembered(p) ELSE sent
      PROVE  GapInv'
  <2>1. up' = up \o SubSeq(Split(e, boardTransfer), 1, sends)
    BY <1>9 DEF Sends
  <2>2. CASE sends # 2
    <3>1. object' = [object EXCEPT !.pending = p] /\ sent' = sent /\ sends < 2
      BY <1>9, <2>2 DEF AfterSending, SendCounts
    <3>2. ASSUME FirstLife PROVE Travelling(q, Sent, up', stream.initialized, stream.last)
      <4> DEFINE v == SubSeq(Split(e, boardTransfer), 1, sends)
      <4>1. v \in Seq(UpFrames) /\ \A i \in 1..Len(v) : ~Brings(v[i])
        BY <1>0, <1>4, <3>1, QuietFrames
      <4> HIDE DEF v
      <4>2. Travelling(q, Sent, up \o v, stream.initialized, stream.last)
        BY <1>0, <3>2, <4>1, TravellingPosts DEF FirstLife, q
      <4> QED
        BY <2>1, <4>2 DEF v
    <3> QED
      BY <1>8, <3>1, <3>2
  <2>3. CASE sends = 2
    <3>1. object' = [object EXCEPT !.pending = <<>>, !.sequence = @ + 1]
      BY <1>9, <2>3 DEF AfterSending
    <3>2. object'.sequence = q + 1 /\ object'.pending = <<>> /\ object'.used
      <4>1. PICK m \in Nat : m = object.sequence + 1
        BY <1>0
      <4>2. object' = [object EXCEPT !.pending = <<>>, !.sequence = m]
        BY <3>1, <4>1
      <4> QED
        BY <1>0, <1>5, <4>1, <4>2 DEF q
    <3>3. sent' = Remembered(p) /\ p # <<>>
      BY <1>9, <2>3 DEF Due
    <3>4. ASSUME boots = 1 PROVE FirstLife'
      <4>0. FirstLife /\ q \in Nat
        BY <1>0, <3>4 DEF GapInv, q
      <4>1. DOMAIN sent' = {<<1, s>> : s \in 1..(q + 1)} /\ Sent' = Another(q, Sent, p)
        BY <1>1, <3>2, <3>3, <3>4, <4>0, SentMore DEF FirstLife, q
      <4>2. Sent \in [1..q -> Seq(Nat)]
        BY <4>0 DEF FirstLife, Numbered, q
      <4>3. Numbered(q + 1, Another(q, Sent, p), <<>>, r, overruns, line)
        <5>1. Numbered(q, Sent, p, r, overruns, line)
          BY <1>7, <4>0
        <5>2. p \in Seq(Nat) /\ p # <<>> /\ Increasing(p) /\ Below(p, r)
          BY <1>1, <1>2, <3>3 DEF Flow, Fine
        <5> QED
          BY <5>1, <5>2, NumberedSends
      <4>4. Travelling(q + 1, Another(q, Sent, p), up', stream.initialized, stream.last)
        <5>0. Counted(q, Sent, stream.initialized, stream.last, stream.lost, got)
          BY <4>0 DEF FirstLife, q
        <5>1. stream.initialized => stream.last \in 1..q
          BY ONLY <5>0, NewestIsSent
        <5>2. Travelling(q, Sent, up, stream.initialized, stream.last)
          BY <4>0 DEF FirstLife, q
        <5>3. Travelling(q + 1, Another(q, Sent, e.bytes),
                         up \o SubSeq(Split(e, boardTransfer), 1, 2), stream.initialized, stream.last)
          BY <1>0, <1>4, <4>0, <4>2, <5>1, <5>2, EventSent
        <5> QED
          BY <1>4, <2>1, <2>3, <5>3
      <4>5. Counted(q + 1, Another(q, Sent, p), stream.initialized, stream.last, stream.lost, got)
        <5>1. Counted(q, Sent, stream.initialized, stream.last, stream.lost, got)
          BY <4>0 DEF FirstLife, q
        <5> QED
          BY <1>1, <4>0, <4>2, <5>1, CountedSends
      <4>6. DOMAIN sent' = {<<1, s>> : s \in 1..object'.sequence}
        BY <3>2, <4>1
      <4> QED
        BY <1>5, <3>2, <4>1, <4>3, <4>4, <4>5, <4>6 DEF FirstLife
    <3> QED
      BY <1>5, <3>4 DEF GapInv
  <2> QED
    BY <2>2, <2>3
<1>10. ASSUME object' = [object EXCEPT !.pending = p], UNCHANGED <<up, sent>>
       PROVE  GapInv'
  <2>1. FirstLife => Travelling(q, Sent, up', stream.initialized, stream.last)
    BY <1>10 DEF FirstLife, q
  <2> QED
    BY <1>8, <1>10, <2>1
<1> QED
  BY <1>6, <1>9, <1>10

(* A request that reaches the board makes an object of a board that has    *)
(* none, which has sent and holds nothing; its answer brings no event.     *)
LEMMA BoardReceivesCounts ==
    ASSUME StreamInv, GapInv, BoardReceives
    PROVE  GapInv'
<1>0. /\ down # <<>> /\ down \in Seq(DownFrames)
      /\ UNCHANGED <<line, overruns, boots, sent, daemon, client>>
      /\ boardTransfer \in Nat /\ up \in Seq(UpFrames)
  BY DEF BoardReceives, StreamInv, FramesKept, Ordered, Flow
<1>1. Head(down) \in DownFrames /\ stream' = stream /\ got' = got
  BY <1>0, TailOf DEF client
<1>2. boots # 1 => GapInv'
  BY <1>0 DEF GapInv
<1>3. ASSUME UNCHANGED <<ring, object, up>> PROVE GapInv'
  <2>1. boots = 1 /\ FirstLife =>
            Travelling(object.sequence, Sent, up', stream.initialized, stream.last)
    BY <1>3 DEF FirstLife
  <2> QED
    BY <1>0, <1>1, <1>3, <2>1, GapUntouched
<1>4. ASSUME boots = 1,
             NEW packet \in SlotPackets(slots, Head(down)), NEW sends \in SendCounts,
             object' = IF Creates(packet) THEN NewObject ELSE object,
             ring' = IF Creates(packet) THEN ConfiguredRing ELSE ring,
             Sends(Created(packet.request), sends)
      PROVE  GapInv'
  <2>1. FirstLife
    BY <1>4 DEF GapInv
  <2>2. /\ object'.sequence = object.sequence /\ object'.pending = object.pending /\ ring' = ring
        /\ object'.used \/ object' = object
    <3>1. CASE Creates(packet)
      <4>1. ~object.used /\ object' = NewObject /\ ring' = <<>>
        BY <1>4, <3>1 DEF Creates, ConfiguredRing
      <4>2. object.sequence = 0 /\ object.pending = <<>> /\ ring = <<>>
        BY <2>1, <4>1 DEF FirstLife
      <4> QED
        BY <4>1, <4>2 DEF NewObject
    <3>2. CASE ~Creates(packet)
      BY <1>4, <3>2
    <3> QED
      BY <3>1, <3>2
  <2> DEFINE v == SubSeq(Split(Created(packet.request), boardTransfer), 1, sends)
  <2>3. v \in Seq(UpFrames) /\ \A i \in 1..Len(v) : ~Brings(v[i])
    <3>1. Created(packet.request) \in AnswerPackets
      BY <1>1, RequestType
    <3> QED
      BY <1>0, <3>1, QuietFrames
  <2>4. up' = up \o v
    BY <1>4 DEF Sends
  <2> HIDE DEF v
  <2>5. Travelling(object.sequence, Sent, up', stream.initialized, stream.last)
    BY <1>0, <2>1, <2>3, <2>4, TravellingPosts DEF FirstLife
  <2>6. /\ Numbered(object.sequence, Sent, object'.pending, ring', overruns', line')
        /\ Travelling(object.sequence, Sent, up', stream'.initialized, stream'.last)
        /\ Counted(object.sequence, Sent, stream'.initialized, stream'.last, stream'.lost, got')
    BY <1>0, <1>1, <2>1, <2>2, <2>5 DEF FirstLife
  <2>7. ~object'.used => ~object.used /\ object'.pending = object.pending /\ ring' = ring
    BY <2>2
  <2> QED
    BY <1>0, <2>2, <2>6, <2>7, SameEvents
<1> QED
  BY <1>2, <1>3, <1>4 DEF BoardReceives

LEMMA ResetCounts ==
    ASSUME GapInv, BoardResets
    PROVE  GapInv'
<1>1. boots \in Nat \ {0} /\ boots' = boots + 1
  BY DEF GapInv, BoardResets
<1>2. boots' \in Nat \ {0} /\ boots' # 1
  BY <1>1
<1> QED
  BY <1>2 DEF GapInv

(* An event that arrives whole is newer than the last, and what is between *)
(* the two will not arrive any more.                                       *)
LEMMA DaemonReceivesCounts ==
    ASSUME StreamInv, GapInv, DaemonReceives
    PROVE  GapInv'
<1>0. /\ up # <<>> /\ up \in Seq(UpFrames)
      /\ stream \in [initialized : BOOLEAN, last : Nat, bytes : Seq(Nat), lost : Nat, dropped : Nat]
  BY DEF DaemonReceives, StreamInv, RecordsKept, Ordered, Flow
<1>1. /\ up' = Tail(up)
      /\ UNCHANGED <<line, overruns, ring, object, sent, boots>>
      /\ \/ UNCHANGED <<stream, got>>
         \/ \E p \in HostPackets(table, Head(up)) : p.kind = "event" /\ AcceptEvent(p)
  BY DaemonTakes DEF port, board
<1>2. ASSUME UNCHANGED <<stream, got>> PROVE GapInv'
  <2>1. ASSUME boots = 1, FirstLife
        PROVE  Travelling(object.sequence, Sent, up', stream.initialized, stream.last)
    BY <1>0, <1>1, <2>1, TravellingDrops DEF FirstLife
  <2> QED
    BY <1>1, <1>2, <2>1, GapUntouched
<1>3. ASSUME NEW p \in HostPackets(table, Head(up)), p.kind = "event", Accepted(p), AcceptEvent(p)
      PROVE  GapInv'
  <2>1. /\ Head(up) \in UpFrames /\ Brings(Head(up)) /\ p = Head(up).piece
        /\ Chunk(Head(up)) = p.bytes /\ Number(Head(up)) = p.sequence
    <3>1. p = Head(up).piece /\ Head(up).sequence = 1
      BY DaemonTakes
    <3> QED
      BY <1>0, <1>3, <3>1, TailOf DEF Brings, Chunk, Number
  <2>2. /\ stream'.initialized = TRUE /\ stream'.last = p.sequence
        /\ stream'.lost = stream.lost + Gap(p) /\ got' = got \o p.bytes
    BY <1>3 DEF AcceptEvent
  <2>3. ASSUME boots = 1, FirstLife
        PROVE  /\ Numbered(object.sequence, Sent, object'.pending, ring', overruns', line')
               /\ Travelling(object.sequence, Sent, up', stream'.initialized, stream'.last)
               /\ Counted(object.sequence, Sent, stream'.initialized, stream'.last, stream'.lost, got')
    <3>1. PICK q, m, ini, last, lost : /\ q = object.sequence /\ m = p.sequence
                                       /\ ini = stream.initialized /\ last = stream.last
                                       /\ lost = stream.lost
      OBVIOUS
    <3>2. /\ Numbered(q, Sent, object.pending, ring, overruns, line)
          /\ Travelling(q, Sent, up, ini, last)
          /\ Counted(q, Sent, ini, last, lost, got)
      BY <2>3, <3>1 DEF FirstLife
    <3>3. /\ m \in 1..q /\ Sent[m] = p.bytes /\ (ini => last < m)
          /\ Travelling(q, Sent, Tail(up), TRUE, m)
      <4>1. up \in Seq(UpFrames) /\ up # <<>> /\ Travelling(q, Sent, up, ini, last)
        BY <1>0, <3>2
      <4>2. /\ Travelling(q, Sent, Tail(up), ini, last)
            /\ Brings(Head(up)) =>
                  /\ Number(Head(up)) \in 1..q /\ Sent[Number(Head(up))] = Chunk(Head(up))
                  /\ ini => last < Number(Head(up))
                  /\ Travelling(q, Sent, Tail(up), TRUE, Number(Head(up)))
        BY ONLY <4>1, TravellingDrops
      <4> QED
        BY <2>1, <3>1, <4>2
    <3>4. q \in Nat /\ Sent \in [1..q -> Seq(Nat)] /\ Sent[m] # <<>>
      BY <3>2, <3>3 DEF Numbered
    <3>5. ini \in BOOLEAN /\ last \in Nat
      BY <1>0, <3>1
    <3>6. Counted(q, Sent, TRUE, m, lost + (IF ini THEN m - last - 1 ELSE 0), got \o Sent[m])
      BY ONLY <3>2, <3>3, <3>4, <3>5, CountedArrives
    <3>7. Gap(p) = IF ini THEN m - last - 1 ELSE 0
      BY <3>1 DEF Gap
    <3>8. Counted(q, Sent, TRUE, m, stream'.lost, got')
      BY <2>2, <3>1, <3>3, <3>6, <3>7
    <3> QED
      BY <1>1, <2>2, <3>1, <3>2, <3>3, <3>8
  <2> QED
    BY <1>1, <2>3, SameEvents
<1>4. ASSUME NEW p \in HostPackets(table, Head(up)), ~Accepted(p), AcceptEvent(p)
      PROVE  UNCHANGED <<stream, got>>
  BY <1>4 DEF AcceptEvent
<1> QED
  BY <1>1, <1>2, <1>3, <1>4

LEMMA ClientReadsCounts ==
    ASSUME StreamInv, GapInv, ClientReads
    PROVE  GapInv'
<1>1. UNCHANGED <<port, board, up, got>>
  BY DEF ClientReads
<1>2. /\ stream'.initialized = stream.initialized /\ stream'.last = stream.last
      /\ stream'.lost = stream.lost
  <2>1. stream \in [initialized : BOOLEAN, last : Nat, bytes : Seq(Nat), lost : Nat, dropped : Nat]
    BY DEF StreamInv, RecordsKept
  <2>2. PICK rest : stream' = [stream EXCEPT !.bytes = rest]
    BY DEF ClientReads
  <2> QED
    BY <2>1, <2>2
<1>3. boots = 1 /\ FirstLife =>
          Travelling(object.sequence, Sent, up', stream.initialized, stream.last)
  BY <1>1 DEF FirstLife
<1> QED
  BY <1>1, <1>2, <1>3, GapUntouched DEF port, board

LEMMA LoseFrameCounts ==
    ASSUME StreamInv, GapInv, LoseFrame
    PROVE  GapInv'
<1>1. /\ UNCHANGED <<port, board, client>> /\ up \in Seq(UpFrames)
      /\ up' = up \/ (up # <<>> /\ up' = Tail(up))
  BY DEF LoseFrame, StreamInv, Ordered, Flow
<1>2. ASSUME boots = 1, FirstLife
      PROVE  Travelling(object.sequence, Sent, up', stream.initialized, stream.last)
  <2>1. Travelling(object.sequence, Sent, up, stream.initialized, stream.last)
    BY <1>2 DEF FirstLife
  <2>2. CASE up' = up
    BY <2>1, <2>2
  <2>3. CASE up # <<>> /\ up' = Tail(up)
    BY <1>1, <2>1, <2>3, TravellingDrops
  <2> QED
    BY <1>1, <2>2, <2>3
<1> QED
  BY <1>1, <1>2, GapUntouched DEF port, board, client

LEMMA GapStep == StreamInv /\ GapInv /\ [Next]_vars => GapInv'
<1> SUFFICES ASSUME StreamInv, GapInv, [Next]_vars PROVE GapInv'
  OBVIOUS
<1>1. ASSUME UNCHANGED <<line, overruns, ring, object, sent, boots, got, stream, up>> PROVE GapInv'
  <2>1. boots = 1 /\ FirstLife =>
            Travelling(object.sequence, Sent, up', stream.initialized, stream.last)
    BY <1>1 DEF FirstLife
  <2> QED
    BY <1>1, <2>1, GapUntouched
<1>2. ASSUME ClientCreates \/ Retransmit \/ DaemonGivesUp PROVE GapInv'
  BY <1>1, <1>2 DEF ClientCreates, Retransmit, DaemonGivesUp, port, board, client
<1>3. ASSUME NEW s \in slots, SlotExpires(s) PROVE GapInv'
  BY <1>1, <1>3 DEF SlotExpires, port, client
<1>4. ASSUME NEW k \in DOMAIN table, TransferExpires(k) PROVE GapInv'
  BY <1>1, <1>4 DEF TransferExpires, port, board, client
<1>5. ASSUME UNCHANGED vars PROVE GapInv'
  BY <1>1, <1>5 DEF vars, port, board, client
<1> QED
  BY <1>2, <1>3, <1>4, <1>5, ReceiveCounts, PollCounts, BoardReceivesCounts, ResetCounts,
     DaemonReceivesCounts, ClientReadsCounts, LoseFrameCounts
  DEF Next

LEMMA GapInvariant == Spec => [](StreamInv /\ GapInv)
<1>1. Init => StreamInv /\ GapInv
  BY StreamStarts, GapStarts
<1>2. (StreamInv /\ GapInv) /\ [Next]_vars => (StreamInv /\ GapInv)'
  BY StreamStep, GapStep
<1> QED
  BY <1>1, <1>2, PTL DEF Spec

LEMMA CountedGaps == StreamInv /\ GapInv => EveryGapIsCounted
<1> SUFFICES ASSUME StreamInv, GapInv, boots = 1, got # <<>>
             PROVE  /\ (Head(got)..Last(got)) \ (ToSet(got) \cup overruns) =
                          UNION {ToSet(sent[e]) : e \in LostEvents}
                    /\ stream.lost = Cardinality(LostEvents)
  BY DEF EveryGapIsCounted
<1>1. PICK q \in Nat : q = object.sequence
  BY DEF StreamInv, RecordsKept
<1>2. /\ DOMAIN sent = {<<1, s>> : s \in 1..q} /\ \A s \in 1..q : Sent[s] = sent[<<1, s>>]
      /\ Numbered(q, Sent, object.pending, ring, overruns, line)
      /\ Counted(q, Sent, stream.initialized, stream.last, stream.lost, got)
  BY <1>1 DEF GapInv, FirstLife, Sent
<1>3. got \in Seq(Nat)
  BY <1>2 DEF Counted
<1>4. PICK D, first : Delivered(q, Sent, D, first, stream.last, stream.lost, got)
  BY <1>2 DEF Counted
<1> DEFINE L == (first..stream.last) \ D
           between == got[1]..got[Len(got)]
<1>5. /\ L \subseteq 1..q
      /\ \A s \in 1..q : s \in L <=> /\ \A i \in DOMAIN Sent[s] : Sent[s][i] \in between
                                     /\ ~ToSet(Sent[s]) \subseteq ToSet(got)
      /\ \A x : x \in between \ (ToSet(got) \cup overruns) <=> \E s \in L : x \in ToSet(Sent[s])
  <2>1. /\ Numbered(q, Sent, object.pending, ring, overruns, line)
        /\ got \in Seq(Nat) /\ Delivered(q, Sent, D, first, stream.last, stream.lost, got)
    BY <1>2, <1>3, <1>4
  <2> QED
    BY ONLY <2>1, LostAre
<1>6. Head(got)..Last(got) = between
  BY <1>3 DEF Last
<1>7. stream.lost = Cardinality(L)
  BY <1>4 DEF Delivered, Missing
<1> HIDE DEF L, between
<1>8. \A s \in 1..q : <<1, s>> \in LostEvents <=> s \in L
  BY <1>2, <1>5, <1>6 DEF LostEvents
<1>9. \A e \in LostEvents : \E s \in 1..q : e = <<1, s>>
  BY <1>2 DEF LostEvents
<1>10. LostEvents = {<<1, s>> : s \in L}
  BY <1>5, <1>8, <1>9
<1>11. between \ (ToSet(got) \cup overruns) = UNION {ToSet(sent[e]) : e \in LostEvents}
  <2>1. ASSUME NEW x, NEW s \in L, x \in ToSet(Sent[s])
        PROVE  x \in UNION {ToSet(sent[e]) : e \in LostEvents}
    BY <1>2, <1>5, <1>8, <2>1
  <2>2. ASSUME NEW e \in LostEvents, NEW x \in ToSet(sent[e])
        PROVE  \E s \in L : x \in ToSet(Sent[s])
    BY <1>2, <1>5, <1>10
  <2> QED
    BY <1>5, <2>1, <2>2
<1>12. Cardinality(LostEvents) = Cardinality(L)
  <2> DEFINE h == [s \in L |-> <<1, s>>]
  <2>1. h \in Bijection(L, LostEvents)
    <3>1. h \in [L -> LostEvents] /\ \A s, t \in L : h[s] = h[t] => s = t
      BY <1>10
    <3>2. \A e \in LostEvents : \E s \in L : h[s] = e
      BY <1>10
    <3> HIDE DEF h
    <3> QED
      BY <3>1, <3>2 DEF Bijection, Injection, Surjection, IsInjective
  <2>2. IsFiniteSet(L)
    <3>1. IsFiniteSet(1..q)
      BY FS_Interval
    <3> QED
      BY <1>5, <3>1, FS_Subset
  <2> HIDE DEF h
  <2> QED
    BY <2>1, <2>2, FS_Bijection DEF ExistsBijection
<1> QED
  BY <1>6, <1>7, <1>11, <1>12

(* While the board lives its first life, every byte between the oldest and *)
(* the newest the daemon received was received, was refused by the full    *)
(* ring or was in an event that lost_events counts, and each of those      *)
(* events is counted once (rbsp_core_poll, handle_can_message): for rings, *)
(* chunks and buffers of every size, whatever frames are lost and whatever *)
(* transmissions fail halfway.                                             *)
THEOREM GapsAreCounted == Spec => []EveryGapIsCounted
  BY GapInvariant, CountedGaps, PTL
=============================================================================
