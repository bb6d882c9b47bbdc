---------------------- MODULE OpenflowConnectionProofs ----------------------
(***************************************************************************)
(* Proofs about module OpenflowConnection, for any number of messages,     *)
(* completions and sessions, and for the three kinds of object.            *)
(***************************************************************************)
EXTENDS OpenflowConnection, SequenceTheorems, FiniteSetTheorems, TLAPS

-----------------------------------------------------------------------------
\* Counting in a queue of completions

\* Count(kinds) for any queue
Cnt(q, kinds) == Cardinality({i \in 1 .. Len(q) : q[i] \in kinds})

LEMMA CntNat ==
  ASSUME NEW S, NEW q \in Seq(S), NEW kinds
  PROVE  /\ IsFiniteSet({i \in 1 .. Len(q) : q[i] \in kinds})
         /\ Cnt(q, kinds) \in Nat
<1> DEFINE M == {i \in 1 .. Len(q) : q[i] \in kinds}
<1>1. Len(q) \in Nat /\ IsFiniteSet(1 .. Len(q)) /\ M \subseteq 1 .. Len(q)
  BY FS_Interval
<1>2. IsFiniteSet(M)
  BY <1>1, FS_Subset
<1>3. Cardinality(M) \in Nat
  BY <1>2, FS_CardinalityType
<1> QED
  BY <1>2, <1>3 DEF Cnt

LEMMA CntEmpty == \A kinds : Cnt(<< >>, kinds) = 0
<1> TAKE kinds
<1>1. {i \in 1 .. Len(<< >>) : << >>[i] \in kinds} = {}
  OBVIOUS
<1> QED
  BY <1>1, FS_EmptySet DEF Cnt

\* A queue counts what its two parts count.
LEMMA CntConcat ==
  ASSUME NEW S, NEW p \in Seq(S), NEW q \in Seq(S), NEW kinds
  PROVE  Cnt(p \o q, kinds) = Cnt(p, kinds) + Cnt(q, kinds)
<1> DEFINE A == {i \in 1 .. Len(p) : p[i] \in kinds}
           B == {i \in 1 .. Len(q) : q[i] \in kinds}
           C == {i \in Len(p) + 1 .. Len(p) + Len(q) : q[i - Len(p)] \in kinds}
           D == {i \in 1 .. Len(p \o q) : (p \o q)[i] \in kinds}
<1>1. Len(p) \in Nat /\ Len(q) \in Nat
  OBVIOUS
<1>2. /\ Len(p \o q) = Len(p) + Len(q)
      /\ \A i \in 1 .. Len(p) + Len(q) :
           (p \o q)[i] = IF i <= Len(p) THEN p[i] ELSE q[i - Len(p)]
  BY ConcatProperties
<1>3. D = A \cup C /\ A \cap C = {}
  BY <1>1, <1>2
<1>4. IsFiniteSet(A) /\ IsFiniteSet(B)
  BY CntNat
<1>5. ExistsBijection(B, C)
  <2> DEFINE f == [i \in B |-> i + Len(p)]
  <2>1. f \in [B -> C]
    BY <1>1
  <2>2. \A i, j \in B : f[i] = f[j] => i = j
    BY <1>1
  <2>3. \A j \in C : \E i \in B : f[i] = j
    <3> TAKE j \in C
    <3>1. j - Len(p) \in B
      BY <1>1
    <3>2. f[j - Len(p)] = j
      BY <1>1, <3>1
    <3> QED
      BY <3>1, <3>2
  <2>4. f \in Injection(B, C) /\ f \in Surjection(B, C)
    BY <2>1, <2>2, <2>3 DEF Injection, IsInjective, Surjection
  <2> QED
    BY <2>4 DEF ExistsBijection, Bijection
<1>6. IsFiniteSet(C) /\ Cardinality(C) = Cardinality(B)
  BY <1>4, <1>5, FS_Bijection
<1>7. Cardinality(D) = Cardinality(A) + Cardinality(C) - Cardinality(A \cap C)
  BY <1>3, <1>4, <1>6, FS_Union
<1>8. Cardinality(A \cap C) = 0
  BY <1>3, FS_EmptySet
<1>9. Cardinality(A) \in Nat /\ Cardinality(B) \in Nat
  BY <1>4, FS_CardinalityType
<1>10. /\ Cnt(p, kinds) = Cardinality(A) /\ Cnt(q, kinds) = Cardinality(B)
       /\ Cnt(p \o q, kinds) = Cardinality(D)
  BY DEF Cnt
<1> HIDE DEF A, B, C, D
<1> QED
  BY <1>6, <1>7, <1>8, <1>9, <1>10

LEMMA CntSingle ==
  ASSUME NEW k, NEW kinds
  PROVE  Cnt(<<k>>, kinds) = IF k \in kinds THEN 1 ELSE 0
<1>1. Len(<<k>>) = 1 /\ <<k>>[1] = k
  OBVIOUS
<1>2. {i \in 1 .. Len(<<k>>) : <<k>>[i] \in kinds}
        = IF k \in kinds THEN {1} ELSE {}
  BY <1>1
<1> QED
  BY <1>2, FS_EmptySet, FS_Singleton DEF Cnt

LEMMA CntAppend ==
  ASSUME NEW S, NEW q \in Seq(S), NEW k \in S, NEW kinds
  PROVE  /\ Append(q, k) \in Seq(S)
         /\ Cnt(Append(q, k), kinds)
              = Cnt(q, kinds) + (IF k \in kinds THEN 1 ELSE 0)
<1>1. Append(q, k) = q \o <<k>> /\ <<k>> \in Seq(S) /\ Append(q, k) \in Seq(S)
  BY AppendIsConcat, AppendProperties
<1>2. Cnt(q \o <<k>>, kinds) = Cnt(q, kinds) + Cnt(<<k>>, kinds)
  BY <1>1, CntConcat
<1>3. Cnt(<<k>>, kinds) = IF k \in kinds THEN 1 ELSE 0
  BY CntSingle
<1> QED
  BY <1>1, <1>2, <1>3

LEMMA CntTail ==
  ASSUME NEW S, NEW q \in Seq(S), q # << >>, NEW kinds
  PROVE  /\ Tail(q) \in Seq(S)
         /\ Cnt(q, kinds)
              = Cnt(Tail(q), kinds) + (IF Head(q) \in kinds THEN 1 ELSE 0)
<1>1. Tail(q) \in Seq(S) /\ Head(q) \in S /\ <<Head(q)>> \in Seq(S)
  BY HeadTailProperties
<1>2. q = <<Head(q)>> \o Tail(q)
  OBVIOUS
<1>3. Cnt(<<Head(q)>> \o Tail(q), kinds)
        = Cnt(<<Head(q)>>, kinds) + Cnt(Tail(q), kinds)
  BY <1>1, CntConcat
<1>4. Cnt(<<Head(q)>>, kinds) \in Nat /\ Cnt(Tail(q), kinds) \in Nat
  BY <1>1, CntNat
<1>5. Cnt(<<Head(q)>>, kinds) = IF Head(q) \in kinds THEN 1 ELSE 0
  BY CntSingle
<1>6. Cnt(q, kinds) = Cnt(<<Head(q)>>, kinds) + Cnt(Tail(q), kinds)
  BY <1>2, <1>3
<1> QED
  BY <1>1, <1>4, <1>5, <1>6

\* A block of equal completions
LEMMA CntBlock ==
  ASSUME NEW S, NEW k \in S, NEW n \in Nat, NEW kinds
  PROVE  /\ [i \in 1 .. n |-> k] \in Seq(S)
         /\ Cnt([i \in 1 .. n |-> k], kinds) = IF k \in kinds THEN n ELSE 0
<1> DEFINE b == [i \in 1 .. n |-> k]
<1>1. b \in Seq(S) /\ Len(b) = n
  OBVIOUS
<1>2. {i \in 1 .. Len(b) : b[i] \in kinds}
        = IF k \in kinds THEN 1 .. n ELSE {}
  BY <1>1
<1>3. Cardinality(1 .. n) = n
  BY FS_Interval
<1> QED
  BY <1>1, <1>2, <1>3, FS_EmptySet DEF Cnt

\* Counting fewer kinds
LEMMA CntSubset ==
  ASSUME NEW S, NEW q \in Seq(S), NEW few, NEW many, few \subseteq many
  PROVE  Cnt(q, few) <= Cnt(q, many)
<1> DEFINE A == {i \in 1 .. Len(q) : q[i] \in few}
           B == {i \in 1 .. Len(q) : q[i] \in many}
<1>1. A \subseteq B /\ IsFiniteSet(B)
  BY CntNat
<1> QED
  BY <1>1, FS_Subset DEF Cnt

-----------------------------------------------------------------------------
\* The invariant, on the state s of the object that the parts of handlers work
\* on, and the messages w handed to the network

Object(n) ==
  [kind    : Kinds,
   sock    : {"closed", "connecting", "open", "failed"},
   session : Nat,
   started : BOOLEAN,
   queue   : Seq(1 .. n),
   writing : BOOLEAN,
   reads   : Nat,
   echo    : BOOLEAN]

StateOK(s) ==
  s \in [c : Object(s.accepted), ready : Seq(Completions), accepted : Nat]

\* What is under way or has its handler queued
Writes(s) == Cnt(s.ready, WriteCompletions) + (IF s.c.writing THEN 1 ELSE 0)
Reads(s)  == s.c.reads + Cnt(s.ready, ReadCompletions)
Echoes(s) == Cnt(s.ready, {"echo_due"}) + (IF s.c.echo THEN 1 ELSE 0)

Failed == {"write_failed", "write_aborted"}

Unpopped(s) ==
  IF Cnt(s.ready, {"written"}) = 1 THEN Tail(s.c.queue) ELSE s.c.queue

Upto(n) == [i \in 1 .. n |-> i]

\* One write, of the front of the queue
Writer(s) == Writes(s) <= 1 /\ (Writes(s) = 1 => s.c.queue # << >>)

\* The chain of writes of a switch whose connection is up
Chain(s, w) ==
  s.c.kind # "virtual_switch" =>
    /\ s.c.sock # "connecting"
    /\ s.c.sock = "open" =>
         /\ Cnt(s.ready, Failed) = 0
         /\ s.c.queue # << >> => Writes(s) = 1
         /\ w \o Unpopped(s) = Upto(s.accepted)

\* The read and the echo of a switch, until its connection is closed
Listens(s) ==
  s.c.kind # "virtual_switch" =>
    /\ s.c.started => s.c.sock # "closed"
    /\ s.c.sock # "closed" =>
         /\ Reads(s) = IF s.c.started THEN 1 ELSE 0
         /\ Echoes(s) = IF s.c.started THEN 1 ELSE 0

Now == Current(ready)

\* The inductive invariant
IInv ==
  /\ TypeOK
  /\ Writer(Now)
  /\ Chain(Now, wire)
  /\ ~stuck => Listens(Now)

\* What most parts of handlers leave alone
Kept(s, t) ==
  /\ t.c.kind = s.c.kind /\ t.c.sock = s.c.sock /\ t.c.started = s.c.started

-----------------------------------------------------------------------------
\* The parts of handlers

LEMMA KindsOfCompletions ==
  /\ WriteCompletions \subseteq Completions
  /\ ReadCompletions \subseteq Completions
  /\ Messages \subseteq ReadCompletions
  /\ {"echo_due", "connected"} \subseteq Completions
  /\ WriteCompletions \cap ReadCompletions = {}
  /\ {"echo_due", "connected"} \cap (WriteCompletions \cup ReadCompletions) = {}
  /\ {"written"} \cup Failed = WriteCompletions /\ "written" \notin Failed
  BY DEF Completions, WriteCompletions, ReadCompletions, Messages, Failed

LEMMA StateCounts ==
  ASSUME NEW s, StateOK(s)
  PROVE  /\ Writes(s) \in Nat /\ Reads(s) \in Nat /\ Echoes(s) \in Nat
         /\ \A kinds : Cnt(s.ready, kinds) \in Nat
<1>1. \A kinds : Cnt(s.ready, kinds) \in Nat
  BY CntNat DEF StateOK
<1>2. s.c.reads \in Nat
  BY DEF StateOK, Object
<1> QED
  BY <1>1, <1>2 DEF Writes, Reads, Echoes

\* Queueing one completion
LEMMA DoneEffect ==
  ASSUME NEW s, StateOK(s), NEW k \in Completions
  PROVE  /\ StateOK(Done(s, k))
         /\ Done(s, k).c = s.c /\ Done(s, k).accepted = s.accepted
         /\ \A kinds : Cnt(Done(s, k).ready, kinds)
              = Cnt(s.ready, kinds) + (IF k \in kinds THEN 1 ELSE 0)
<1>1. s.ready \in Seq(Completions)
  BY DEF StateOK
<1>2. /\ Done(s, k).c = s.c /\ Done(s, k).accepted = s.accepted
      /\ Done(s, k).ready = Append(s.ready, k)
      /\ Done(s, k) = [c |-> s.c, ready |-> Append(s.ready, k),
                       accepted |-> s.accepted]
  BY DEF Done, StateOK
<1>3. \A kinds : /\ Append(s.ready, k) \in Seq(Completions)
                 /\ Cnt(Append(s.ready, k), kinds)
                      = Cnt(s.ready, kinds) + (IF k \in kinds THEN 1 ELSE 0)
  BY <1>1, CntAppend
<1> QED
  BY <1>2, <1>3 DEF StateOK

\* async_write of the front: one more write under way or failed at once
LEMMA WriteHeadEffect ==
  ASSUME NEW s, StateOK(s), ~s.c.writing
  PROVE  LET t == WriteHead(s) IN
         /\ StateOK(t) /\ Kept(s, t)
         /\ t.c.queue = s.c.queue /\ t.accepted = s.accepted
         /\ Writes(t) = Writes(s) + 1
         /\ Reads(t) = Reads(s) /\ Echoes(t) = Echoes(s)
         /\ s.c.sock = "open" => t.ready = s.ready
<1> DEFINE t == WriteHead(s)
           Goal == /\ StateOK(t) /\ Kept(s, t)
                   /\ t.c.queue = s.c.queue /\ t.accepted = s.accepted
                   /\ Writes(t) = Writes(s) + 1
                   /\ Reads(t) = Reads(s) /\ Echoes(t) = Echoes(s)
                   /\ s.c.sock = "open" => t.ready = s.ready
<1>1. \A kinds : Cnt(s.ready, kinds) \in Nat
  BY StateCounts
<1>2. CASE s.c.sock \in {"open", "connecting"}
  <2>1. t = [s EXCEPT !.c.writing = TRUE]
    BY <1>2 DEF WriteHead
  <2>2. /\ t.c = [s.c EXCEPT !.writing = TRUE]
        /\ t.ready = s.ready /\ t.accepted = s.accepted
        /\ t = [c |-> t.c, ready |-> t.ready, accepted |-> t.accepted]
    BY <2>1 DEF StateOK
  <2> HIDE DEF t
  <2>3. StateOK(t)
    BY <2>2 DEF StateOK, Object
  <2>4. /\ t.c.kind = s.c.kind /\ t.c.sock = s.c.sock
        /\ t.c.started = s.c.started /\ t.c.queue = s.c.queue
        /\ t.c.reads = s.c.reads /\ t.c.echo = s.c.echo /\ t.c.writing
    BY <2>2 DEF StateOK, Object
  <2>5. Goal
    BY <1>1, <2>2, <2>3, <2>4 DEF Kept, Writes, Reads, Echoes
  <2> QED
    BY <2>5 DEF t
<1>3. ASSUME NEW k \in Failed, t = Done(s, k), s.c.sock # "open"
      PROVE  Goal
  <2>1. k \in Completions /\ k \in WriteCompletions /\ k \notin ReadCompletions
        /\ k # "echo_due"
    BY <1>3, KindsOfCompletions
  <2>2. /\ StateOK(t) /\ t.c = s.c /\ t.accepted = s.accepted
        /\ \A kinds : Cnt(t.ready, kinds)
             = Cnt(s.ready, kinds) + (IF k \in kinds THEN 1 ELSE 0)
    BY <1>3, <2>1, DoneEffect
  <2> HIDE DEF t
  <2>3. /\ Cnt(t.ready, WriteCompletions) = Cnt(s.ready, WriteCompletions) + 1
        /\ Cnt(t.ready, ReadCompletions) = Cnt(s.ready, ReadCompletions)
        /\ Cnt(t.ready, {"echo_due"}) = Cnt(s.ready, {"echo_due"})
    BY <1>1, <2>1, <2>2
  <2> QED
    BY <1>1, <1>3, <2>2, <2>3 DEF Kept, Writes, Reads, Echoes
<1>4. CASE s.c.sock = "failed"
  BY <1>3, <1>4 DEF WriteHead, Failed
<1>5. CASE s.c.sock = "closed"
  BY <1>3, <1>5 DEF WriteHead, Failed
<1>6. Goal
  BY <1>2, <1>4, <1>5 DEF StateOK, Object
<1> QED
  BY <1>6

\* A message is appended to the queue, and its write starts if it is alone.
LEMMA SendMessageEffect ==
  ASSUME NEW s, StateOK(s), Writer(s)
  PROVE  LET t == SendMessage(s) IN
         /\ StateOK(t) /\ Kept(s, t) /\ Writer(t)
         /\ t.c.queue = Append(s.c.queue, s.accepted + 1)
         /\ t.accepted = s.accepted + 1
         /\ Writes(t) = IF s.c.queue = << >> THEN 1 ELSE Writes(s)
         /\ Reads(t) = Reads(s) /\ Echoes(t) = Echoes(s)
         /\ s.c.sock = "open" => t.ready = s.ready
<1> DEFINE n == s.accepted + 1
           q == [s EXCEPT !.c.queue = Append(@, n), !.accepted = n]
           t == SendMessage(s)
<1>1. /\ s.accepted \in Nat /\ s.c \in Object(s.accepted)
      /\ s.ready \in Seq(Completions)
      /\ s = [c |-> s.c, ready |-> s.ready, accepted |-> s.accepted]
  BY DEF StateOK
<1>2. t = IF s.c.queue = << >> THEN WriteHead(q) ELSE q
  BY DEF SendMessage
<1>3. n \in Nat /\ n = s.accepted + 1 /\ n \in 1 .. n
      /\ 1 .. s.accepted \subseteq 1 .. n
  BY <1>1
<1> HIDE DEF n, t
<1>4. /\ Append(s.c.queue, n) \in Seq(1 .. n)
      /\ Append(s.c.queue, n) # << >>
  <2>1. s.c.queue \in Seq(1 .. s.accepted)
    BY <1>1 DEF Object
  <2>2. s.c.queue \in Seq(1 .. n)
    BY <1>3, <2>1, SeqMonotonic
  <2> QED
    BY <1>3, <2>2, AppendProperties
<1>5. /\ q.c = [s.c EXCEPT !.queue = Append(s.c.queue, n)]
      /\ q.ready = s.ready /\ q.accepted = n
      /\ q = [c |-> q.c, ready |-> q.ready, accepted |-> q.accepted]
  <2>1. ASSUME NEW x, NEW r, r = [s EXCEPT !.c.queue = x, !.accepted = n]
        PROVE  /\ r.c = [s.c EXCEPT !.queue = x]
               /\ r.ready = s.ready /\ r.accepted = n
               /\ r = [c |-> r.c, ready |-> r.ready, accepted |-> r.accepted]
    BY <1>1, <2>1
  <2>2. q = [s EXCEPT !.c.queue = Append(s.c.queue, n), !.accepted = n]
    OBVIOUS
  <2> HIDE DEF q
  <2> QED
    BY <2>1, <2>2, ZenonT(60)
<1> HIDE DEF q
<1>6. StateOK(q)
  BY <1>1, <1>3, <1>4, <1>5 DEF StateOK, Object
<1>7. /\ q.c.kind = s.c.kind /\ q.c.sock = s.c.sock
      /\ q.c.started = s.c.started /\ q.c.queue = Append(s.c.queue, n)
      /\ q.c.reads = s.c.reads /\ q.c.echo = s.c.echo
      /\ q.c.writing = s.c.writing
  BY <1>1, <1>5 DEF Object
<1>8. Writes(q) = Writes(s) /\ Reads(q) = Reads(s) /\ Echoes(q) = Echoes(s)
  BY <1>5, <1>7 DEF Writes, Reads, Echoes
<1>9. CASE s.c.queue # << >>
  <2>1. t = q
    BY <1>2, <1>9
  <2> QED
    BY <1>3, <1>4, <1>5, <1>6, <1>7, <1>8, <1>9, <2>1 DEF Kept, Writer, t
<1>10. CASE s.c.queue = << >>
  <2>1. Writes(s) = 0 /\ ~s.c.writing
    <3>1. Writes(s) \in Nat /\ Cnt(s.ready, WriteCompletions) \in Nat
      BY StateCounts
    <3>2. Writes(s) = 0
      BY <1>10, <3>1 DEF Writer
    <3> QED
      BY <3>1, <3>2 DEF Writes
  <2>2. t = WriteHead(q)
    BY <1>2, <1>10
  <2>3. /\ StateOK(t) /\ Kept(q, t)
        /\ t.c.queue = q.c.queue /\ t.accepted = q.accepted
        /\ Writes(t) = Writes(q) + 1
        /\ Reads(t) = Reads(q) /\ Echoes(t) = Echoes(q)
        /\ q.c.sock = "open" => t.ready = q.ready
    BY <1>6, <1>7, <2>1, <2>2, WriteHeadEffect
  <2>4. /\ Writes(t) = 1 /\ Writer(t)
        /\ t.c.queue = Append(s.c.queue, n) /\ t.accepted = n
    BY <1>4, <1>5, <1>7, <1>8, <2>1, <2>3 DEF Writer
  <2>5. /\ StateOK(t) /\ Kept(s, t) /\ Reads(t) = Reads(s)
        /\ Echoes(t) = Echoes(s)
        /\ s.c.sock = "open" => t.ready = s.ready
    BY <1>5, <1>7, <1>8, <2>3 DEF Kept
  <2> QED
    BY <1>3, <1>10, <2>4, <2>5 DEF t
<1> QED
  BY <1>9, <1>10

\* The numbers up to n + 1
LEMMA UptoNext == \A n \in Nat : Append(Upto(n), n + 1) = Upto(n + 1)
  BY DEF Upto

\* Sending keeps the order: what is on the wire and what waits are the
\* messages sent so far, and the new one is the last.
LEMMA SendMessageChain ==
  ASSUME NEW s, StateOK(s), Writer(s), NEW w \in Seq(1 .. s.accepted),
         Chain(s, w)
  PROVE  Chain(SendMessage(s), w)
<1> DEFINE t == SendMessage(s)
<1>1. /\ Kept(s, t)
      /\ t.c.queue = Append(s.c.queue, s.accepted + 1)
      /\ t.accepted = s.accepted + 1
      /\ Writes(t) = IF s.c.queue = << >> THEN 1 ELSE Writes(s)
      /\ s.c.sock = "open" => t.ready = s.ready
  BY SendMessageEffect
<1> HIDE DEF t
<1>2. s.accepted \in Nat /\ s.c.queue \in Seq(1 .. s.accepted)
      /\ s.ready \in Seq(Completions)
  BY DEF StateOK, Object
<1> SUFFICES ASSUME s.c.kind # "virtual_switch", s.c.sock = "open"
             PROVE  /\ Cnt(t.ready, Failed) = 0
                    /\ t.c.queue # << >> => Writes(t) = 1
                    /\ w \o Unpopped(t) = Upto(t.accepted)
  BY <1>1 DEF Chain, Kept, t
<1>3. /\ Cnt(s.ready, Failed) = 0
      /\ s.c.queue # << >> => Writes(s) = 1
      /\ w \o Unpopped(s) = Upto(s.accepted)
  BY DEF Chain
<1>4. Cnt(s.ready, {"written"}) = 1 => s.c.queue # << >>
  <2>1. Cnt(s.ready, {"written"}) <= Cnt(s.ready, WriteCompletions)
    BY <1>2, CntSubset, KindsOfCompletions
  <2>2. /\ Cnt(s.ready, WriteCompletions) \in Nat
        /\ Cnt(s.ready, {"written"}) \in Nat
    BY StateCounts
  <2> QED
    BY <2>1, <2>2 DEF Writer, Writes
<1>5. Unpopped(t) = Append(Unpopped(s), s.accepted + 1)
  <2>1. s.c.queue # << >> =>
          Tail(Append(s.c.queue, s.accepted + 1))
            = Append(Tail(s.c.queue), s.accepted + 1)
    BY <1>2, HeadTailAppend
  <2> QED
    BY <1>1, <1>4, <2>1 DEF Unpopped
<1>6. Unpopped(s) \in Seq(1 .. s.accepted)
  BY <1>2, <1>4, HeadTailProperties DEF Unpopped
<1>7. w \o Append(Unpopped(s), s.accepted + 1)
        = Append(w \o Unpopped(s), s.accepted + 1)
  BY <1>2, <1>6
<1>8. w \o Unpopped(t) = Upto(t.accepted)
  BY <1>1, <1>2, <1>3, <1>5, <1>7, UptoNext
<1> QED
  BY <1>1, <1>3, <1>8

\* The next read is started, unless the socket was closed.
LEMMA StartReceiveEffect ==
  ASSUME NEW s, StateOK(s)
  PROVE  LET t == StartReceive(s) IN
         /\ StateOK(t) /\ Kept(s, t)
         /\ t.c.queue = s.c.queue /\ t.accepted = s.accepted
         /\ Writes(t) = Writes(s) /\ Echoes(t) = Echoes(s)
         /\ s.c.sock # "closed" => Reads(t) = Reads(s) + 1
         /\ s.c.sock = "open" => t.ready = s.ready
<1> DEFINE t == StartReceive(s)
           Goal == /\ StateOK(t) /\ Kept(s, t)
                   /\ t.c.queue = s.c.queue /\ t.accepted = s.accepted
                   /\ Writes(t) = Writes(s) /\ Echoes(t) = Echoes(s)
                   /\ s.c.sock # "closed" => Reads(t) = Reads(s) + 1
                   /\ s.c.sock = "open" => t.ready = s.ready
<1>1. \A kinds : Cnt(s.ready, kinds) \in Nat
  BY StateCounts
<1>2. CASE s.c.sock \in {"open", "connecting"}
  <2>1. t = [s EXCEPT !.c.reads = @ + 1]
    BY <1>2 DEF StartReceive
  <2>2. /\ t.c = [s.c EXCEPT !.reads = s.c.reads + 1]
        /\ t.ready = s.ready /\ t.accepted = s.accepted
        /\ t = [c |-> t.c, ready |-> t.ready, accepted |-> t.accepted]
        /\ s.c.reads \in Nat /\ s.c \in Object(s.accepted)
    BY <2>1 DEF StateOK, Object
  <2> HIDE DEF t
  <2>3. StateOK(t)
    <3>1. t.c \in Object(s.accepted)
      BY <2>2 DEF Object
    <3>2. s.ready \in Seq(Completions) /\ s.accepted \in Nat
      BY DEF StateOK
    <3> QED
      BY <2>2, <3>1, <3>2 DEF StateOK
  <2>4. /\ t.c.kind = s.c.kind /\ t.c.sock = s.c.sock
        /\ t.c.started = s.c.started /\ t.c.queue = s.c.queue
        /\ t.c.reads = s.c.reads + 1 /\ t.c.echo = s.c.echo
        /\ t.c.writing = s.c.writing
    BY <2>2 DEF StateOK, Object
  <2>5. Goal
    BY <1>1, <2>2, <2>3, <2>4 DEF Kept, Writes, Reads, Echoes
  <2> QED
    BY <2>5 DEF t
<1>3. CASE s.c.sock = "failed"
  <2>1. "read_failed" \in Completions /\ "read_failed" \in ReadCompletions
        /\ "read_failed" \notin WriteCompletions
    BY DEF Completions, ReadCompletions, WriteCompletions
  <2>2. t = Done(s, "read_failed")
    BY <1>3 DEF StartReceive
  <2>3. /\ StateOK(t) /\ t.c = s.c /\ t.accepted = s.accepted
        /\ \A kinds : Cnt(t.ready, kinds)
             = Cnt(s.ready, kinds) + (IF "read_failed" \in kinds THEN 1 ELSE 0)
    BY <2>1, <2>2, DoneEffect
  <2> HIDE DEF t
  <2>4. /\ Cnt(t.ready, WriteCompletions) = Cnt(s.ready, WriteCompletions)
        /\ Cnt(t.ready, ReadCompletions) = Cnt(s.ready, ReadCompletions) + 1
        /\ Cnt(t.ready, {"echo_due"}) = Cnt(s.ready, {"echo_due"})
    BY <1>1, <2>1, <2>3
  <2>5. s.c.reads \in Nat
    BY DEF StateOK, Object
  <2> QED
    <3>1. Reads(t) = Reads(s) + 1
      BY <1>1, <2>3, <2>4, <2>5 DEF Reads
    <3> QED
      BY <1>3, <2>3, <2>4, <3>1 DEF Kept, Writes, Echoes, t
<1>4. CASE s.c.sock = "closed"
  BY <1>4 DEF StartReceive, Kept
<1>5. Goal
  BY <1>2, <1>3, <1>4 DEF StateOK, Object
<1> QED
  BY <1>5

LEMMA StartReceiveChain ==
  ASSUME NEW s, StateOK(s), NEW w, Chain(s, w)
  PROVE  Chain(StartReceive(s), w)
  BY StartReceiveEffect DEF Chain, Kept, Unpopped

LEMMA StartReceiveWriter ==
  ASSUME NEW s, StateOK(s), Writer(s)
  PROVE  Writer(StartReceive(s))
  BY StartReceiveEffect DEF Writer

\* OpenflowConnection::stop: nothing is under way any more but the aborted
\* write is still counted, so the queue is popped once for it.
LEMMA CloseEffect ==
  ASSUME NEW s, StateOK(s)
  PROVE  LET t == Close(s) IN
         /\ StateOK(t) /\ Writes(t) = Writes(s)
         /\ t.c.kind = s.c.kind /\ t.c.queue = s.c.queue
         /\ t.accepted = s.accepted
         /\ t.c.sock = "closed" /\ ~t.c.started
<1> DEFINE d == IF s.c.writing THEN Done(s, "write_aborted") ELSE s
           t == Close(s)
<1>1. "write_aborted" \in Completions /\ "write_aborted" \in WriteCompletions
  BY DEF Completions, WriteCompletions
<1>2. /\ StateOK(d) /\ d.c = s.c /\ d.accepted = s.accepted
      /\ Cnt(d.ready, WriteCompletions) = Writes(s)
  <2>1. CASE s.c.writing
    <3>1. /\ StateOK(d) /\ d.c = s.c /\ d.accepted = s.accepted
          /\ Cnt(d.ready, WriteCompletions)
               = Cnt(s.ready, WriteCompletions) + 1
      BY <1>1, <2>1, DoneEffect
    <3> QED
      BY <2>1, <3>1 DEF Writes
  <2>2. CASE ~s.c.writing
    <3>1. Cnt(s.ready, WriteCompletions) \in Nat
      BY StateCounts
    <3> QED
      BY <2>2, <3>1 DEF Writes
  <2> QED
    BY <2>1, <2>2
<1>3. t = [d EXCEPT !.c.sock = "closed", !.c.writing = FALSE, !.c.reads = 0,
                    !.c.echo = FALSE, !.c.started = FALSE]
  BY DEF Close
<1> HIDE DEF d, t
<1>4. /\ t.c = [d.c EXCEPT !.sock = "closed", !.writing = FALSE, !.reads = 0,
                           !.echo = FALSE, !.started = FALSE]
      /\ t.ready = d.ready /\ t.accepted = d.accepted
      /\ t = [c |-> t.c, ready |-> t.ready, accepted |-> t.accepted]
      /\ d.c \in Object(d.accepted)
  BY <1>2, <1>3 DEF StateOK
<1>5. /\ t.c \in Object(d.accepted) /\ t.c.sock = "closed" /\ ~t.c.started
      /\ ~t.c.writing /\ t.c.kind = d.c.kind /\ t.c.queue = d.c.queue
  <2> DEFINE n == d.accepted
             o == d.c
             p == t.c
  <2>1. o \in Object(n)
        /\ p = [o EXCEPT !.sock = "closed", !.writing = FALSE, !.reads = 0,
                          !.echo = FALSE, !.started = FALSE]
    BY <1>4
  <2> HIDE DEF n, o, p
  <2>2. /\ p \in Object(n) /\ p.sock = "closed" /\ ~p.started
        /\ ~p.writing /\ p.kind = o.kind /\ p.queue = o.queue
    BY <2>1 DEF Object
  <2> QED
    BY <2>2 DEF n, o, p
<1>6. StateOK(t)
  BY <1>2, <1>4, <1>5 DEF StateOK
<1>7. Writes(t) = Writes(s)
  <2>1. Cnt(d.ready, WriteCompletions) \in Nat
    BY <1>2, StateCounts
  <2> QED
    BY <1>2, <1>4, <1>5, <2>1 DEF Writes
<1> QED
  BY <1>2, <1>4, <1>5, <1>6, <1>7 DEF t

\* A closed connection keeps the promises of a switch: it is never reopened.
LEMMA ClosedIsQuiet ==
  ASSUME NEW s, s.c.sock = "closed", ~s.c.started, NEW w
  PROVE  Chain(s, w) /\ Listens(s)
  BY DEF Chain, Listens

\* try_connect of a virtual switch
LEMMA ConnectEffect ==
  ASSUME NEW s, StateOK(s)
  PROVE  LET t == Connect(s) IN
         /\ StateOK(t) /\ t.c.kind = s.c.kind /\ t.c.queue = s.c.queue
         /\ t.c.writing = s.c.writing /\ t.ready = s.ready
         /\ t.accepted = s.accepted
<1> DEFINE t == Connect(s)
<1>1. /\ s.c \in Object(s.accepted) /\ s.accepted \in Nat
      /\ s.ready \in Seq(Completions)
      /\ s = [c |-> s.c, ready |-> s.ready, accepted |-> s.accepted]
  BY DEF StateOK
<1> DEFINE n == s.accepted
           o == s.c
           x == o.session + 1
           p == [o EXCEPT !.sock = "connecting", !.session = x]
<1>2. /\ t.c = p /\ t.ready = s.ready /\ t.accepted = s.accepted
      /\ t = [c |-> t.c, ready |-> t.ready, accepted |-> t.accepted]
  <2>1. t = [s EXCEPT !.c.sock = "connecting", !.c.session = x]
    BY DEF Connect
  <2> HIDE DEF t, x
  <2> QED
    BY <1>1, <2>1
<1>3. x \in Nat /\ o \in Object(n)
  BY <1>1 DEF Object
<1> HIDE DEF t, n, o, x
<1>4. /\ p \in Object(n) /\ p.kind = o.kind /\ p.queue = o.queue
      /\ p.writing = o.writing
  BY <1>3 DEF Object
<1> HIDE DEF p
<1>5. StateOK(t)
  BY <1>1, <1>2, <1>4 DEF StateOK, n
<1> QED
  BY <1>2, <1>4, <1>5 DEF t, o

\* The virtual function stop, called on the state s of a handler that found
\* the object as c
LEMMA StopEffect ==
  ASSUME TypeOK, NEW s, StateOK(s), Writer(s), s.c.kind = c.kind, NEW w
  PROVE  LET t == Stop(s) IN
         /\ StateOK(t) /\ Writer(t)
         /\ t.c.kind = s.c.kind
         /\ t.accepted \in {s.accepted, s.accepted + 1}
         /\ Chain(t, w) /\ Listens(t)
         /\ ~Virtual => t.c.sock = "closed"
<1> DEFINE r == IF SendsOnStop THEN SendMessage(s) ELSE s
           t == Close(r)
<1>1. /\ StateOK(r) /\ Writer(r) /\ r.c.kind = s.c.kind
      /\ r.accepted \in {s.accepted, s.accepted + 1}
  BY SendMessageEffect DEF Kept
<1> HIDE DEF r
<1>2. /\ StateOK(t) /\ Writes(t) = Writes(r)
      /\ t.c.kind = r.c.kind /\ t.c.queue = r.c.queue
      /\ t.accepted = r.accepted
      /\ t.c.sock = "closed" /\ ~t.c.started
  BY <1>1, CloseEffect
<1> HIDE DEF t
<1>3. Writer(t)
  BY <1>1, <1>2 DEF Writer
<1>4. CASE ~(Virtual /\ s.c.started)
  <2>1. Stop(s) = t
    BY <1>4 DEF Stop, t, r
  <2>2. Chain(t, w) /\ Listens(t)
    BY <1>2, ClosedIsQuiet
  <2> QED
    BY <1>1, <1>2, <1>3, <2>1, <2>2
<1>5. CASE Virtual /\ s.c.started
  <2> DEFINE u == Connect(t)
  <2>1. Stop(s) = u
    BY <1>5 DEF Stop, t, r
  <2>2. /\ StateOK(u) /\ u.c.kind = t.c.kind /\ u.c.queue = t.c.queue
        /\ u.c.writing = t.c.writing /\ u.ready = t.ready
        /\ u.accepted = t.accepted
    BY <1>2, ConnectEffect
  <2> HIDE DEF u
  <2>5. Writer(u)
    BY <1>3, <2>2 DEF Writer, Writes
  <2>6. u.c.kind = "virtual_switch"
    BY <1>1, <1>2, <1>5, <2>2 DEF Virtual
  <2>7. Chain(u, w) /\ Listens(u)
    BY <2>6 DEF Chain, Listens
  <2> QED
    BY <1>1, <1>2, <1>5, <2>1, <2>2, <2>5, <2>7
<1> QED
  BY <1>4, <1>5

-----------------------------------------------------------------------------
\* Steps of the connection

\* The variables as a state of the parts of handlers
LEMMA NowIsOK ==
  ASSUME IInv
  PROVE  /\ StateOK(Now) /\ Writer(Now) /\ Chain(Now, wire)
         /\ ~stuck => Listens(Now)
         /\ Now.c = c /\ Now.ready = ready /\ Now.accepted = accepted
         /\ wire \in Seq(1 .. accepted) /\ accepted \in Nat
         /\ ready \in Seq(Completions) /\ c \in Object(accepted)
         /\ TypeOK /\ stuck \in BOOLEAN
<1>1. /\ Now.c = c /\ Now.ready = ready /\ Now.accepted = accepted
      /\ Now = [c |-> c, ready |-> ready, accepted |-> accepted]
  BY DEF Now, Current
<1>2. /\ c \in Object(accepted) /\ accepted \in Nat /\ stuck \in BOOLEAN
      /\ ready \in Seq(Completions) /\ wire \in Seq(1 .. accepted)
  BY DEF IInv, TypeOK, Object
<1>3. StateOK(Now)
  BY <1>1, <1>2 DEF StateOK
<1> QED
  BY <1>1, <1>2, <1>3 DEF IInv

LEMMA Stepping ==
  ASSUME NEW s, s = [c |-> c', ready |-> ready', accepted |-> accepted'],
         StateOK(s), Writer(s), Chain(s, wire'),
         wire' \in Seq(1 .. accepted'),
         stuck' \in BOOLEAN, ~stuck' => Listens(s)
  PROVE  IInv'
<1>1. Now' = s
  BY DEF Now, Current
<1>2. /\ c' \in Object(accepted') /\ accepted' \in Nat
      /\ ready' \in Seq(Completions)
  BY DEF StateOK
<1>3. TypeOK'
  BY <1>2 DEF TypeOK, Object
<1> QED
  BY <1>1, <1>3 DEF IInv

LEMMA Becoming ==
  ASSUME IInv, NEW s, StateOK(s), Becomes(s), Writer(s), Chain(s, wire),
         s.accepted >= accepted,
         stuck' \in BOOLEAN, ~stuck' => Listens(s)
  PROVE  IInv'
<1>1. s = [c |-> c', ready |-> ready', accepted |-> accepted']
  BY DEF Becomes, StateOK
<1>2. wire' \in Seq(1 .. accepted')
  <2>1. wire' \in {<< >>, wire} /\ accepted' = s.accepted
    BY DEF Becomes
  <2>2. wire \in Seq(1 .. accepted) /\ accepted \in Nat
    BY NowIsOK
  <2>3. 1 .. accepted \subseteq 1 .. s.accepted
    BY <2>2 DEF StateOK
  <2>4. wire \in Seq(1 .. s.accepted)
    BY <2>2, <2>3, SeqMonotonic
  <2>5. << >> \in Seq(1 .. s.accepted)
    BY EmptySeq
  <2> QED
    BY <2>1, <2>4, <2>5
<1>3. Chain(s, wire')
  <2>1. s.c.sock = "open" => wire' = wire
    BY DEF Becomes
  <2> QED
    BY <2>1 DEF Chain
<1> QED
  BY <1>1, <1>2, <1>3, Stepping

\* A handler takes its completion from the front of the queue.
LEMMA HandledEffect ==
  ASSUME IInv, ready # << >>
  PROVE  /\ StateOK(Handled)
         /\ Handled.c = c /\ Handled.accepted = accepted
         /\ \A kinds :
              /\ Cnt(Handled.ready, kinds) \in Nat
              /\ Cnt(ready, kinds) = Cnt(Handled.ready, kinds)
                                     + (IF Head(ready) \in kinds THEN 1 ELSE 0)
<1>1. /\ Handled.c = c /\ Handled.accepted = accepted
      /\ Handled.ready = Tail(ready)
      /\ Handled = [c |-> c, ready |-> Tail(ready), accepted |-> accepted]
  BY DEF Handled, Current
<1>2. ready \in Seq(Completions) /\ Tail(ready) \in Seq(Completions)
  BY NowIsOK, HeadTailProperties
<1>3. StateOK(Handled)
  BY <1>1, <1>2, NowIsOK DEF StateOK
<1>4. ASSUME NEW kinds
      PROVE  /\ Cnt(Tail(ready), kinds) \in Nat
             /\ Cnt(ready, kinds) = Cnt(Tail(ready), kinds)
                                    + (IF Head(ready) \in kinds THEN 1 ELSE 0)
  BY <1>2, CntNat, CntTail
<1> QED
  BY <1>1, <1>3, <1>4

\* The same for the handlers of reads, the echo and the connect: what is left
\* is a state whose writes are as they were.
LEMMA HandledOther ==
  ASSUME IInv, ~stuck, ready # << >>, Head(ready) \notin WriteCompletions
  PROVE  /\ StateOK(Handled) /\ Writer(Handled) /\ Chain(Handled, wire)
         /\ Handled.c = c /\ Handled.accepted = accepted
         /\ Reads(Handled) \in Nat /\ Echoes(Handled) \in Nat
         /\ Reads(Now) = Reads(Handled)
              + (IF Head(ready) \in ReadCompletions THEN 1 ELSE 0)
         /\ Echoes(Now) = Echoes(Handled)
              + (IF Head(ready) = "echo_due" THEN 1 ELSE 0)
<1> DEFINE h == Handled
<1>1. /\ StateOK(h) /\ h.c = c /\ h.accepted = accepted
      /\ \A kinds : /\ Cnt(h.ready, kinds) \in Nat
                    /\ Cnt(ready, kinds) = Cnt(h.ready, kinds)
                         + (IF Head(ready) \in kinds THEN 1 ELSE 0)
  BY HandledEffect
<1>2. /\ Now.c = c /\ Now.ready = ready /\ Now.accepted = accepted
      /\ Writer(Now) /\ Chain(Now, wire)
      /\ c.reads \in Nat
  BY NowIsOK DEF Object
<1> HIDE DEF h
<1>3. Head(ready) \notin Failed /\ Head(ready) # "written"
  BY DEF WriteCompletions, Failed
<1>4. /\ Cnt(h.ready, WriteCompletions) = Cnt(ready, WriteCompletions)
      /\ Cnt(h.ready, Failed) = Cnt(ready, Failed)
      /\ Cnt(h.ready, {"written"}) = Cnt(ready, {"written"})
      /\ Cnt(ready, ReadCompletions) = Cnt(h.ready, ReadCompletions)
           + (IF Head(ready) \in ReadCompletions THEN 1 ELSE 0)
      /\ Cnt(ready, {"echo_due"}) = Cnt(h.ready, {"echo_due"})
           + (IF Head(ready) = "echo_due" THEN 1 ELSE 0)
  BY <1>1, <1>3
<1>5. Writes(h) = Writes(Now)
  BY <1>1, <1>2, <1>4 DEF Writes
<1>6. Writer(h)
  BY <1>1, <1>2, <1>5 DEF Writer
<1>7. Chain(h, wire)
  BY <1>1, <1>2, <1>4, <1>5 DEF Chain, Unpopped
<1>8. /\ Reads(Now) = Reads(h)
           + (IF Head(ready) \in ReadCompletions THEN 1 ELSE 0)
      /\ Reads(h) \in Nat
  BY <1>1, <1>2, <1>4 DEF Reads
<1>9. /\ Echoes(Now) = Echoes(h) + (IF Head(ready) = "echo_due" THEN 1 ELSE 0)
      /\ Echoes(h) \in Nat
  BY <1>1, <1>2, <1>4 DEF Echoes
<1> QED
  BY <1>1, <1>6, <1>7, <1>8, <1>9 DEF h

\* handle_send_message finds its message at the front of send_queue and no
\* write under way; the message is popped.
LEMMA PoppedEffect ==
  ASSUME IInv, ~stuck, ready # << >>, Head(ready) \in WriteCompletions
  PROVE  /\ StateOK(Popped) /\ Writes(Popped) = 0 /\ ~Popped.c.writing
         /\ c.queue # << >> /\ Popped.c.queue = Tail(c.queue)
         /\ Kept(Now, Popped) /\ Popped.accepted = accepted
         /\ Reads(Popped) = Reads(Now) /\ Echoes(Popped) = Echoes(Now)
         /\ Writes(Now) = 1
         /\ \A kinds :
              /\ Cnt(Popped.ready, kinds) \in Nat
              /\ Cnt(ready, kinds) = Cnt(Popped.ready, kinds)
                                     + (IF Head(ready) \in kinds THEN 1 ELSE 0)
<1> DEFINE h == Handled
           p == Popped
<1>1. /\ StateOK(h) /\ h.c = c /\ h.accepted = accepted
      /\ \A kinds : /\ Cnt(h.ready, kinds) \in Nat
                    /\ Cnt(ready, kinds) = Cnt(h.ready, kinds)
                         + (IF Head(ready) \in kinds THEN 1 ELSE 0)
  BY HandledEffect
<1>2. /\ Now.c = c /\ Now.ready = ready /\ Now.accepted = accepted
      /\ Writer(Now) /\ c \in Object(accepted) /\ accepted \in Nat
  BY NowIsOK
<1>3. /\ Writes(Now) = 1 /\ ~c.writing /\ c.queue # << >>
      /\ Cnt(h.ready, WriteCompletions) = 0
  <2>1. Cnt(ready, WriteCompletions) = Cnt(h.ready, WriteCompletions) + 1
    BY <1>1
  <2>2. Cnt(h.ready, WriteCompletions) \in Nat
    BY <1>1
  <2> QED
    BY <1>2, <2>1, <2>2 DEF Writer, Writes
<1>4. p = [h EXCEPT !.c.queue = Tail(c.queue)]
  BY <1>1 DEF Popped
<1> HIDE DEF h, p
<1>5. /\ p.c = [c EXCEPT !.queue = Tail(c.queue)]
      /\ p.ready = h.ready /\ p.accepted = accepted
      /\ p = [c |-> p.c, ready |-> p.ready, accepted |-> p.accepted]
      /\ h.ready \in Seq(Completions)
  <2> DEFINE x == Tail(c.queue)
  <2> HIDE DEF x
  <2>1. p = [h EXCEPT !.c.queue = x]
    BY <1>4 DEF x
  <2>2. /\ p.c = [c EXCEPT !.queue = x]
        /\ p.ready = h.ready /\ p.accepted = accepted
        /\ p = [c |-> p.c, ready |-> p.ready, accepted |-> p.accepted]
        /\ h.ready \in Seq(Completions)
    BY <1>1, <2>1 DEF StateOK
  <2> QED
    BY <2>2 DEF x
<1>6. Tail(c.queue) \in Seq(1 .. accepted)
  <2>1. c.queue \in Seq(1 .. accepted)
    BY <1>2 DEF Object
  <2> QED
    BY <1>3, <2>1, HeadTailProperties
<1>7. /\ p.c \in Object(accepted)
      /\ p.c.kind = c.kind /\ p.c.sock = c.sock /\ p.c.started = c.started
      /\ p.c.writing = c.writing /\ p.c.reads = c.reads /\ p.c.echo = c.echo
      /\ p.c.queue = Tail(c.queue)
  BY <1>2, <1>5, <1>6 DEF Object
<1>8. StateOK(p)
  BY <1>2, <1>5, <1>7 DEF StateOK
<1>9. Writes(p) = 0
  BY <1>3, <1>5, <1>7 DEF Writes
<1>10. Reads(p) = Reads(Now) /\ Echoes(p) = Echoes(Now)
  <2>1. Head(ready) \notin ReadCompletions /\ Head(ready) # "echo_due"
    BY KindsOfCompletions
  <2>2. /\ Cnt(ready, ReadCompletions) = Cnt(h.ready, ReadCompletions)
        /\ Cnt(ready, {"echo_due"}) = Cnt(h.ready, {"echo_due"})
    BY <1>1, <2>1
  <2> QED
    BY <1>2, <1>5, <1>7, <2>2 DEF Reads, Echoes
<1> QED
  BY <1>1, <1>2, <1>3, <1>5, <1>7, <1>8, <1>9, <1>10 DEF Kept, p

\* What the other side and the timers cannot disturb
LEMMA ListensKept ==
  ASSUME NEW s, NEW t, Listens(s), Kept(s, t),
         s.c.sock # "closed" => Reads(t) = Reads(s) /\ Echoes(t) = Echoes(s)
  PROVE  Listens(t)
  BY DEF Listens, Kept

-----------------------------------------------------------------------------
\* The handlers

LEMMA WrittenPreserves ==
  ASSUME IInv, HandleWritten
  PROVE  IInv'
<1> DEFINE p == Popped
           t == IF p.c.queue = << >> THEN p ELSE WriteHead(p)
<1>1. ready # << >> /\ Head(ready) = "written" /\ ~stuck /\ Becomes(t)
      /\ stuck' = stuck
  BY DEF HandleWritten, Pending
<1>2. Head(ready) \in WriteCompletions /\ Head(ready) \notin Failed
  BY <1>1 DEF WriteCompletions, Failed
<1>3. /\ StateOK(p) /\ Writes(p) = 0 /\ ~p.c.writing
      /\ c.queue # << >> /\ p.c.queue = Tail(c.queue)
      /\ Kept(Now, p) /\ p.accepted = accepted
      /\ Reads(p) = Reads(Now) /\ Echoes(p) = Echoes(Now)
      /\ \A kinds :
           /\ Cnt(p.ready, kinds) \in Nat
           /\ Cnt(ready, kinds) = Cnt(p.ready, kinds)
                                  + (IF Head(ready) \in kinds THEN 1 ELSE 0)
  BY <1>1, <1>2, PoppedEffect
<1>4. /\ Chain(Now, wire) /\ Listens(Now) /\ Now.c = c /\ Now.ready = ready
      /\ Now.accepted = accepted /\ accepted \in Nat /\ stuck \in BOOLEAN
  BY <1>1, NowIsOK
<1> HIDE DEF p
<1>5. /\ StateOK(t) /\ Kept(p, t)
      /\ t.c.queue = p.c.queue /\ t.accepted = p.accepted
      /\ Writes(t) = IF p.c.queue = << >> THEN 0 ELSE 1
      /\ Reads(t) = Reads(p) /\ Echoes(t) = Echoes(p)
      /\ p.c.sock = "open" => t.ready = p.ready
  <2>1. CASE p.c.queue = << >>
    BY <1>3, <2>1 DEF Kept
  <2>2. CASE p.c.queue # << >>
    BY <1>3, <2>2, WriteHeadEffect
  <2> QED
    BY <2>1, <2>2
<1> HIDE DEF t
<1>6. Writer(t)
  BY <1>5 DEF Writer
<1>7. Chain(t, wire)
  <2> SUFFICES ASSUME t.c.kind # "virtual_switch", t.c.sock = "open"
               PROVE  /\ Cnt(t.ready, Failed) = 0
                      /\ t.c.queue # << >> => Writes(t) = 1
                      /\ wire \o Unpopped(t) = Upto(t.accepted)
    BY <1>3, <1>4, <1>5 DEF Chain, Kept
  <2>1. t.ready = p.ready /\ c.sock = "open" /\ c.kind # "virtual_switch"
    BY <1>3, <1>4, <1>5 DEF Kept
  <2>2. Cnt(ready, Failed) = 0 /\ wire \o Unpopped(Now) = Upto(accepted)
    BY <1>4, <2>1 DEF Chain
  <2>3. Cnt(p.ready, Failed) = 0
    BY <1>2, <1>3, <2>2
  <2>4. Cnt(p.ready, {"written"}) = 0 /\ Cnt(ready, {"written"}) = 1
    <3>1. Cnt(p.ready, {"written"}) <= Cnt(p.ready, WriteCompletions)
      BY <1>3, CntSubset, KindsOfCompletions DEF StateOK
    <3>2. Cnt(p.ready, WriteCompletions) = 0
      <4>1. Cnt(p.ready, WriteCompletions) \in Nat
        BY <1>3
      <4> QED
        BY <1>3, <4>1 DEF Writes
    <3>3. Cnt(p.ready, {"written"}) = 0
      <4>1. Cnt(p.ready, {"written"}) \in Nat
        BY <1>3
      <4> QED
        BY <3>1, <3>2, <4>1
    <3>4. Cnt(ready, {"written"}) = Cnt(p.ready, {"written"}) + 1
      BY <1>1, <1>3
    <3> QED
      BY <3>3, <3>4
  <2>5. Unpopped(t) = Unpopped(Now)
    BY <1>3, <1>4, <1>5, <2>1, <2>4 DEF Unpopped
  <2> QED
    BY <1>3, <1>5, <2>1, <2>2, <2>3, <2>5
<1>8. Listens(t)
  BY <1>3, <1>4, <1>5, ListensKept DEF Kept
<1> QED
  BY <1>1, <1>3, <1>4, <1>5, <1>6, <1>7, <1>8, Becoming

\* What the handlers of failed writes have in common: on a switch the socket
\* is not open any more.
LEMMA WriteFailureFound ==
  ASSUME IInv, ~stuck, ready # << >>, Head(ready) \in Failed
  PROVE  /\ Head(ready) \in WriteCompletions
         /\ c.kind # "virtual_switch" => c.sock \notin {"open", "connecting"}
<1>1. Head(ready) \in WriteCompletions
  BY KindsOfCompletions
<1>2. Chain(Now, wire) /\ Now.c = c /\ Now.ready = ready
  BY NowIsOK
<1>3. Cnt(ready, Failed) # 0
  <2>1. /\ Cnt(Popped.ready, Failed) \in Nat
        /\ Cnt(ready, Failed) = Cnt(Popped.ready, Failed) + 1
    BY <1>1, PoppedEffect
  <2> QED
    BY <2>1
<1> QED
  BY <1>1, <1>2, <1>3 DEF Chain

LEMMA WriteAbortedPreserves ==
  ASSUME IInv, HandleWriteAborted
  PROVE  IInv'
<1> DEFINE p == Popped
<1>1. ready # << >> /\ Head(ready) \in Failed /\ ~stuck /\ Becomes(p)
      /\ stuck' = stuck
  BY DEF HandleWriteAborted, Pending, Failed
<1>2. /\ Head(ready) \in WriteCompletions
      /\ c.kind # "virtual_switch" => c.sock \notin {"open", "connecting"}
  BY <1>1, WriteFailureFound
<1>3. /\ StateOK(p) /\ Writes(p) = 0 /\ Kept(Now, p) /\ p.accepted = accepted
      /\ Reads(p) = Reads(Now) /\ Echoes(p) = Echoes(Now)
  BY <1>1, <1>2, PoppedEffect
<1>4. Now.c = c /\ Listens(Now) /\ accepted \in Nat /\ stuck \in BOOLEAN
  BY <1>1, NowIsOK
<1> HIDE DEF p
<1>5. Writer(p)
  BY <1>3 DEF Writer
<1>6. Chain(p, wire)
  BY <1>2, <1>3, <1>4 DEF Chain, Kept
<1>7. Listens(p)
  BY <1>3, <1>4, ListensKept
<1> QED
  BY <1>1, <1>3, <1>4, <1>5, <1>6, <1>7, Becoming

LEMMA WriteFailedPreserves ==
  ASSUME IInv, HandleWriteFailed
  PROVE  IInv'
<1>1. ready # << >> /\ Head(ready) \in Failed /\ ~stuck
  BY DEF HandleWriteFailed, Pending, Failed
<1>2. /\ Head(ready) \in WriteCompletions
      /\ c.kind # "virtual_switch" => c.sock \notin {"open", "connecting"}
  BY <1>1, WriteFailureFound
<1>3. /\ StateOK(Popped) /\ Writes(Popped) = 0 /\ Kept(Now, Popped)
      /\ Popped.accepted = accepted
  BY <1>1, <1>2, PoppedEffect
<1>4. /\ Now.c = c /\ accepted \in Nat /\ TypeOK
      /\ wire \in Seq(1 .. accepted)
  BY NowIsOK
<1>5. CASE SendsOnStop
  <2> DEFINE s == Handled
  <2>1. s = [c |-> c', ready |-> ready', accepted |-> accepted']
        /\ stuck' = TRUE /\ wire' = wire /\ accepted' = accepted
    BY <1>5 DEF HandleWriteFailed, Handled, Current
  <2>2. StateOK(s) /\ s.c = c
    BY <1>1, HandledEffect
  <2>3. Writes(s) = 0
    <3>1. Popped.ready = s.ready /\ ~c.writing
      <4>1. Popped.ready = s.ready
        BY DEF Popped, Handled, Current
      <4>2. Writes(Now) = 1 /\ Writer(Now) /\ Now.ready = ready
        BY <1>1, <1>2, PoppedEffect, NowIsOK
      <4>3. /\ Cnt(ready, WriteCompletions)
                 = Cnt(Popped.ready, WriteCompletions) + 1
            /\ Cnt(Popped.ready, WriteCompletions) \in Nat
        BY <1>1, <1>2, PoppedEffect
      <4> QED
        BY <1>4, <4>1, <4>2, <4>3 DEF Writes
    <3>2. Cnt(Popped.ready, WriteCompletions) = 0
      <4>1. Cnt(Popped.ready, WriteCompletions) \in Nat
        BY <1>3, StateCounts
      <4> QED
        BY <1>3, <4>1 DEF Writes
    <3> QED
      BY <2>2, <3>1, <3>2 DEF Writes
  <2> HIDE DEF s
  <2>4. Writer(s)
    BY <2>3 DEF Writer
  <2>5. Chain(s, wire')
    BY <1>2, <2>2 DEF Chain
  <2> QED
    BY <1>4, <2>1, <2>2, <2>4, <2>5, Stepping
<1>6. CASE ~SendsOnStop
  <2> DEFINE t == Stop(Popped)
  <2>1. Becomes(t) /\ stuck' = FALSE
    BY <1>6 DEF HandleWriteFailed
  <2>2. Writer(Popped) /\ Popped.c.kind = c.kind
    BY <1>3, <1>4 DEF Writer, Kept
  <2>3. /\ StateOK(t) /\ Writer(t)
        /\ t.accepted \in {accepted, accepted + 1}
        /\ Chain(t, wire) /\ Listens(t)
    BY <1>3, <1>4, <2>2, StopEffect
  <2> HIDE DEF t
  <2>4. t.accepted >= accepted
    BY <1>4, <2>3
  <2>5. stuck' \in BOOLEAN
    BY <2>1
  <2> QED
    BY <2>1, <2>3, <2>4, <2>5, Becoming
<1> QED
  BY <1>5, <1>6

LEMMA ReadFailedPreserves ==
  ASSUME IInv, HandleReadFailed
  PROVE  IInv'
<1> DEFINE t == Stop(Handled)
<1>1. /\ ready # << >> /\ Head(ready) = "read_failed" /\ ~stuck /\ Becomes(t)
      /\ stuck' = stuck
  BY DEF HandleReadFailed, Pending
<1>2. Head(ready) \notin WriteCompletions
  BY <1>1 DEF WriteCompletions
<1>3. /\ StateOK(Handled) /\ Writer(Handled) /\ Handled.c = c
      /\ Handled.accepted = accepted
  BY <1>1, <1>2, HandledOther
<1>4. TypeOK /\ accepted \in Nat /\ stuck \in BOOLEAN
  BY NowIsOK
<1>5. /\ StateOK(t) /\ Writer(t)
      /\ t.accepted \in {accepted, accepted + 1}
      /\ Chain(t, wire) /\ Listens(t)
  BY <1>3, <1>4, StopEffect
<1> HIDE DEF t
<1>6. t.accepted >= accepted /\ stuck' \in BOOLEAN
  BY <1>1, <1>4, <1>5
<1> QED
  BY <1>1, <1>5, <1>6, Becoming

\* receive_body: a switch that is up has read one message and starts the next
\* read, whatever its handler sent.
LEMMA MessagePreserves ==
  ASSUME IInv, NEW kind \in Messages, HandleMessage(kind)
  PROVE  IInv'
<1> DEFINE h == Handled
           r == CASE kind = "echo_request" -> SendMessage(h)
                  [] kind = "bad_hello"    -> Stop(SendMessage(h))
                  [] kind = "other"        -> h
           t == StartReceive(r)
           Good(s) == /\ StateOK(s) /\ Writer(s) /\ Chain(s, wire)
                      /\ s.accepted >= accepted
                      /\ s.c.kind # "virtual_switch" =>
                           /\ s.c.started => s.c.sock # "closed"
                           /\ s.c.sock # "closed" =>
                                /\ Reads(s) + 1 = IF s.c.started THEN 1 ELSE 0
                                /\ Echoes(s) = IF s.c.started THEN 1 ELSE 0
<1>1. /\ ready # << >> /\ Head(ready) = kind /\ ~stuck /\ Becomes(t)
      /\ stuck' = stuck
  BY DEF HandleMessage, Pending
<1>2. /\ Head(ready) \notin WriteCompletions /\ Head(ready) \in ReadCompletions
      /\ Head(ready) # "echo_due"
  BY <1>1 DEF WriteCompletions, ReadCompletions, Messages
<1>3. /\ StateOK(h) /\ Writer(h) /\ Chain(h, wire)
      /\ h.c = c /\ h.accepted = accepted
      /\ Reads(h) \in Nat /\ Echoes(h) \in Nat
      /\ Reads(Now) = Reads(h) + 1 /\ Echoes(Now) = Echoes(h) + 0
  BY <1>1, <1>2, HandledOther
<1>4. /\ TypeOK /\ accepted \in Nat /\ stuck \in BOOLEAN /\ Listens(Now)
      /\ Now.c = c /\ wire \in Seq(1 .. accepted)
  BY <1>1, NowIsOK
<1> HIDE DEF h
<1>5. Good(h)
  BY <1>3, <1>4 DEF Listens
<1> DEFINE q == SendMessage(h)
<1>6. /\ StateOK(q) /\ Kept(h, q) /\ Writer(q) /\ q.accepted = accepted + 1
      /\ Reads(q) = Reads(h) /\ Echoes(q) = Echoes(h) /\ Chain(q, wire)
  BY <1>3, <1>4, SendMessageEffect, SendMessageChain
<1> HIDE DEF q
<1>7. Good(q)
  BY <1>4, <1>5, <1>6 DEF Kept
<1> HIDE DEF r, t, Good
<1>8. r \in {h, q} => IInv'
  <2> SUFFICES ASSUME r \in {h, q} PROVE IInv'
    OBVIOUS
  <2>1. Good(r)
    BY <1>5, <1>7
  <2>2. StateOK(r) /\ Writer(r) /\ Chain(r, wire) /\ r.accepted >= accepted
    BY <2>1 DEF Good
  <2>3. /\ StateOK(t) /\ Kept(r, t) /\ t.accepted = r.accepted
        /\ Echoes(t) = Echoes(r)
        /\ r.c.sock # "closed" => Reads(t) = Reads(r) + 1
    BY <2>2, StartReceiveEffect DEF t
  <2>4. Writer(t) /\ Chain(t, wire)
    BY <2>2, StartReceiveWriter, StartReceiveChain DEF t
  <2>5. Listens(t)
    BY <2>1, <2>3 DEF Good, Listens, Kept
  <2> QED
    BY <1>1, <1>4, <2>2, <2>3, <2>4, <2>5, Becoming
<1>9. r = Stop(q) => IInv'
  <2> SUFFICES ASSUME r = Stop(q) PROVE IInv'
    OBVIOUS
  <2>1. q.c.kind = c.kind
    BY <1>3, <1>6 DEF Kept
  <2>2. /\ StateOK(r) /\ Writer(r) /\ r.c.kind = c.kind
        /\ r.accepted \in {q.accepted, q.accepted + 1}
        /\ Chain(r, wire) /\ Listens(r)
        /\ ~Virtual => r.c.sock = "closed"
    BY <1>4, <1>6, <2>1, StopEffect
  <2>3. /\ StateOK(t) /\ Kept(r, t) /\ t.accepted = r.accepted
    BY <2>2, StartReceiveEffect DEF t
  <2>4. Writer(t) /\ Chain(t, wire)
    BY <2>2, StartReceiveWriter, StartReceiveChain DEF t
  <2>5. Listens(t)
    BY <2>2, <2>3 DEF Listens, Kept, Virtual
  <2>6. t.accepted >= accepted
    BY <1>4, <1>6, <2>2, <2>3
  <2> QED
    BY <1>1, <1>4, <2>3, <2>4, <2>5, <2>6, Becoming
<1>10. r \in {h, q, Stop(q)}
  BY DEF r, q, Messages
<1> QED
  BY <1>8, <1>9, <1>10

LEMMA EchoDuePreserves ==
  ASSUME IInv, HandleEchoDue
  PROVE  IInv'
<1> DEFINE h == Handled
           q == SendMessage(h)
           t == [q EXCEPT !.c.echo = TRUE]
<1>1. /\ ready # << >> /\ Head(ready) = "echo_due" /\ ~stuck /\ Becomes(t)
      /\ stuck' = stuck
  BY DEF HandleEchoDue, Pending
<1>2. Head(ready) \notin WriteCompletions /\ Head(ready) \notin ReadCompletions
  BY <1>1 DEF WriteCompletions, ReadCompletions, Messages
<1>3. /\ StateOK(h) /\ Writer(h) /\ Chain(h, wire)
      /\ h.c = c /\ h.accepted = accepted
      /\ Reads(h) \in Nat /\ Echoes(h) \in Nat
      /\ Reads(Now) = Reads(h) + 0 /\ Echoes(Now) = Echoes(h) + 1
  BY <1>1, <1>2, HandledOther
<1>4. /\ TypeOK /\ accepted \in Nat /\ stuck \in BOOLEAN /\ Listens(Now)
      /\ Now.c = c /\ wire \in Seq(1 .. accepted)
  BY <1>1, NowIsOK
<1> HIDE DEF h
<1>5. /\ StateOK(q) /\ Kept(h, q) /\ Writer(q) /\ q.accepted = accepted + 1
      /\ Reads(q) = Reads(h) /\ Echoes(q) = Echoes(h) /\ Chain(q, wire)
  BY <1>3, <1>4, SendMessageEffect, SendMessageChain
<1> HIDE DEF q
<1>6. /\ StateOK(t) /\ Kept(q, t) /\ t.accepted = q.accepted
      /\ t.c.queue = q.c.queue /\ t.c.writing = q.c.writing
      /\ t.c.reads = q.c.reads /\ t.c.echo /\ t.ready = q.ready
  <2>1. /\ q = [c |-> q.c, ready |-> q.ready, accepted |-> q.accepted]
        /\ q.c \in Object(q.accepted)
    BY <1>5 DEF StateOK
  <2>2. t = [q EXCEPT !.c.echo = TRUE]
    OBVIOUS
  <2> HIDE DEF t
  <2>3. /\ t.c = [q.c EXCEPT !.echo = TRUE]
        /\ t.ready = q.ready /\ t.accepted = q.accepted
        /\ t = [c |-> t.c, ready |-> t.ready, accepted |-> t.accepted]
    BY <1>5, <2>2 DEF StateOK
  <2>4. /\ t.c \in Object(q.accepted) /\ t.c.echo
        /\ t.c.kind = q.c.kind /\ t.c.sock = q.c.sock
        /\ t.c.started = q.c.started /\ t.c.reads = q.c.reads
        /\ t.c.queue = q.c.queue /\ t.c.writing = q.c.writing
    BY <2>1, <2>3 DEF Object
  <2>5. StateOK(t)
    BY <1>5, <2>3, <2>4 DEF StateOK
  <2> QED
    BY <2>3, <2>4, <2>5 DEF Kept
<1> HIDE DEF t
<1>7. Writer(t) /\ Chain(t, wire)
  BY <1>5, <1>6 DEF Writer, Chain, Writes, Unpopped, Kept
<1>8. Listens(t)
  <2>1. Reads(t) = Reads(q)
    BY <1>6 DEF Reads
  <2>2. Echoes(q) = 0 => Echoes(t) = 1
    <3>1. Cnt(q.ready, {"echo_due"}) \in Nat
      BY <1>5, StateCounts
    <3> QED
      BY <1>6, <3>1 DEF Echoes
  <2>3. Kept(Now, t)
    BY <1>3, <1>4, <1>5, <1>6 DEF Kept
  <2>4. c.kind # "virtual_switch" /\ c.sock # "closed" =>
          Reads(t) = Reads(Now) /\ Echoes(t) = Echoes(Now)
    BY <1>3, <1>4, <1>5, <2>1, <2>2 DEF Listens
  <2> QED
    BY <1>4, <2>3, <2>4 DEF Listens, Kept
<1>9. t.accepted >= accepted /\ stuck' \in BOOLEAN
  BY <1>1, <1>4, <1>5, <1>6
<1> QED
  BY <1>1, <1>6, <1>7, <1>8, <1>9, Becoming

\* OpenflowConnection::start: one read and one echo, and the hello is queued.
LEMMA StartConnectionEffect ==
  ASSUME NEW s, StateOK(s), Writer(s), NEW w \in Seq(1 .. s.accepted),
         Chain(s, w), Listens(s), s.c.sock # "closed", ~s.c.started
  PROVE  LET t == StartConnection(s) IN
         /\ StateOK(t) /\ Writer(t) /\ Chain(t, w) /\ Listens(t)
         /\ t.accepted = s.accepted + 1
<1> DEFINE r == StartReceive(s)
           q == [r EXCEPT !.c.echo = TRUE, !.c.started = TRUE]
           t == SendMessage(q)
<1>1. /\ StateOK(r) /\ Kept(s, r)
      /\ r.c.queue = s.c.queue /\ r.accepted = s.accepted
      /\ Writes(r) = Writes(s) /\ Echoes(r) = Echoes(s)
      /\ Reads(r) = Reads(s) + 1
      /\ Writer(r) /\ Chain(r, w)
  BY StartReceiveEffect, StartReceiveWriter, StartReceiveChain
<1> HIDE DEF r
<1>2. /\ StateOK(q) /\ q.c.kind = r.c.kind /\ q.c.sock = r.c.sock
      /\ q.accepted = r.accepted /\ q.c.queue = r.c.queue
      /\ q.c.writing = r.c.writing /\ q.c.reads = r.c.reads
      /\ q.c.echo /\ q.c.started /\ q.ready = r.ready
  <2>1. /\ r = [c |-> r.c, ready |-> r.ready, accepted |-> r.accepted]
        /\ r.c \in Object(r.accepted)
    BY <1>1 DEF StateOK
  <2>2. q = [r EXCEPT !.c.echo = TRUE, !.c.started = TRUE]
    OBVIOUS
  <2> HIDE DEF q
  <2>3. /\ q.c = [r.c EXCEPT !.echo = TRUE, !.started = TRUE]
        /\ q.ready = r.ready /\ q.accepted = r.accepted
        /\ q = [c |-> q.c, ready |-> q.ready, accepted |-> q.accepted]
    BY <1>1, <2>2 DEF StateOK
  <2>4. /\ q.c \in Object(r.accepted) /\ q.c.echo /\ q.c.started
        /\ q.c.kind = r.c.kind /\ q.c.sock = r.c.sock
        /\ q.c.reads = r.c.reads
        /\ q.c.queue = r.c.queue /\ q.c.writing = r.c.writing
    BY <2>1, <2>3 DEF Object
  <2>5. StateOK(q)
    BY <1>1, <2>3, <2>4 DEF StateOK
  <2> QED
    BY <2>3, <2>4, <2>5
<1> HIDE DEF q
<1>3. Writer(q) /\ Chain(q, w)
  BY <1>1, <1>2 DEF Writer, Chain, Writes, Unpopped
<1>4. Reads(q) = Reads(r) /\ (Echoes(r) = 0 => Echoes(q) = 1)
  <2>1. Cnt(r.ready, {"echo_due"}) \in Nat
    BY <1>1, StateCounts
  <2> QED
    BY <1>2, <2>1 DEF Reads, Echoes
<1>5. Listens(q)
  BY <1>1, <1>2, <1>4 DEF Listens, Kept
<1>6. /\ StateOK(t) /\ Kept(q, t) /\ Writer(t)
      /\ t.accepted = q.accepted + 1
      /\ Reads(t) = Reads(q) /\ Echoes(t) = Echoes(q)
  BY <1>2, <1>3, SendMessageEffect
<1>7. w \in Seq(1 .. q.accepted)
  BY <1>1, <1>2
<1>8. Chain(t, w)
  BY <1>2, <1>3, <1>7, SendMessageChain
<1>9. Listens(t)
  BY <1>5, <1>6, ListensKept
<1> QED
  BY <1>1, <1>2, <1>6, <1>8, <1>9 DEF StartConnection, r, q, t

LEMMA ConnectedPreserves ==
  ASSUME IInv, HandleConnected
  PROVE  IInv'
<1> DEFINE h == Handled
           t == IF c.started \/ c.sock = "closed" THEN h
                ELSE StartConnection(h)
<1>1. /\ ready # << >> /\ Head(ready) = "connected" /\ ~stuck /\ Becomes(t)
      /\ stuck' = stuck
  BY DEF HandleConnected, Pending
<1>2. /\ Head(ready) \notin WriteCompletions /\ Head(ready) \notin ReadCompletions
      /\ Head(ready) # "echo_due"
  BY <1>1 DEF WriteCompletions, ReadCompletions, Messages
<1>3. /\ StateOK(h) /\ Writer(h) /\ Chain(h, wire)
      /\ h.c = c /\ h.accepted = accepted
      /\ Reads(h) \in Nat /\ Echoes(h) \in Nat
      /\ Reads(Now) = Reads(h) + 0 /\ Echoes(Now) = Echoes(h) + 0
  BY <1>1, <1>2, HandledOther
<1>4. /\ TypeOK /\ accepted \in Nat /\ stuck \in BOOLEAN /\ Listens(Now)
      /\ Now.c = c /\ wire \in Seq(1 .. accepted)
  BY <1>1, NowIsOK
<1> HIDE DEF h
<1>5. Listens(h)
  BY <1>3, <1>4 DEF Listens
<1>6. /\ StateOK(t) /\ Writer(t) /\ Chain(t, wire) /\ Listens(t)
      /\ t.accepted \in {accepted, accepted + 1}
  BY <1>3, <1>4, <1>5, StartConnectionEffect
<1> HIDE DEF t
<1>7. t.accepted >= accepted /\ stuck' \in BOOLEAN
  BY <1>1, <1>4, <1>6
<1> QED
  BY <1>1, <1>6, <1>7, Becoming

-----------------------------------------------------------------------------
\* The calls of other objects

LEMMA CallsPreserve ==
  ASSUME IInv, Start \/ Send \/ GoDown \/ TryConnect
  PROVE  IInv'
<1>1. /\ StateOK(Now) /\ Writer(Now) /\ Chain(Now, wire)
      /\ ~stuck => Listens(Now)
      /\ Now.c = c /\ Now.ready = ready /\ Now.accepted = accepted
      /\ wire \in Seq(1 .. accepted) /\ accepted \in Nat /\ stuck \in BOOLEAN
  BY NowIsOK
<1>2. Current(ready) = Now
  BY DEF Now
<1>3. CASE Start
  <2> DEFINE t == StartConnection(Now)
  <2>1. /\ ~stuck /\ stuck' = stuck /\ Becomes(t)
        /\ ~c.started /\ c.sock # "closed"
    BY <1>2, <1>3 DEF Start
  <2>2. /\ StateOK(t) /\ Writer(t) /\ Chain(t, wire) /\ Listens(t)
        /\ t.accepted = accepted + 1
    BY <1>1, <2>1, StartConnectionEffect
  <2> HIDE DEF t
  <2>3. t.accepted >= accepted
    BY <1>1, <2>2
  <2> QED
    BY <1>1, <2>1, <2>2, <2>3, Becoming
<1>4. CASE Send
  <2> DEFINE t == SendMessage(Now)
  <2>1. ~stuck /\ stuck' = stuck /\ Becomes(t)
    BY <1>2, <1>4 DEF Send
  <2>2. /\ StateOK(t) /\ Kept(Now, t) /\ Writer(t)
        /\ t.accepted = accepted + 1
        /\ Reads(t) = Reads(Now) /\ Echoes(t) = Echoes(Now)
    BY <1>1, SendMessageEffect
  <2>3. Chain(t, wire)
    BY <1>1, SendMessageChain
  <2>4. Listens(t)
    BY <1>1, <2>1, <2>2, ListensKept
  <2> HIDE DEF t
  <2>5. t.accepted >= accepted
    BY <1>1, <2>2
  <2> QED
    BY <1>1, <2>1, <2>2, <2>3, <2>4, <2>5, Becoming
<1>5. CASE GoDown
  <2> DEFINE t == Close(Now)
  <2>1. ~stuck /\ stuck' = stuck /\ Becomes(t)
    BY <1>2, <1>5 DEF GoDown
  <2>2. /\ StateOK(t) /\ Writes(t) = Writes(Now)
        /\ t.c.queue = c.queue /\ t.accepted = accepted
        /\ t.c.sock = "closed" /\ ~t.c.started
    BY <1>1, CloseEffect
  <2> HIDE DEF t
  <2>3. Writer(t)
    BY <1>1, <2>2 DEF Writer
  <2>4. Chain(t, wire) /\ Listens(t)
    BY <2>2, ClosedIsQuiet
  <2> QED
    BY <1>1, <2>1, <2>2, <2>3, <2>4, Becoming
<1>6. CASE TryConnect
  <2> DEFINE t == Connect(Now)
  <2>1. ~stuck /\ stuck' = stuck /\ Becomes(t) /\ c.kind = "virtual_switch"
    BY <1>2, <1>6 DEF TryConnect, Virtual
  <2>2. /\ StateOK(t) /\ t.c.kind = c.kind /\ t.c.queue = c.queue
        /\ t.c.writing = c.writing /\ t.ready = ready
        /\ t.accepted = accepted
    BY <1>1, ConnectEffect
  <2> HIDE DEF t
  <2>3. Writer(t) /\ Chain(t, wire) /\ Listens(t)
    BY <1>1, <2>1, <2>2 DEF Writer, Writes, Chain, Listens
  <2> QED
    BY <1>1, <2>1, <2>2, <2>3, Becoming
<1> QED
  BY <1>3, <1>4, <1>5, <1>6

-----------------------------------------------------------------------------
\* The network and the timer

\* The written front of the queue is the next message on the wire.
LEMMA WriteCompletesPreserves ==
  ASSUME IInv, WriteCompletes
  PROVE  IInv'
<1> DEFINE q == Append(ready, "written")
           o == [c EXCEPT !.writing = FALSE]
           s == [c |-> o, ready |-> q, accepted |-> accepted]
<1>1. /\ StateOK(Now) /\ Writer(Now) /\ Chain(Now, wire) /\ Listens(Now)
      /\ Now.c = c /\ Now.ready = ready /\ Now.accepted = accepted
      /\ wire \in Seq(1 .. accepted) /\ accepted \in Nat /\ stuck \in BOOLEAN
      /\ ready \in Seq(Completions) /\ c \in Object(accepted)
  BY NowIsOK DEF WriteCompletes, Event
<1>2. /\ c' = o /\ ready' = q /\ accepted' = accepted /\ stuck' = stuck
      /\ c.writing /\ c.sock = "open"
      /\ wire' = Append(wire, Head(c.queue))
  BY DEF WriteCompletes
<1>3. "written" \in Completions /\ "written" \in WriteCompletions
      /\ "written" \notin Failed /\ "written" \notin ReadCompletions
  BY KindsOfCompletions DEF WriteCompletions
<1>4. /\ q \in Seq(Completions)
      /\ \A kinds : /\ Cnt(q, kinds) = Cnt(ready, kinds)
                         + (IF "written" \in kinds THEN 1 ELSE 0)
                    /\ Cnt(ready, kinds) \in Nat
  <2>1. ASSUME NEW kinds
        PROVE  /\ q \in Seq(Completions)
               /\ Cnt(q, kinds) = Cnt(ready, kinds)
                    + (IF "written" \in kinds THEN 1 ELSE 0)
               /\ Cnt(ready, kinds) \in Nat
    <3>1. Cnt(ready, kinds) \in Nat
      BY <1>1, CntNat
    <3>2. /\ Append(ready, "written") \in Seq(Completions)
          /\ Cnt(Append(ready, "written"), kinds)
               = Cnt(ready, kinds) + (IF "written" \in kinds THEN 1 ELSE 0)
      BY <1>1, <1>3, CntAppend
    <3> QED
      BY <3>1, <3>2
  <2> QED
    BY <2>1
<1>5. /\ o \in Object(accepted)
      /\ o.kind = c.kind /\ o.sock = c.sock /\ o.started = c.started
      /\ o.queue = c.queue /\ o.reads = c.reads /\ o.echo = c.echo
      /\ ~o.writing
  BY <1>1 DEF Object
<1>6. s.c = o /\ s.ready = q /\ s.accepted = accepted
  OBVIOUS
<1> HIDE DEF q, o
<1>7. StateOK(s)
  BY <1>1, <1>4, <1>5 DEF StateOK
<1> HIDE DEF s
<1>8. /\ Cnt(ready, WriteCompletions) = 0 /\ Writes(Now) = 1
      /\ c.queue # << >>
  <2>1. Cnt(ready, WriteCompletions) \in Nat
    BY <1>4
  <2>2. Writes(Now) = Cnt(ready, WriteCompletions) + 1
    BY <1>1, <1>2 DEF Writes
  <2> QED
    BY <1>1, <2>1, <2>2 DEF Writer
<1>9. Writes(s) = 1 /\ Reads(s) = Reads(Now) /\ Echoes(s) = Echoes(Now)
  <2>1. /\ Cnt(q, WriteCompletions) = 1
        /\ Cnt(q, ReadCompletions) = Cnt(ready, ReadCompletions)
        /\ Cnt(q, {"echo_due"}) = Cnt(ready, {"echo_due"})
    BY <1>3, <1>4, <1>8
  <2> QED
    BY <1>1, <1>5, <1>6, <2>1 DEF Writes, Reads, Echoes
<1>10. Writer(s)
  BY <1>5, <1>6, <1>8, <1>9 DEF Writer
<1>11. c.queue \in Seq(1 .. accepted) /\ Head(c.queue) \in 1 .. accepted
       /\ Tail(c.queue) \in Seq(1 .. accepted)
  <2>1. c.queue \in Seq(1 .. accepted)
    BY <1>1 DEF Object
  <2> QED
    BY <1>8, <2>1, HeadTailProperties
<1>12. wire' \in Seq(1 .. accepted')
  BY <1>1, <1>2, <1>11, AppendProperties
<1>13. Chain(s, wire')
  <2> SUFFICES ASSUME c.kind # "virtual_switch"
               PROVE  /\ Cnt(q, Failed) = 0
                      /\ wire' \o Unpopped(s) = Upto(accepted)
    BY <1>2, <1>5, <1>6, <1>9 DEF Chain
  <2>1. Cnt(ready, Failed) = 0 /\ wire \o Unpopped(Now) = Upto(accepted)
    BY <1>1, <1>2 DEF Chain
  <2>2. Cnt(ready, {"written"}) = 0
    <3>1. Cnt(ready, {"written"}) <= Cnt(ready, WriteCompletions)
      BY <1>1, CntSubset, KindsOfCompletions
    <3>2. Cnt(ready, {"written"}) \in Nat
      BY <1>4
    <3> QED
      BY <1>8, <3>1, <3>2
  <2>3. Unpopped(Now) = c.queue
    BY <1>1, <2>2 DEF Unpopped
  <2>4. Cnt(q, {"written"}) = 1
    <3>1. Cnt(q, {"written"}) = Cnt(ready, {"written"}) + 1
      BY <1>4
    <3> QED
      BY <2>2, <3>1
  <2>5. Unpopped(s) = Tail(c.queue)
    BY <1>5, <1>6, <2>4 DEF Unpopped
  <2>6. Append(wire, Head(c.queue)) \o Tail(c.queue) = wire \o c.queue
    <3> DEFINE x == Head(c.queue)
               u == Tail(c.queue)
    <3>1. <<x>> \o u = c.queue
      BY <1>8, <1>11
    <3>2. <<x>> \in Seq(1 .. accepted) /\ u \in Seq(1 .. accepted)
      BY <1>11
    <3>3. x \in 1 .. accepted
      BY <1>11
    <3> HIDE DEF x, u
    <3>4. Append(wire, x) = wire \o <<x>>
      BY <1>1, <3>3, AppendIsConcat
    <3>5. (wire \o <<x>>) \o u = wire \o (<<x>> \o u)
      BY <1>1, <3>2, ConcatAssociative
    <3> QED
      BY <3>1, <3>4, <3>5 DEF x, u
  <2>7. Cnt(q, Failed) = 0
    BY <1>3, <1>4, <2>1
  <2> QED
    BY <1>2, <2>1, <2>3, <2>5, <2>6, <2>7
<1>14. Listens(s)
  BY <1>1, <1>5, <1>6, <1>9, ListensKept DEF Kept
<1>15. s = [c |-> c', ready |-> ready', accepted |-> accepted']
  BY <1>2 DEF s
<1> QED
  BY <1>1, <1>2, <1>7, <1>10, <1>12, <1>13, <1>14, <1>15, Stepping

\* A read, the echo timer or the connect completes: what was under way is
\* queued instead.
LEMMA CompletionPreserves ==
  ASSUME IInv, NEW o \in Object(accepted), NEW k \in Completions,
         k \notin WriteCompletions, ~stuck,
         c' = o, ready' = Append(ready, k),
         wire' = wire, accepted' = accepted, stuck' = stuck,
         o.kind = c.kind, o.started = c.started, o.queue = c.queue,
         o.writing = c.writing,
         c.kind # "virtual_switch" => o.sock = c.sock,
         c.reads = o.reads + (IF k \in ReadCompletions THEN 1 ELSE 0),
         (IF c.echo THEN 1 ELSE 0)
           = (IF o.echo THEN 1 ELSE 0) + (IF k = "echo_due" THEN 1 ELSE 0)
  PROVE  IInv'
<1> DEFINE q == Append(ready, k)
           s == [c |-> o, ready |-> q, accepted |-> accepted]
<1>1. /\ Writer(Now) /\ Chain(Now, wire) /\ Listens(Now)
      /\ Now.c = c /\ Now.ready = ready /\ Now.accepted = accepted
      /\ wire \in Seq(1 .. accepted) /\ accepted \in Nat /\ stuck \in BOOLEAN
      /\ ready \in Seq(Completions)
  BY NowIsOK
<1>2. k # "written" /\ k \notin Failed
  BY KindsOfCompletions
<1>3. /\ q \in Seq(Completions)
      /\ \A kinds : /\ Cnt(q, kinds) = Cnt(ready, kinds)
                                       + (IF k \in kinds THEN 1 ELSE 0)
                    /\ Cnt(ready, kinds) \in Nat
  <2>1. ASSUME NEW kinds
        PROVE  /\ q \in Seq(Completions)
               /\ Cnt(q, kinds) = Cnt(ready, kinds)
                                  + (IF k \in kinds THEN 1 ELSE 0)
               /\ Cnt(ready, kinds) \in Nat
    <3>1. Cnt(ready, kinds) \in Nat
      BY <1>1, CntNat
    <3>2. /\ Append(ready, k) \in Seq(Completions)
          /\ Cnt(Append(ready, k), kinds)
               = Cnt(ready, kinds) + (IF k \in kinds THEN 1 ELSE 0)
      BY <1>1, CntAppend
    <3> QED
      BY <3>1, <3>2
  <2> QED
    BY <2>1
<1>4. s.c = o /\ s.ready = q /\ s.accepted = accepted
      /\ s = [c |-> c', ready |-> ready', accepted |-> accepted']
  OBVIOUS
<1> HIDE DEF q
<1>5. StateOK(s)
  BY <1>1, <1>3 DEF StateOK
<1> HIDE DEF s
<1>6. /\ Cnt(q, WriteCompletions) = Cnt(ready, WriteCompletions)
      /\ Cnt(q, Failed) = Cnt(ready, Failed)
      /\ Cnt(q, {"written"}) = Cnt(ready, {"written"})
      /\ Cnt(q, ReadCompletions) = Cnt(ready, ReadCompletions)
           + (IF k \in ReadCompletions THEN 1 ELSE 0)
      /\ Cnt(q, {"echo_due"}) = Cnt(ready, {"echo_due"})
           + (IF k = "echo_due" THEN 1 ELSE 0)
      /\ Cnt(ready, ReadCompletions) \in Nat
      /\ Cnt(ready, {"echo_due"}) \in Nat
  BY <1>2, <1>3
<1>7. Writes(s) = Writes(Now)
  BY <1>1, <1>4, <1>6 DEF Writes
<1>8. Writer(s) /\ Chain(s, wire)
  BY <1>1, <1>4, <1>6, <1>7 DEF Writer, Chain, Unpopped
<1>9. Reads(s) = Reads(Now) /\ Echoes(s) = Echoes(Now)
  <2>1. o.reads \in Nat
    BY DEF Object
  <2>2. Reads(s) = Reads(Now)
    <3>1. Reads(s) = o.reads + Cnt(q, ReadCompletions)
      BY <1>4 DEF Reads
    <3>2. Reads(Now) = c.reads + Cnt(ready, ReadCompletions)
      BY <1>1 DEF Reads
    <3> QED
      BY <1>6, <2>1, <3>1, <3>2
  <2>3. Echoes(s) = Echoes(Now)
    <3>1. Echoes(s) = Cnt(q, {"echo_due"}) + (IF o.echo THEN 1 ELSE 0)
      BY <1>4 DEF Echoes
    <3>2. Echoes(Now) = Cnt(ready, {"echo_due"}) + (IF c.echo THEN 1 ELSE 0)
      BY <1>1 DEF Echoes
    <3> QED
      BY <1>6, <3>1, <3>2
  <2> QED
    BY <2>2, <2>3
<1>10. Listens(s)
  BY <1>1, <1>4, <1>9 DEF Listens
<1> QED
  BY <1>1, <1>4, <1>5, <1>8, <1>10, Stepping

\* A reset fails the write and the reads that were under way, each once.
LEMMA BreakPreserves ==
  ASSUME IInv, ConnectionBreaks
  PROVE  IInv'
<1> DEFINE b == IF c.writing THEN <<"write_failed">> ELSE << >>
           d == [i \in 1 .. c.reads |-> "read_failed"]
           q == (ready \o b) \o d
           o == [c EXCEPT !.sock = "failed", !.writing = FALSE, !.reads = 0]
           s == [c |-> o, ready |-> q, accepted |-> accepted]
<1>1. /\ Writer(Now) /\ Chain(Now, wire) /\ Listens(Now) /\ ~stuck
      /\ Now.c = c /\ Now.ready = ready /\ Now.accepted = accepted
      /\ wire \in Seq(1 .. accepted) /\ accepted \in Nat /\ stuck \in BOOLEAN
      /\ ready \in Seq(Completions) /\ c \in Object(accepted)
      /\ c.reads \in Nat
  BY NowIsOK DEF ConnectionBreaks, Event, Object
<1>2. /\ s = [c |-> c', ready |-> ready', accepted |-> accepted']
      /\ accepted' = accepted /\ stuck' = stuck /\ wire' = wire
      /\ c.sock = "open"
      /\ s.c = o /\ s.ready = q /\ s.accepted = accepted
  BY DEF ConnectionBreaks
<1>3. /\ o \in Object(accepted) /\ o.sock = "failed" /\ o.kind = c.kind
      /\ o.started = c.started /\ o.queue = c.queue /\ o.echo = c.echo
      /\ ~o.writing /\ o.reads = 0
  BY <1>1 DEF Object
<1> HIDE DEF o
<1>4. /\ "write_failed" \in Completions /\ "read_failed" \in Completions
      /\ "write_failed" \in WriteCompletions
      /\ "write_failed" \notin ReadCompletions
      /\ "read_failed" \in ReadCompletions
      /\ "read_failed" \notin WriteCompletions
  BY DEF Completions, WriteCompletions, ReadCompletions, Messages
<1>5. b \in Seq(Completions) /\ d \in Seq(Completions)
  <2>1. d \in Seq(Completions)
    BY <1>1, <1>4, CntBlock
  <2>2. b \in Seq(Completions)
    BY <1>4
  <2> QED
    BY <2>1, <2>2
<1>6. ASSUME NEW kinds
      PROVE  /\ Cnt(b, kinds) = IF c.writing /\ "write_failed" \in kinds
                                THEN 1 ELSE 0
             /\ Cnt(d, kinds) = IF "read_failed" \in kinds THEN c.reads ELSE 0
             /\ Cnt(ready, kinds) \in Nat
             /\ q \in Seq(Completions)
             /\ Cnt(q, kinds) = Cnt(ready, kinds) + Cnt(b, kinds)
                                  + Cnt(d, kinds)
  <2>1. Cnt(b, kinds) = IF c.writing /\ "write_failed" \in kinds THEN 1 ELSE 0
    BY CntSingle, CntEmpty
  <2>2. Cnt(d, kinds) = IF "read_failed" \in kinds THEN c.reads ELSE 0
    <3> DEFINE r == "read_failed"
               n == c.reads
    <3>1. r \in Completions /\ n \in Nat /\ d = [i \in 1 .. n |-> r]
      BY <1>1, <1>4
    <3> HIDE DEF r, n, d
    <3>2. Cnt([i \in 1 .. n |-> r], kinds) = IF r \in kinds THEN n ELSE 0
      BY <3>1, CntBlock
    <3>3. Cnt(d, kinds) = IF r \in kinds THEN n ELSE 0
      BY <3>1, <3>2
    <3> QED
      BY <3>3 DEF r, n
  <2>3. Cnt(ready, kinds) \in Nat
    BY <1>1, CntNat
  <2> HIDE DEF b, d
  <2>4. /\ ready \o b \in Seq(Completions)
        /\ Cnt(ready \o b, kinds) = Cnt(ready, kinds) + Cnt(b, kinds)
    BY <1>1, <1>5, CntConcat, ConcatProperties
  <2>5. /\ q \in Seq(Completions)
        /\ Cnt(q, kinds) = Cnt(ready \o b, kinds) + Cnt(d, kinds)
    BY <1>5, <2>4, CntConcat, ConcatProperties, ZenonT(60)
  <2> QED
    BY <2>1, <2>2, <2>3, <2>4, <2>5
<1> HIDE DEF b, d, q
<1>7. /\ q \in Seq(Completions)
      /\ Cnt(q, WriteCompletions)
           = Cnt(ready, WriteCompletions) + (IF c.writing THEN 1 ELSE 0)
      /\ Cnt(q, ReadCompletions) = Cnt(ready, ReadCompletions) + c.reads
      /\ Cnt(q, {"echo_due"}) = Cnt(ready, {"echo_due"})
      /\ Cnt(ready, ReadCompletions) \in Nat
      /\ Cnt(ready, WriteCompletions) \in Nat
      /\ Cnt(ready, {"echo_due"}) \in Nat
  <2>1. /\ Cnt(b, WriteCompletions) = IF c.writing THEN 1 ELSE 0
        /\ Cnt(d, WriteCompletions) = 0
        /\ Cnt(ready, WriteCompletions) \in Nat
        /\ q \in Seq(Completions)
        /\ Cnt(q, WriteCompletions)
             = Cnt(ready, WriteCompletions) + Cnt(b, WriteCompletions)
                 + Cnt(d, WriteCompletions)
    BY <1>4, <1>6
  <2>2. /\ Cnt(b, ReadCompletions) = 0
        /\ Cnt(d, ReadCompletions) = c.reads
        /\ Cnt(ready, ReadCompletions) \in Nat
        /\ Cnt(q, ReadCompletions)
             = Cnt(ready, ReadCompletions) + Cnt(b, ReadCompletions)
                 + Cnt(d, ReadCompletions)
    BY <1>4, <1>6
  <2>3. /\ Cnt(b, {"echo_due"}) = 0
        /\ Cnt(d, {"echo_due"}) = 0
        /\ Cnt(ready, {"echo_due"}) \in Nat
        /\ Cnt(q, {"echo_due"})
             = Cnt(ready, {"echo_due"}) + Cnt(b, {"echo_due"})
                 + Cnt(d, {"echo_due"})
    <3>1. "write_failed" \notin {"echo_due"} /\ "read_failed" \notin {"echo_due"}
      OBVIOUS
    <3> QED
      BY <3>1, <1>6
  <2>4. Cnt(q, WriteCompletions)
          = Cnt(ready, WriteCompletions) + (IF c.writing THEN 1 ELSE 0)
    BY <2>1
  <2>5. Cnt(q, ReadCompletions) = Cnt(ready, ReadCompletions) + c.reads
    BY <1>1, <2>2
  <2>6. Cnt(q, {"echo_due"}) = Cnt(ready, {"echo_due"})
    BY <2>3
  <2> QED
    BY <2>1, <2>2, <2>3, <2>4, <2>5, <2>6
<1>8. StateOK(s)
  BY <1>1, <1>3, <1>7 DEF StateOK
<1> HIDE DEF s
<1>9. Writes(s) = Writes(Now)
  BY <1>1, <1>2, <1>3, <1>7 DEF Writes
<1>10. Reads(s) = Reads(Now)
  <2> DEFINE k == Cnt(q, ReadCompletions)
             m == Cnt(ready, ReadCompletions)
  <2>1. Reads(s) = s.c.reads + k /\ Reads(Now) = c.reads + m
    BY <1>1, <1>2 DEF Reads
  <2>2. k = m + c.reads /\ m \in Nat /\ s.c.reads = 0
    BY <1>2, <1>3, <1>7
  <2> HIDE DEF k, m
  <2> QED
    BY <1>1, <2>1, <2>2
<1>11. Echoes(s) = Echoes(Now)
  BY <1>1, <1>2, <1>3, <1>7 DEF Echoes
<1>12. Writer(s) /\ Chain(s, wire)
  BY <1>1, <1>2, <1>3, <1>9 DEF Writer, Chain
<1>13. Listens(s)
  BY <1>1, <1>2, <1>3, <1>10, <1>11 DEF Listens
<1> QED
  BY <1>1, <1>2, <1>8, <1>12, <1>13, Stepping

LEMMA OtherEventsPreserve ==
  ASSUME IInv,
         \/ PeerCloses \/ EchoExpires \/ ConnectSucceeds
         \/ \E kind \in Messages : MessageArrives(kind)
  PROVE  IInv'
<1>1. /\ c \in Object(accepted) /\ c.reads \in Nat /\ Now.c = c
      /\ Chain(Now, wire)
  BY NowIsOK DEF Object
<1>2. ASSUME NEW k \in ReadCompletions, Event, c.reads > 0,
             c' = [c EXCEPT !.reads = @ - 1], ready' = Append(ready, k),
             UNCHANGED <<wire, accepted, stuck>>
      PROVE  IInv'
  <2> DEFINE o == [c EXCEPT !.reads = @ - 1]
  <2>1. c.reads - 1 \in Nat
    BY <1>1, <1>2
  <2>2. /\ o \in Object(accepted) /\ o.reads = c.reads - 1
        /\ o.kind = c.kind /\ o.started = c.started /\ o.queue = c.queue
        /\ o.writing = c.writing /\ o.sock = c.sock /\ o.echo = c.echo
    BY <1>1, <2>1 DEF Object
  <2>3. k \in Completions /\ k \notin WriteCompletions /\ k # "echo_due"
    BY KindsOfCompletions
  <2>4. c' = o
    BY <1>2
  <2>5. c.reads = o.reads + (IF k \in ReadCompletions THEN 1 ELSE 0)
    BY <1>1, <2>2
  <2> HIDE DEF o
  <2> QED
    BY <1>2, <2>2, <2>3, <2>4, <2>5, CompletionPreserves DEF Event
<1>3. CASE PeerCloses
  BY <1>2, <1>3 DEF PeerCloses, ReadCompletions
<1>4. CASE \E kind \in Messages : MessageArrives(kind)
  BY <1>2, <1>4 DEF MessageArrives, ReadCompletions
<1>5. CASE EchoExpires
  <2> DEFINE o == [c EXCEPT !.echo = FALSE]
  <2>1. /\ o \in Object(accepted) /\ o.reads = c.reads /\ ~o.echo
        /\ o.kind = c.kind /\ o.started = c.started /\ o.queue = c.queue
        /\ o.writing = c.writing /\ o.sock = c.sock
    BY <1>1 DEF Object
  <2>2. "echo_due" \in Completions /\ "echo_due" \notin WriteCompletions
        /\ "echo_due" \notin ReadCompletions
    BY KindsOfCompletions
  <2>3. /\ c' = o /\ ready' = Append(ready, "echo_due") /\ ~stuck /\ c.echo
        /\ UNCHANGED <<wire, accepted, stuck>>
    BY <1>5 DEF EchoExpires, Event
  <2>4. c.reads = o.reads + (IF "echo_due" \in ReadCompletions THEN 1 ELSE 0)
    BY <1>1, <2>1, <2>2
  <2> HIDE DEF o
  <2> QED
    BY <2>1, <2>2, <2>3, <2>4, CompletionPreserves
<1>6. CASE ConnectSucceeds
  <2> DEFINE o == [c EXCEPT !.sock = "open"]
  <2>1. /\ o \in Object(accepted) /\ o.reads = c.reads /\ o.echo = c.echo
        /\ o.kind = c.kind /\ o.started = c.started /\ o.queue = c.queue
        /\ o.writing = c.writing
    BY <1>1 DEF Object
  <2>2. "connected" \in Completions /\ "connected" \notin WriteCompletions
        /\ "connected" \notin ReadCompletions
    BY KindsOfCompletions
  <2>3. /\ c' = o /\ ready' = Append(ready, "connected") /\ ~stuck
        /\ c.sock = "connecting" /\ UNCHANGED <<wire, accepted, stuck>>
    BY <1>6 DEF ConnectSucceeds, Event
  <2>4. c.kind = "virtual_switch"
    BY <1>1, <2>3 DEF Chain
  <2>5. c.reads = o.reads + (IF "connected" \in ReadCompletions THEN 1 ELSE 0)
    BY <1>1, <2>1, <2>2
  <2> HIDE DEF o
  <2> QED
    BY <2>1, <2>2, <2>3, <2>4, <2>5, CompletionPreserves
<1> QED
  BY <1>3, <1>4, <1>5, <1>6

-----------------------------------------------------------------------------
\* Theorems

LEMMA IInvInit == Init => IInv
<1> SUFFICES ASSUME Init PROVE IInv
  OBVIOUS
<1>1. /\ ready = << >> /\ wire = << >> /\ accepted = 0 /\ stuck = FALSE
      /\ c \in Object(0) /\ c.queue = << >> /\ ~c.writing /\ c.reads = 0
      /\ ~c.echo /\ ~c.started
      /\ c.kind # "virtual_switch" => c.sock = "open"
  <2>1. << >> \in Seq(1 .. 0)
    BY EmptySeq
  <2> QED
    BY <2>1 DEF Init, Object, Kinds
<1>2. /\ Now.c = c /\ Now.ready = << >> /\ Now.accepted = 0
      /\ Now = [c |-> c, ready |-> << >>, accepted |-> 0]
  BY <1>1 DEF Now, Current
<1>3. \A kinds : Cnt(<< >>, kinds) = 0
  BY CntEmpty
<1>4. << >> \in Seq(Completions)
  BY EmptySeq
<1>5. TypeOK
  BY <1>1, <1>4 DEF TypeOK, Object
<1>6. Writes(Now) = 0 /\ Reads(Now) = 0 /\ Echoes(Now) = 0
  BY <1>1, <1>2, <1>3 DEF Writes, Reads, Echoes
<1>7. Unpopped(Now) = << >> /\ << >> \o << >> = Upto(0)
  BY <1>1, <1>2, <1>3 DEF Unpopped, Upto
<1> QED
  BY <1>1, <1>2, <1>3, <1>5, <1>6, <1>7 DEF IInv, Writer, Chain, Listens

\* The inductive invariant: the chain of writes, the order of the messages and
\* the read and echo of a switch, whatever completes or fails in which order.
THEOREM InductiveInvariant == Spec => []IInv
<1>1. Init => IInv
  BY IInvInit
<1>2. IInv /\ [Next]_vars => IInv'
  <2> SUFFICES ASSUME IInv, [Next]_vars PROVE IInv'
    OBVIOUS
  <2>1. CASE WriteCompletes
    BY <2>1, WriteCompletesPreserves
  <2>2. CASE \/ PeerCloses \/ EchoExpires \/ ConnectSucceeds
             \/ \E kind \in Messages : MessageArrives(kind)
    BY <2>2, OtherEventsPreserve
  <2>3. CASE ConnectionBreaks
    BY <2>3, BreakPreserves
  <2>4. CASE Start \/ Send \/ GoDown \/ TryConnect
    BY <2>4, CallsPreserve
  <2>5. CASE HandleWrite
    BY <2>5, WrittenPreserves, WriteAbortedPreserves, WriteFailedPreserves
       DEF HandleWrite
  <2>6. CASE HandleRead
    BY <2>6, ReadFailedPreserves, MessagePreserves DEF HandleRead
  <2>7. CASE HandleEchoDue
    BY <2>7, EchoDuePreserves
  <2>8. CASE HandleConnected
    BY <2>8, ConnectedPreserves
  <2>9. CASE UNCHANGED vars
    <3>1. Now' = Now
      BY <2>9 DEF vars, Now, Current
    <3> QED
      BY <2>9, <3>1 DEF vars, IInv, TypeOK, Chain
  <2> QED
    BY <2>1, <2>2, <2>3, <2>4, <2>5, <2>6, <2>7, <2>8, <2>9 DEF Next, Handle
<1> QED
  BY <1>1, <1>2, PTL DEF Spec

\* The counts of the properties are those of the invariant.
LEMMA CountIsCnt ==
  /\ \A kinds : Count(kinds) = Cnt(Now.ready, kinds)
  /\ Now.c = c /\ Now.accepted = accepted
  BY DEF Count, Cnt, Now, Current

\* No handler stores a value outside its type; send_queue and the wire only
\* hold messages that were given to send_message.
THEOREM TypeCorrect == Spec => []TypeOK
<1>1. IInv => TypeOK
  BY DEF IInv
<1> QED
  BY <1>1, InductiveInvariant, PTL

\* At most one async_write is under way or has its handler queued, and its
\* message is still at the front of send_queue: the pop of handle_send_message
\* never meets an empty queue, even when stop, a reconnect and new messages
\* come between the write and its handler.
THEOREM OneWriterEver == Spec => []OneWriter
<1>1. IInv => OneWriter
  BY CountIsCnt DEF IInv, Writer, Writes, OneWriter
<1> QED
  BY <1>1, InductiveInvariant, PTL

\* While messages are queued for a physical switch whose connection is up, one
\* of them is being sent: the chain of writes of a switch never breaks.
THEOREM SwitchChainNeverBreaks == Spec => []SwitchChainAlive
<1>1. IInv => SwitchChainAlive
  <2> SUFFICES ASSUME IInv, ~Virtual, c.sock = "open", c.queue # << >>
               PROVE  c.writing \/ Count(WriteCompletions) = 1
    BY DEF SwitchChainAlive, ChainAlive
  <2>1. Writes(Now) = 1
    BY CountIsCnt DEF IInv, Chain, Virtual
  <2>2. Cnt(Now.ready, WriteCompletions) \in Nat
    BY NowIsOK, StateCounts
  <2> QED
    BY <2>1, <2>2, CountIsCnt DEF Writes
<1> QED
  BY <1>1, InductiveInvariant, PTL

\* Until the connection of a switch fails, the messages handed to send_message
\* reach the wire in the order of the calls, each exactly once, and the rest
\* waits in that order.
THEOREM MessagesInOrder == Spec => []InOrder
<1>1. IInv => InOrder
  BY CountIsCnt DEF IInv, Chain, Unpopped, Upto, InOrder, Virtual
<1> QED
  BY <1>1, InductiveInvariant, PTL

\* A connection of a switch that was started has exactly one read and one echo
\* under way or queued, until stop: it always notices that its peer is gone
\* and never reads twice into message_buffer.
THEOREM OneReaderEver == Spec => []OneReader
<1>1. IInv => OneReader
  BY CountIsCnt DEF IInv, Listens, Reads, Echoes, OneReader, Virtual
<1> QED
  BY <1>1, InductiveInvariant, PTL
=============================================================================
