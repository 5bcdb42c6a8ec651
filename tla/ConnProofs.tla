----------------------------- MODULE ConnProofs -----------------------------
(***************************************************************************)
(* Theorems about a stream connection, for any number of bytes, sizes of   *)
(* buffers, capacity of the host and deadlines.                            *)
(***************************************************************************)
EXTENDS Conn, SequenceTheorems, TLAPS

-----------------------------------------------------------------------------
(* The inductive invariant.                                                *)

\* The host holds the write that its goroutine waits for, and counts only its bytes.
Held ==
  \A s \in Sides :
    /\ holder = <<s, "write">> <=> wr[s] = "host"
    /\ wr[s] # "host" => part[s] = NoPart
    /\ told[s] + part[s].done + part[s].left <= Total

\* A side elsewhere has no goroutines here, and only such a side resets.
Away ==
  \A s \in Sides :
    /\ s \notin guest => rd[s] = "idle"
    /\ rst[s] # "no" => Other(s) \notin guest

IInv == TypeOK /\ Held /\ Away /\ InOrder

-----------------------------------------------------------------------------
(* Sequences of bytes.                                                     *)

\* Bytes(n, m) has m elements, all of them bytes that the side has.
LEMMA BytesType ==
  ASSUME NEW n \in Nat, NEW m \in Nat, n + m <= Total
  PROVE  Bytes(n, m) \in Seq(1..Total) /\ Len(Bytes(n, m)) = m
<1> USE ConnAssumption
<1>1. \A i \in 1..m : n + i \in 1..Total
  OBVIOUS
<1>2. Bytes(n, m) \in [1..m -> 1..Total]
  BY <1>1 DEF Bytes
<1>3. QED
  BY <1>2

\* The bytes after the first n continue the first n.
LEMMA BytesContinue ==
  ASSUME NEW n \in Nat, NEW m \in Nat
  PROVE  Bytes(0, n) \o Bytes(n, m) = Bytes(0, n + m)
<1> DEFINE a == Bytes(0, n)
           b == Bytes(n, m)
           c == Bytes(0, n + m)
<1>1. /\ a \in Seq(Nat) /\ Len(a) = n /\ \A i \in 1..n : a[i] = i
      /\ b \in Seq(Nat) /\ Len(b) = m /\ \A i \in 1..m : b[i] = n + i
      /\ c \in Seq(Nat) /\ Len(c) = n + m /\ \A i \in 1..(n + m) : c[i] = i
  BY DEF Bytes
<1> HIDE DEF a, b, c
<1>2. /\ a \o b \in Seq(Nat) /\ Len(a \o b) = n + m
      /\ \A i \in 1..(n + m) : (a \o b)[i] = IF i <= n THEN a[i] ELSE b[i - n]
  BY <1>1, ConcatProperties
<1>3. ASSUME NEW i \in 1..(n + m)
      PROVE  (a \o b)[i] = c[i]
  <2>1. CASE i <= n
    BY <1>1, <1>2, <2>1
  <2>2. CASE ~(i <= n)
    <3>1. i - n \in 1..m
      BY <2>2
    <3>2. (a \o b)[i] = b[i - n]
      BY <1>2, <2>2
    <3>3. QED
      BY <1>1, <3>1, <3>2
  <2>3. QED
    BY <2>1, <2>2
<1>4. a \o b = c
  BY <1>1, <1>2, <1>3, SeqEqual
<1>5. QED
  BY <1>4 DEF a, b, c

\* What comes first in the bytes from 1 is the bytes from 1.
LEMMA BytesPrefix ==
  ASSUME NEW g \in Seq(Nat), NEW q \in Seq(Nat), NEW n \in Nat, g \o q = Bytes(0, n)
  PROVE  g = Bytes(0, Len(g)) /\ Len(g) + Len(q) = n
<1>1. \A l \in Nat : Bytes(0, l) \in Seq(Nat) /\ Len(Bytes(0, l)) = l
  BY DEF Bytes
<1>2. Len(g) \in Nat /\ Len(q) \in Nat /\ Len(g) + Len(q) = n
  BY <1>1, ConcatProperties, LenProperties
<1>3. ASSUME NEW i \in 1..Len(g)
      PROVE  g[i] = Bytes(0, Len(g))[i]
  <2>1. (g \o q)[i] = g[i]
    BY <1>2, ConcatProperties
  <2>2. QED
    BY <1>2, <2>1 DEF Bytes
<1>4. QED
  BY <1>1, <1>2, <1>3, SeqEqual

\* The facts about joining two sequences that are needed most.
LEMMA Joined ==
  ASSUME NEW S, NEW a \in Seq(S), NEW b \in Seq(S)
  PROVE  a \o b \in Seq(S) /\ Len(a \o b) = Len(a) + Len(b)
  BY ConcatProperties

LEMMA Regroup ==
  ASSUME NEW a \in Seq(1..Total), NEW b \in Seq(1..Total), NEW c \in Seq(1..Total)
  PROVE  a \o (b \o c) = (a \o b) \o c
  BY ConcatAssociative

\* A Read takes the first n elements of what is on the way.
LEMMA TakeFirst ==
  ASSUME NEW S, NEW g \in Seq(S), NEW q \in Seq(S), NEW n \in 0..Len(q)
  PROVE  /\ SubSeq(q, 1, n) \in Seq(S)
         /\ SubSeq(q, n + 1, Len(q)) \in Seq(S)
         /\ Len(SubSeq(q, n + 1, Len(q))) = Len(q) - n
         /\ Len(g \o SubSeq(q, 1, n)) = Len(g) + n
         /\ SubSeq(q, 1, n) \o SubSeq(q, n + 1, Len(q)) = q
<1>1. Len(q) \in Nat /\ \A i \in 1..Len(q) : q[i] \in S
  BY LenProperties, ElementOfSeq
<1>2. SubSeq(q, 1, n) \in Seq(S) /\ Len(SubSeq(q, 1, n)) = n
  BY <1>1, SubSeqProperties
<1>3. /\ SubSeq(q, n + 1, Len(q)) \in Seq(S)
      /\ Len(SubSeq(q, n + 1, Len(q))) = Len(q) - n
  BY <1>1, SubSeqProperties
<1>4. SubSeq(q, 1, n) \o SubSeq(q, n + 1, Len(q)) = q
  <2>1. 1 \in 1..Len(q) + 1 /\ n \in 1 - 1..Len(q) /\ Len(q) \in n..Len(q)
    BY <1>1
  <2>2. SubSeq(q, 1, n) \o SubSeq(q, n + 1, Len(q)) = SubSeq(q, 1, Len(q))
    BY <2>1, ConcatAdjacentSubSeq
  <2>3. QED
    BY <2>2, SubSeqFull
<1>5. Len(g \o SubSeq(q, 1, n)) = Len(g) + n
  BY <1>2, ConcatProperties
<1>6. QED
  BY <1>2, <1>3, <1>4, <1>5

\* What was read and what is on the way stay the same bytes.
LEMMA TakeJoins ==
  ASSUME NEW S, NEW g \in Seq(S), NEW q \in Seq(S), NEW n \in 0..Len(q)
  PROVE  (g \o SubSeq(q, 1, n)) \o SubSeq(q, n + 1, Len(q)) = g \o q
<1> DEFINE first == SubSeq(q, 1, n)
           rest  == SubSeq(q, n + 1, Len(q))
<1>1. first \in Seq(S) /\ rest \in Seq(S) /\ first \o rest = q
  BY TakeFirst
<1> HIDE DEF first, rest
<1>2. \A a, b \in Seq(S) : (g \o a) \o b = g \o (a \o b)
  BY ConcatAssociative
<1>3. (g \o first) \o rest = g \o q
  BY <1>1, <1>2
<1>4. QED
  BY <1>3 DEF first, rest

\* It leaves the others.
LEMMA LeaveRest ==
  ASSUME NEW S, NEW q \in Seq(S), NEW n \in 0..Len(q)
  PROVE  /\ SubSeq(q, n + 1, Len(q)) \in Seq(S)
         /\ Len(SubSeq(q, n + 1, Len(q))) = Len(q) - n
  BY TakeFirst

\* A side elsewhere takes the head.
LEMMA TakeHead ==
  ASSUME NEW S, NEW g \in Seq(S), NEW q \in Seq(S), q # <<>>
  PROVE  /\ Append(g, Head(q)) = g \o SubSeq(q, 1, 1)
         /\ Tail(q) = SubSeq(q, 1 + 1, Len(q))
         /\ Len(q) \in Nat \ {0}
<1>1. Len(q) \in Nat \ {0}
  BY EmptySeq
<1>2. SubSeq(q, 1, 1) = <<Head(q)>>
  <2>1. SubSeq(q, 1, 1) \in Seq(S) /\ Len(SubSeq(q, 1, 1)) = 1 /\ SubSeq(q, 1, 1)[1] = q[1]
    <3>1. \A i \in 1..1 : q[i] \in S
      BY <1>1, ElementOfSeq
    <3>2. QED
      BY <3>1, SubSeqProperties
  <2>2. <<Head(q)>> \in Seq(S) /\ Len(<<Head(q)>>) = 1 /\ <<Head(q)>>[1] = q[1]
    BY HeadTailProperties
  <2>3. \A t, u \in Seq(S) : Len(t) = 1 /\ Len(u) = 1 /\ t[1] = u[1] => t = u
    BY SeqEqual
  <2>4. QED
    BY <2>1, <2>2, <2>3
<1>3. Append(g, Head(q)) = g \o <<Head(q)>>
  BY HeadTailProperties, AppendIsConcat
<1>4. QED
  BY <1>1, <1>2, <1>3, TailIsSubSeq

-----------------------------------------------------------------------------
(* What the steps do.                                                      *)

\* s puts the n bytes after its first m on the way to the other side.
Puts(s, m, n) == stream' = [stream EXCEPT ![Other(s)] = @ \o Bytes(m, n)]

\* s takes the first n bytes that are on the way to it.
Takes(s, n) ==
  /\ got' = [got EXCEPT ![s] = @ \o SubSeq(stream[s], 1, n)]
  /\ stream' = [stream EXCEPT ![s] = SubSeq(@, n + 1, Len(@))]

LEMMA Others == \A s \in Sides : Other(s) \in Sides /\ Other(s) # s /\ Other(Other(s)) = s
BY DEF Sides, Other

\* A Read takes bytes, or changes nothing on the way; it reports the end only there,
\* unless it was given an empty buffer.
LEMMA ReadCases ==
  ASSUME TypeOK, NEW s \in Sides, Receive(s)
  PROVE  \E n \in 0..Len(stream[s]), r \in Rds :
           /\ rd' = [rd EXCEPT ![s] = r]
           /\ Takes(s, n) \/ UNCHANGED <<stream, got>>
           /\ 0 \notin Sizes /\ r = "eof" =>
                /\ UNCHANGED <<stream, got>>
                /\ stream[s] = <<>> /\ (fin[s] \/ rst[s] = "taken")
<1>1. stream[s] \in Seq(1..Total) /\ got[s] \in Seq(1..Total) /\ Len(stream[s]) \in Nat
  BY DEF TypeOK
<1>2. ASSUME NEW size \in Sizes, NEW n \in 0..Len(stream[s]), n <= size,
             n = 0 => size = 0, TakeBytes(s, n),
             stream' = [stream EXCEPT ![s] = SubSeq(@, n + 1, Len(@))]
      PROVE  \E r \in Rds : /\ rd' = [rd EXCEPT ![s] = r]
                            /\ Takes(s, n)
                            /\ 0 \notin Sizes => r # "eof"
  <2>1. CASE n = 0
    BY <1>2, <2>1 DEF TakeBytes, Takes, Rds
  <2>2. CASE n # 0
    BY <1>2, <2>2 DEF TakeBytes, Takes, Rds
  <2>3. QED
    BY <2>1, <2>2
<1>3. CASE stream[s] = <<>> /\ UNCHANGED stream /\ (fin[s] \/ rst[s] = "taken") /\ TakeBytes(s, 0)
  <2>1. got' = got /\ rd' = [rd EXCEPT ![s] = "eof"]
    <3>1. got[s] \o SubSeq(stream[s], 1, 0) = got[s]
      BY <1>1, SubSeqEmpty, ConcatEmptySeq
    <3>2. QED
      BY <1>3, <3>1 DEF TakeBytes, TypeOK
  <2>2. QED
    BY <1>1, <1>3, <2>1 DEF Rds
<1>4. CASE stream[s] = <<>> /\ UNCHANGED <<stream, got>>
           /\ rd' = [rd EXCEPT ![s] = IF fd[s] THEN "error" ELSE "panic"]
  <2>1. (IF fd[s] THEN "error" ELSE "panic") \in Rds \ {"eof"}
    BY DEF Rds
  <2>2. 0 \in 0..Len(stream[s])
    BY <1>1
  <2>3. QED
    BY <1>4, <2>1, <2>2
<1>5. QED
  BY <1>2, <1>3, <1>4 DEF Receive, Received

\* A side elsewhere takes one byte.
LEMMA PeerTakes ==
  ASSUME TypeOK, NEW s \in Sides, PeerReceive(s)
  PROVE  Takes(s, 1) /\ 1 \in 0..Len(stream[s])
<1>1. stream[s] \in Seq(1..Total) /\ got[s] \in Seq(1..Total) /\ stream[s] # <<>>
  BY DEF PeerReceive, TypeOK
<1>2. /\ got' = [got EXCEPT ![s] = Append(got[s], Head(stream[s]))]
      /\ stream' = [stream EXCEPT ![s] = Tail(stream[s])]
  BY DEF PeerReceive
<1>3. /\ Append(got[s], Head(stream[s])) = got[s] \o SubSeq(stream[s], 1, 1)
      /\ Tail(stream[s]) = SubSeq(stream[s], 1 + 1, Len(stream[s]))
      /\ Len(stream[s]) \in Nat \ {0}
  BY <1>1, TakeHead
<1>4. Takes(s, 1)
  BY <1>2, <1>3, Zenon DEF Takes
<1>5. QED
  BY <1>3, <1>4

\* A Write fails, or puts some bytes and returns, or is held by the host.
LEMMA WriteCases ==
  ASSUME TypeOK, NEW s \in Sides, Write(s)
  PROVE  \/ WriteFails(s) /\ UNCHANGED stream
         \/ \E size \in Sizes, n \in Nat \ {0} :
              /\ told[s] + n <= Total /\ n <= Room(s) /\ ~Broken(s)
              /\ Puts(s, told[s], n) /\ WriteReturns(s, n, size)
              /\ UNCHANGED <<holder, rst>>
         \/ \E size \in Sizes : told[s] + size <= Total /\ SendAll(s, size)
<1> USE ConnAssumption
<1>1. CASE (Broken(s) \/ ~fd[s]) /\ WriteFails(s) /\ UNCHANGED stream
  BY <1>1
<1>2. ASSUME NEW size \in Sizes \ {0}, told[s] + size <= Total, SendNow(s, size)
      PROVE  \/ WriteFails(s) /\ UNCHANGED stream
             \/ \E n \in Nat \ {0} :
                  /\ told[s] + n <= Total /\ n <= Room(s) /\ ~Broken(s)
                  /\ Puts(s, told[s], n) /\ WriteReturns(s, n, size)
                  /\ UNCHANGED <<holder, rst>>
  <2>1. CASE Room(s) <= 0
    BY <1>2, <2>1 DEF SendNow
  <2>2. CASE ~(Room(s) <= 0)
    <3>1. Room(s) \in Int /\ told[s] \in Nat /\ size \in Nat
      BY Others DEF TypeOK, Room
    <3>2. PICK n \in 1..AtMost(size, Room(s)) :
            /\ Puts(s, told[s], n)
            /\ WriteReturns(s, n, size)
            /\ UNCHANGED <<holder, rst>>
      BY <1>2, <2>2 DEF SendNow, Puts
    <3>3. n \in Nat \ {0} /\ n <= size /\ n <= Room(s)
      BY <3>1, <2>2 DEF AtMost
    <3>4. told[s] + n <= Total
      BY <1>2, <3>1, <3>3
    <3>5. QED
      BY <1>2, <3>2, <3>3, <3>4 DEF SendNow
  <2>3. QED
    BY <2>1, <2>2
<1>3. QED
  BY <1>1, <1>2 DEF Write

-----------------------------------------------------------------------------
(* Type correctness.                                                       *)

\* Putting bytes that the side has, where there is room for them, keeps the type.
LEMMA PutsType ==
  ASSUME TypeOK, NEW s \in Sides, NEW m \in Nat, NEW n \in Nat,
         m + n <= Total, n <= Room(s), Puts(s, m, n)
  PROVE  stream' \in [Sides -> Seq(1..Total)] /\ \A t \in Sides : Len(stream'[t]) <= Capacity
<1> USE ConnAssumption
<1> DEFINE o == Other(s)
           q == stream[o] \o Bytes(m, n)
<1>1. o \in Sides
  BY Others
<1>2. q \in Seq(1..Total) /\ Len(q) = Len(stream[o]) + n
  <2>1. Bytes(m, n) \in Seq(1..Total) /\ Len(Bytes(m, n)) = n /\ stream[o] \in Seq(1..Total)
    BY <1>1, BytesType DEF TypeOK
  <2> HIDE DEF o
  <2>2. QED
    BY <2>1, Joined
<1>3. Len(stream[o]) \in Nat /\ Len(q) <= Capacity
  BY <1>1, <1>2 DEF TypeOK, Room
<1>4. stream' = [stream EXCEPT ![o] = q]
  BY DEF Puts
<1> HIDE DEF o, q
<1>5. QED
  BY <1>1, <1>2, <1>3, <1>4 DEF TypeOK

\* So does taking bytes.
LEMMA TakesType ==
  ASSUME TypeOK, NEW s \in Sides, NEW n \in 0..Len(stream[s]), Takes(s, n)
  PROVE  /\ got' \in [Sides -> Seq(1..Total)]
         /\ stream' \in [Sides -> Seq(1..Total)]
         /\ \A t \in Sides : Len(stream'[t]) <= Capacity
<1> USE ConnAssumption
<1> DEFINE g == got[s] \o SubSeq(stream[s], 1, n)
           q == SubSeq(stream[s], n + 1, Len(stream[s]))
<1>1. stream[s] \in Seq(1..Total) /\ got[s] \in Seq(1..Total)
  BY DEF TypeOK
<1>2. g \in Seq(1..Total)
  BY <1>1, TakeFirst, ConcatProperties
<1>3. q \in Seq(1..Total) /\ Len(q) = Len(stream[s]) - n
  BY <1>1, LeaveRest
<1>4. Len(q) <= Capacity
  BY <1>1, <1>3 DEF TypeOK
<1>5. got' = [got EXCEPT ![s] = g] /\ stream' = [stream EXCEPT ![s] = q]
  BY DEF Takes
<1> HIDE DEF g, q
<1>6. QED
  BY <1>2, <1>3, <1>4, <1>5 DEF TypeOK

LEMMA ReadTypes ==
  ASSUME TypeOK, guest' = guest, NEW s \in Sides, Reads(s)
  PROVE  TypeOK'
<1> USE ConnAssumption
<1>1. CASE CallRead(s)
  BY <1>1 DEF CallRead, TypeOK, host, reader, writer, user, Rds, Wrs
<1>2. CASE Receive(s)
  <2>1. PICK n \in 0..Len(stream[s]), r \in Rds :
          /\ rd' = [rd EXCEPT ![s] = r]
          /\ Takes(s, n) \/ UNCHANGED <<stream, got>>
    BY <1>2, ReadCases
  <2>2. /\ got' \in [Sides -> Seq(1..Total)]
        /\ stream' \in [Sides -> Seq(1..Total)]
        /\ \A t \in Sides : Len(stream'[t]) <= Capacity
    BY <2>1, TakesType DEF TypeOK
  <2>3. rst' \in [Sides -> {"no", "pending", "taken"}]
    BY <1>2 DEF Receive, Received, TypeOK
  <2>4. rd' \in [Sides -> Rds]
    BY <2>1 DEF TypeOK
  <2>5. QED
    BY <1>2, <2>2, <2>3, <2>4 DEF Receive, TypeOK, writer, user
<1>3. CASE AwaitData(s)
  BY <1>3 DEF AwaitData, Unready, Runs, TypeOK, host, reader, writer, user
<1>4. QED
  BY <1>1, <1>2, <1>3 DEF Reads

LEMMA WriteTypes ==
  ASSUME TypeOK, Held, guest' = guest, NEW s \in Sides, Writes(s) \/ InHost(s)
  PROVE  TypeOK'
<1> USE ConnAssumption
<1>a. NoPart \in [done: 0..Total, left: 0..Total]
  BY DEF NoPart
<1>b. /\ told[s] \in Nat /\ part[s].done \in Nat /\ part[s].left \in Nat
      /\ told[s] + part[s].done + part[s].left <= Total
  BY DEF TypeOK, Held
<1>1. CASE CallWrite(s)
  BY <1>1 DEF CallWrite, TypeOK, host, reader, writer, user, Wrs
<1>2. CASE Write(s)
  <2>1. CASE WriteFails(s) /\ UNCHANGED stream
    BY <1>a, <1>2, <2>1 DEF Write, WriteFails, TypeOK, reader, user, Wrs
  <2>2. ASSUME NEW size \in Sizes, NEW n \in Nat \ {0},
               told[s] + n <= Total, n <= Room(s), Puts(s, told[s], n),
               WriteReturns(s, n, size), UNCHANGED <<holder, rst>>
        PROVE  TypeOK'
    <3>1. stream' \in [Sides -> Seq(1..Total)] /\ \A t \in Sides : Len(stream'[t]) <= Capacity
      BY <1>b, <2>2, PutsType
    <3>2. told[s] + n \in 0..Total
      BY <1>b, <2>2
    <3>3. told' \in [Sides -> 0..Total]
      BY <2>2, <3>2 DEF WriteReturns, TypeOK
    <3>4. QED
      BY <1>a, <1>2, <2>2, <3>1, <3>3 DEF Write, WriteReturns, TypeOK, reader, user, Wrs
  <2>3. ASSUME NEW size \in Sizes, told[s] + size <= Total, SendAll(s, size)
        PROVE  TypeOK'
    <3>1. size \in 0..Total
      BY <1>b, <2>3
    <3>2. part' \in [Sides -> [done: 0..Total, left: 0..Total]]
      BY <2>3, <3>1 DEF SendAll, TypeOK
    <3>3. s \in guest
      BY <1>2 DEF Write, Runs
    <3>4. QED
      BY <1>2, <2>3, <3>2, <3>3 DEF Write, SendAll, TypeOK, reader, user, Wrs
  <2>4. QED
    BY <1>2, <2>1, <2>2, <2>3, WriteCases
<1>3. CASE StopWaiting(s)
  BY <1>3 DEF StopWaiting, TypeOK, host, reader, writer, user
<1>4. CASE SendMore(s)
  <2>1. Room(s) \in Int
    BY Others DEF TypeOK, Room
  <2>2. PICK n \in 1..AtMost(part[s].left, Room(s)) :
          /\ Puts(s, told[s] + part[s].done, n)
          /\ part' = [part EXCEPT ![s] = [done |-> @.done + n, left |-> @.left - n]]
    BY <1>4 DEF SendMore, Puts
  <2>3. n \in Nat /\ n <= part[s].left /\ n <= Room(s)
    BY <1>b, <2>1 DEF AtMost
  <2>4. stream' \in [Sides -> Seq(1..Total)] /\ \A t \in Sides : Len(stream'[t]) <= Capacity
    <3>1. told[s] + part[s].done \in Nat /\ told[s] + part[s].done + n <= Total
      BY <1>b, <2>3
    <3>2. QED
      BY <2>2, <2>3, <3>1, PutsType
  <2>5. part[s].done + n \in 0..Total /\ part[s].left - n \in 0..Total
    BY <1>b, <2>3
  <2>6. part' \in [Sides -> [done: 0..Total, left: 0..Total]]
    BY <2>2, <2>5 DEF TypeOK
  <2>7. QED
    BY <1>4, <2>4, <2>6 DEF SendMore, TypeOK, reader, user
<1>5. CASE SendReturns(s)
  <2>1. told[s] + part[s].done \in 0..Total
    BY <1>b
  <2>2. told' \in [Sides -> 0..Total]
    BY <1>5, <2>1 DEF SendReturns, WriteReturns, TypeOK
  <2>3. QED
    BY <1>a, <1>5, <2>2 DEF SendReturns, WriteReturns, TypeOK, host, reader, user, Wrs
<1>6. CASE SendFails(s)
  BY <1>a, <1>6 DEF SendFails, WriteFails, TypeOK, reader, user, Wrs
<1>7. QED
  BY <1>1, <1>2, <1>3, <1>4, <1>5, <1>6 DEF Writes, InHost

LEMMA OtherTypes ==
  ASSUME TypeOK, Held, guest' = guest, NEW s \in Sides,
         SetDeadline(s) \/ Close(s) \/ Peer(s)
  PROVE  TypeOK'
<1> USE ConnAssumption
<1>1. CASE SetDeadline(s)
  <2>1. PICK t \in Deadlines :
               asked' = [asked EXCEPT ![s].rcv = t] \/ asked' = [asked EXCEPT ![s].snd = t]
                 \/ asked' = [asked EXCEPT ![s] = [rcv |-> t, snd |-> t]]
    BY <1>1 DEF SetDeadline
  <2>2. asked' \in [Sides -> [rcv: Deadlines \cup {NoDeadline},
                              snd: Deadlines \cup {NoDeadline}]]
    <3>1. asked \in [Sides -> [rcv: Deadlines \cup {NoDeadline},
                               snd: Deadlines \cup {NoDeadline}]]
      BY DEF TypeOK
    <3>2. CASE asked' = [asked EXCEPT ![s].rcv = t]
      BY <3>1, <3>2
    <3>3. CASE asked' = [asked EXCEPT ![s].snd = t]
      BY <3>1, <3>3
    <3>4. CASE asked' = [asked EXCEPT ![s] = [rcv |-> t, snd |-> t]]
      BY <3>1, <3>4
    <3>5. QED
      BY <2>1, <3>2, <3>3, <3>4
  <2>3. QED
    BY <1>1, <2>2 DEF SetDeadline, TypeOK, host, reader, writer
<1>2. CASE Close(s)
  <2>1. fin' \in [Sides -> BOOLEAN]
    BY <1>2 DEF Close, TypeOK
  <2>2. fd' \in [Sides -> BOOLEAN]
    BY <1>2 DEF Close, TypeOK
  <2>3. QED
    BY <1>2, <2>1, <2>2 DEF Close, TypeOK, reader, writer
<1>3. CASE PeerSend(s)
  <2>1. told[s] \in Nat /\ told[s] + 1 \in 0..Total
    BY <1>3 DEF PeerSend, TypeOK
  <2>2. Room(s) \in Int /\ 1 <= Room(s)
    BY <1>3, Others DEF PeerSend, TypeOK, Room
  <2>3. Puts(s, told[s], 1)
    BY <1>3 DEF PeerSend, Puts
  <2>4. stream' \in [Sides -> Seq(1..Total)] /\ \A t \in Sides : Len(stream'[t]) <= Capacity
    BY <2>1, <2>2, <2>3, PutsType
  <2>5. told' \in [Sides -> 0..Total]
    BY <1>3, <2>1 DEF PeerSend, TypeOK
  <2>6. QED
    BY <1>3, <2>4, <2>5 DEF PeerSend, TypeOK, reader, user
<1>4. CASE PeerReceive(s)
  <2>1. Takes(s, 1) /\ 1 \in 0..Len(stream[s])
    BY <1>4, PeerTakes
  <2>2. /\ got' \in [Sides -> Seq(1..Total)]
        /\ stream' \in [Sides -> Seq(1..Total)]
        /\ \A t \in Sides : Len(stream'[t]) <= Capacity
    BY <2>1, TakesType
  <2>3. QED
    BY <1>4, <2>2 DEF PeerReceive, TypeOK, writer, user
<1>5. CASE PeerEnd(s)
  BY <1>5 DEF PeerEnd, TypeOK, reader, writer, user
<1>6. CASE PeerReset(s)
  BY <1>6 DEF PeerReset, TypeOK, reader, writer, user
<1>7. QED
  BY <1>1, <1>2, <1>3, <1>4, <1>5, <1>6 DEF Peer

LEMMA TypeStep == TypeOK /\ Held /\ [Next]_vars => TypeOK'
<1> SUFFICES ASSUME TypeOK, Held, [Next]_vars PROVE TypeOK'
  OBVIOUS
<1>1. CASE Next
  BY <1>1, ReadTypes, WriteTypes, OtherTypes DEF Next
<1>2. CASE UNCHANGED vars
  BY <1>2 DEF vars, state, TypeOK
<1>3. QED
  BY <1>1, <1>2

-----------------------------------------------------------------------------
(* Who is in the host, and who is elsewhere.                               *)

LEMMA HeldStep == TypeOK /\ Held /\ Away /\ [Next]_vars => Held'
<1> SUFFICES ASSUME TypeOK, Held, Away, [Next]_vars PROVE Held'
  OBVIOUS
<1> USE ConnAssumption
<1> DEFINE Same == UNCHANGED <<told, wr, part>>
           NoWrite(h) == \A t \in Sides : h # <<t, "write">>
<1>1. ASSUME NEW s \in Sides, Same, holder' = holder \/ (NoWrite(holder) /\ NoWrite(holder'))
      PROVE  Held'
  BY <1>1 DEF Held, TypeOK
<1>a. NoWrite(Idle) /\ \A t \in Sides : NoWrite(<<t, "read">>)
  BY DEF Idle, Sides
<1>b. /\ \A t \in Sides : /\ told[t] \in Nat /\ part[t].done \in Nat /\ part[t].left \in Nat
                          /\ told[t] + part[t].done + part[t].left <= Total
      /\ NoPart.done = 0 /\ NoPart.left = 0
  BY DEF TypeOK, Held, NoPart
<1>2. ASSUME NEW s \in Sides, Reads(s) PROVE Held'
  <2>1. Same /\ (holder' = holder \/ (NoWrite(holder) /\ NoWrite(holder')))
    BY <1>2, <1>a DEF Reads, CallRead, Receive, AwaitData, Unready, Runs, writer
  <2>2. QED
    BY <1>1, <2>1
<1>3. ASSUME NEW s \in Sides, CallWrite(s) PROVE Held'
  <2>1. wr[s] = "idle" /\ wr' = [wr EXCEPT ![s] = "call"] /\ UNCHANGED <<holder, told, part>>
    BY <1>3 DEF CallWrite
  <2>2. QED
    BY <2>1 DEF Held, TypeOK
<1>4. ASSUME NEW s \in Sides, Write(s) PROVE Held'
  <2>1. holder = Idle /\ wr[s] = "call" /\ \A t \in Sides : wr[t] # "host" /\ part[t] = NoPart
    BY <1>4, <1>a DEF Write, Runs, Held
  <2>2. CASE WriteFails(s)
    BY <2>1, <2>2, <1>a DEF WriteFails, Held, TypeOK
  <2>3. ASSUME NEW size \in Sizes, NEW n \in Nat \ {0}, told[s] + n <= Total,
               WriteReturns(s, n, size), UNCHANGED holder
        PROVE  Held'
    <3>1. /\ told' = [told EXCEPT ![s] = told[s] + n]
          /\ wr' = [wr EXCEPT ![s] = "idle"]
          /\ part' = [part EXCEPT ![s] = NoPart]
      BY <2>3 DEF WriteReturns
    <3>2. \A t \in Sides : told'[t] + part'[t].done + part'[t].left <= Total
      BY <1>b, <2>1, <2>3, <3>1 DEF TypeOK
    <3>3. QED
      BY <2>1, <2>3, <3>1, <3>2, <1>a DEF Held, TypeOK
  <2>4. ASSUME NEW size \in Sizes, told[s] + size <= Total, SendAll(s, size)
        PROVE  Held'
    <3>1. /\ wr' = [wr EXCEPT ![s] = "host"] /\ holder' = <<s, "write">>
          /\ part' = [part EXCEPT ![s] = [done |-> 0, left |-> size]] /\ told' = told
      BY <2>4 DEF SendAll
    <3>2. \A t \in Sides : told'[t] + part'[t].done + part'[t].left <= Total
      BY <1>b, <2>1, <2>4, <3>1 DEF TypeOK
    <3>3. \A t \in Sides : holder' = <<t, "write">> <=> t = s
      BY <3>1
    <3>4. QED
      BY <2>1, <3>1, <3>2, <3>3 DEF Held, TypeOK
  <2>5. QED
    BY <1>4, <2>2, <2>3, <2>4, WriteCases
<1>5. ASSUME NEW s \in Sides, StopWaiting(s) PROVE Held'
  <2>1. Same /\ NoWrite(holder) /\ NoWrite(holder')
    BY <1>5, <1>a DEF StopWaiting, writer
  <2>2. QED
    BY <1>1, <2>1
<1>6. ASSUME NEW s \in Sides, SendMore(s) PROVE Held'
  <2>1. PICK n \in 1..AtMost(part[s].left, Room(s)) :
          part' = [part EXCEPT ![s] = [done |-> @.done + n, left |-> @.left - n]]
    BY <1>6 DEF SendMore
  <2>2. UNCHANGED <<holder, told, wr>> /\ wr[s] = "host"
    BY <1>6 DEF SendMore, Held
  <2>3. \A t \in Sides : told'[t] + part'[t].done + part'[t].left <= Total
    BY <1>b, <2>1, <2>2 DEF TypeOK
  <2>4. QED
    BY <2>1, <2>2, <2>3 DEF Held, TypeOK
<1>7. ASSUME NEW s \in Sides, SendReturns(s) \/ SendFails(s) PROVE Held'
  <2>1. holder = <<s, "write">> /\ holder' = Idle
        /\ \A t \in Sides : t # s => wr[t] # "host" /\ part[t] = NoPart
    BY <1>7 DEF SendReturns, SendFails, WriteFails, Held
  <2>2. \E w \in Wrs \ {"host"} : wr' = [wr EXCEPT ![s] = w]
    BY <1>7 DEF SendReturns, WriteReturns, SendFails, WriteFails, Wrs
  <2>3. part' = [part EXCEPT ![s] = NoPart]
    BY <1>7 DEF SendReturns, WriteReturns, SendFails, WriteFails
  <2>4. told' = [told EXCEPT ![s] = told[s] + part[s].done] \/ told' = told
    BY <1>7 DEF SendReturns, WriteReturns, SendFails, WriteFails
  <2>5. \A t \in Sides : told'[t] + part'[t].done + part'[t].left <= Total
    <3>1. \A t \in Sides : t # s => told'[t] = told[t] /\ part'[t] = part[t]
      BY <2>3, <2>4 DEF TypeOK
    <3>2. part'[s] = NoPart /\ told'[s] \in {told[s], told[s] + part[s].done}
      BY <2>3, <2>4 DEF TypeOK
    <3>3. told'[s] + part'[s].done + part'[s].left <= Total
      BY <1>b, <3>2, ConnAssumption
    <3>4. QED
      BY <1>b, <3>1, <3>3
  <2>6. QED
    BY <2>1, <2>2, <2>3, <2>5, <1>a DEF Held, TypeOK
<1>8. ASSUME NEW s \in Sides, PeerSend(s) PROVE Held'
  <2>1. holder # <<s, "write">>
    BY <1>8 DEF PeerSend, Elsewhere, TypeOK, Idle, Sides
  <2>2. part[s] = NoPart
    BY <2>1 DEF Held
  <2>3. told' = [told EXCEPT ![s] = told[s] + 1] /\ told[s] < Total
        /\ UNCHANGED <<holder, wr, part>>
    BY <1>8 DEF PeerSend
  <2>4. \A t \in Sides : told'[t] + part'[t].done + part'[t].left <= Total
    BY <1>b, <2>2, <2>3 DEF TypeOK
  <2>5. QED
    BY <2>3, <2>4 DEF Held
<1>9. ASSUME NEW s \in Sides,
             SetDeadline(s) \/ Close(s) \/ PeerReceive(s) \/ PeerEnd(s) \/ PeerReset(s)
      PROVE  Held'
  BY <1>1, <1>9 DEF SetDeadline, Close, PeerReceive, PeerEnd, PeerReset, writer
<1>10. CASE UNCHANGED vars
  BY <1>10 DEF vars, state, Held
<1>11. QED
  BY <1>2, <1>3, <1>4, <1>5, <1>6, <1>7, <1>8, <1>9, <1>10 DEF Next, Writes, InHost, Peer

LEMMA AwayStep == TypeOK /\ Held /\ Away /\ [Next]_vars => Away'
<1> SUFFICES ASSUME TypeOK, Held, Away, [Next]_vars PROVE Away'
  OBVIOUS
<1> USE DEF Sides, Other
<1>1. ASSUME NEW s \in Sides, Reads(s), guest' = guest PROVE Away'
  <2>1. s \in guest
    BY <1>1 DEF Reads, CallRead, Receive, AwaitData, Runs, Away
  <2>2. \A t \in Sides : t # s => rd'[t] = rd[t]
    BY <1>1 DEF Reads, CallRead, Receive, Received, TakeBytes, AwaitData, Unready, TypeOK
  <2>3. \A t \in Sides : rst'[t] # "no" => rst[t] # "no"
    BY <1>1 DEF Reads, CallRead, Receive, Received, AwaitData, TypeOK, host
  <2>4. QED
    BY <1>1, <2>1, <2>2, <2>3 DEF Away
<1>2. ASSUME NEW s \in Sides, Writes(s) \/ InHost(s), guest' = guest PROVE Away'
  <2>1. rd' = rd
    BY <1>2
      DEF Writes, InHost, CallWrite, Write, StopWaiting, SendMore, SendReturns, SendFails, reader
  <2>2. \A t \in Sides : rst'[t] # "no" => rst[t] # "no"
    BY <1>2 DEF Writes, InHost, CallWrite, Write, SendNow, SendAll, WriteFails, StopWaiting,
         SendMore, SendReturns, SendFails, TypeOK, host
  <2>3. QED
    BY <1>2, <2>1, <2>2 DEF Away
<1>3. ASSUME NEW s \in Sides, SetDeadline(s) \/ Close(s) \/ Peer(s), guest' = guest PROVE Away'
  <2>1. rd' = rd
    BY <1>3 DEF SetDeadline, Close, Peer, PeerSend, PeerReceive, PeerEnd, PeerReset, reader
  <2>2. CASE PeerReset(s)
    BY <1>3, <2>1, <2>2 DEF PeerReset, Elsewhere, Away, TypeOK
  <2>3. CASE ~PeerReset(s)
    <3>1. rst' = rst
      BY <1>3, <2>3 DEF SetDeadline, Close, Peer, PeerSend, PeerReceive, PeerEnd, host
    <3>2. QED
      BY <1>3, <2>1, <3>1 DEF Away
  <2>4. QED
    BY <2>2, <2>3
<1>4. CASE UNCHANGED vars
  BY <1>4 DEF vars, state, Away
<1>5. QED
  BY <1>1, <1>2, <1>3, <1>4 DEF Next

-----------------------------------------------------------------------------
(* The bytes stay in order.                                                *)

\* The bytes of side t that it was told of, and those of its write in the host.
Sent(t) == told[t] + part[t].done

\* Taking bytes moves them from what is on the way to what was read.
LEMMA TakesOrder ==
  ASSUME TypeOK, NEW s \in Sides, NEW n \in 0..Len(stream[s]), Takes(s, n)
  PROVE  /\ \A t \in Sides : got'[t] \o stream'[t] = got[t] \o stream[t]
         /\ \A t \in Sides : t # s => got'[t] = got[t] /\ stream'[t] = stream[t]
<1>1. stream[s] \in Seq(1..Total) /\ got[s] \in Seq(1..Total)
  BY DEF TypeOK
<1>2. (got[s] \o SubSeq(stream[s], 1, n)) \o SubSeq(stream[s], n + 1, Len(stream[s]))
        = got[s] \o stream[s]
  BY <1>1, TakeJoins
<1>3. got'[s] = got[s] \o SubSeq(stream[s], 1, n)
      /\ stream'[s] = SubSeq(stream[s], n + 1, Len(stream[s]))
  BY DEF Takes, TypeOK
<1>4. \A t \in Sides : t # s => got'[t] = got[t] /\ stream'[t] = stream[t]
  BY DEF Takes, TypeOK
<1>5. QED
  BY <1>2, <1>3, <1>4

\* Putting the bytes that follow those sent keeps the other side's in order.
LEMMA PutsOrder ==
  ASSUME TypeOK, InOrder, NEW s \in Sides, NEW n \in Nat, Sent(s) + n <= Total,
         Puts(s, Sent(s), n), got' = got,
         Sent(s)' = Sent(s) + n, Sent(Other(s))' = Sent(Other(s))
  PROVE  InOrder'
<1> DEFINE o == Other(s)
<1>1. o \in Sides /\ Other(o) = s /\ o # s /\ \A t \in Sides : t = s \/ t = o
  BY DEF Sides, Other
<1>2. Sent(s) \in Nat /\ got[o] \in Seq(1..Total) /\ stream[o] \in Seq(1..Total)
  BY <1>1, ConnAssumption DEF TypeOK, Sent
<1>3. stream'[o] = stream[o] \o Bytes(Sent(s), n) /\ stream'[s] = stream[s]
  BY <1>1 DEF Puts, TypeOK
<1>4. Bytes(Sent(s), n) \in Seq(1..Total)
  BY <1>2, BytesType
<1>5. got[o] \o stream[o] = Bytes(0, Sent(s)) /\ got[s] \o stream[s] = Bytes(0, Sent(o))
  BY <1>1 DEF InOrder, Sent
<1> HIDE DEF o
<1>6. got[o] \o (stream[o] \o Bytes(Sent(s), n)) = Bytes(0, Sent(s) + n)
  <2>1. got[o] \o (stream[o] \o Bytes(Sent(s), n)) = (got[o] \o stream[o]) \o Bytes(Sent(s), n)
    BY <1>2, <1>4, Regroup
  <2>2. Bytes(0, Sent(s)) \o Bytes(Sent(s), n) = Bytes(0, Sent(s) + n)
    BY <1>2, BytesContinue
  <2>3. QED
    BY <1>5, <2>1, <2>2
<1>7. /\ got'[o] \o stream'[o] = Bytes(0, told'[s] + part'[s].done)
      /\ got'[s] \o stream'[s] = Bytes(0, told'[o] + part'[o].done)
  <2>1. told'[s] + part'[s].done = Sent(s) + n /\ told'[o] + part'[o].done = Sent(o)
    BY DEF Sent, o
  <2>2. QED
    BY <1>3, <1>5, <1>6, <2>1
<1>8. QED
  <2>1. \A t \in Sides : got'[t] \o stream'[t] = Bytes(0, told'[Other(t)] + part'[Other(t)].done)
    BY <1>1, <1>7, Zenon DEF o
  <2>2. QED
    BY <2>1 DEF InOrder, Bytes
LEMMA OrderStep == IInv /\ [Next]_vars => InOrder'
<1> SUFFICES ASSUME IInv, [Next]_vars PROVE InOrder'
  OBVIOUS
<1> USE ConnAssumption DEF IInv
<1>1. ASSUME UNCHANGED <<got, stream>>, \A t \in Sides : Sent(t)' = Sent(t)
      PROVE  InOrder'
  BY <1>1, Others DEF InOrder, Sent, Bytes
<1>2. ASSUME NEW s \in Sides, NEW n \in 0..Len(stream[s]), Takes(s, n), told' = told, part' = part
      PROVE  InOrder'
  <2>1. \A t \in Sides : got'[t] \o stream'[t] = got[t] \o stream[t]
    BY <1>2, TakesOrder
  <2>2. QED
    BY <1>2, <2>1 DEF InOrder, Bytes
<1>3. ASSUME NEW s \in Sides, Reads(s) PROVE InOrder'
  <2>1. told' = told /\ part' = part
    BY <1>3 DEF Reads, CallRead, Receive, AwaitData, writer
  <2>2. UNCHANGED <<got, stream>> \/ \E n \in 0..Len(stream[s]) : Takes(s, n)
    BY <1>3, ReadCases DEF Reads, CallRead, AwaitData, host
  <2>3. QED
    BY <1>1, <1>2, <2>1, <2>2 DEF Sent
<1>4. ASSUME NEW s \in Sides, CallWrite(s) \/ StopWaiting(s) \/ SetDeadline(s) \/ Close(s)
                                \/ PeerEnd(s) \/ PeerReset(s)
      PROVE  InOrder'
  BY <1>1, <1>4 DEF Sent, CallWrite, StopWaiting, SetDeadline, Close, PeerEnd, PeerReset,
       host, reader, writer
<1>a. \A t \in Sides : /\ told[t] \in Nat /\ part[t].done \in Nat /\ part[t].left \in Nat
                       /\ Sent(t) + part[t].left <= Total
                       /\ wr[t] # "host" => part[t] = NoPart
      /\ NoPart.done = 0
  BY DEF TypeOK, Held, Sent, NoPart
<1>5. ASSUME NEW s \in Sides, Write(s) PROVE InOrder'
  <2>1. part[s] = NoPart /\ UNCHANGED got
    BY <1>a, <1>5 DEF Write, reader
  <2>2. CASE WriteFails(s) /\ UNCHANGED stream
    <3>1. \A t \in Sides : Sent(t)' = Sent(t)
      BY <1>a, <2>1, <2>2 DEF WriteFails, Sent, TypeOK
    <3>2. QED
      BY <1>1, <2>1, <2>2, <3>1
  <2>3. ASSUME NEW size \in Sizes, NEW n \in Nat \ {0}, told[s] + n <= Total,
               Puts(s, told[s], n), WriteReturns(s, n, size)
        PROVE  InOrder'
    <3>1. Sent(s) = told[s]
      BY <1>a, <2>1 DEF Sent
    <3>2. Sent(s)' = Sent(s) + n
      BY <1>a, <2>1, <2>3 DEF WriteReturns, Sent, TypeOK
    <3>3. Sent(Other(s))' = Sent(Other(s))
      BY <2>3, Others DEF WriteReturns, Sent, TypeOK
    <3>4. QED
      BY <2>1, <2>3, <3>1, <3>2, <3>3, PutsOrder
  <2>4. ASSUME NEW size \in Sizes, SendAll(s, size) PROVE InOrder'
    <3>1. \A t \in Sides : Sent(t)' = Sent(t)
      BY <1>a, <2>1, <2>4 DEF SendAll, Sent, TypeOK
    <3>2. QED
      BY <1>1, <2>1, <2>4, <3>1 DEF SendAll
  <2>5. QED
    BY <1>5, <2>2, <2>3, <2>4, WriteCases
<1>6. ASSUME NEW s \in Sides, SendMore(s) PROVE InOrder'
  <2>1. PICK n \in 1..AtMost(part[s].left, Room(s)) :
          /\ Puts(s, Sent(s), n)
          /\ part' = [part EXCEPT ![s] = [done |-> @.done + n, left |-> @.left - n]]
    BY <1>6 DEF SendMore, Puts, Sent
  <2>2. n \in Nat /\ Sent(s) + n <= Total
    <3>1. Room(s) \in Int /\ Sent(s) \in Nat
      <4>1. stream[Other(s)] \in Seq(1..Total) /\ Capacity \in Nat
        BY Others DEF TypeOK
      <4>2. Len(stream[Other(s)]) \in Nat
        BY <4>1, LenProperties
      <4>3. QED
        BY <1>a, <4>1, <4>2 DEF Room, Sent
    <3>2. n \in Nat /\ n <= part[s].left
      BY <1>a, <3>1 DEF AtMost
    <3>3. QED
      BY <1>a, <3>1, <3>2
  <2>3. got' = got /\ told' = told
    BY <1>6 DEF SendMore, reader
  <2>4. Sent(s)' = Sent(s) + n
    BY <1>a, <2>1, <2>2, <2>3 DEF Sent, TypeOK
  <2>5. Sent(Other(s))' = Sent(Other(s))
    BY <2>1, <2>3, Others DEF Sent, TypeOK
  <2>6. QED
    BY <2>1, <2>2, <2>3, <2>4, <2>5, PutsOrder
<1>7. ASSUME NEW s \in Sides, SendReturns(s) PROVE InOrder'
  <2>1. \A t \in Sides : Sent(t)' = Sent(t)
    BY <1>a, <1>7 DEF SendReturns, WriteReturns, Sent, TypeOK
  <2>2. QED
    BY <1>1, <1>7, <2>1 DEF SendReturns, host, reader
<1>8. ASSUME NEW s \in Sides, SendFails(s) PROVE InOrder'
  <2>1. \A t \in Sides : Sent(t)' = Sent(t)
    BY <1>a, <1>8 DEF SendFails, WriteFails, Sent, TypeOK
  <2>2. QED
    BY <1>1, <1>8, <2>1 DEF SendFails, reader
<1>9. ASSUME NEW s \in Sides, PeerSend(s) PROVE InOrder'
  <2>1. part[s] = NoPart /\ part' = part /\ got' = got
    BY <1>9 DEF PeerSend, Elsewhere, TypeOK, Held, Idle, Sides, reader
  <2>2. Sent(s) = told[s] /\ told[s] \in Nat /\ told[s] < Total
    BY <1>a, <1>9, <2>1 DEF Sent, PeerSend
  <2>3. Sent(s)' = Sent(s) + 1
    BY <1>9, <2>1, <2>2, <1>a DEF PeerSend, Sent, TypeOK
  <2>4. Sent(Other(s))' = Sent(Other(s))
    BY <1>9, <2>1, Others DEF PeerSend, Sent, TypeOK
  <2>5. Puts(s, Sent(s), 1)
    BY <1>9, <2>2 DEF PeerSend, Puts
  <2>6. QED
    BY <2>1, <2>2, <2>3, <2>4, <2>5, PutsOrder
<1>10. ASSUME NEW s \in Sides, PeerReceive(s) PROVE InOrder'
  <2>1. 1 \in 0..Len(stream[s]) /\ Takes(s, 1) /\ told' = told /\ part' = part
    BY <1>10, PeerTakes DEF PeerReceive, writer
  <2>2. QED
    BY <1>2, <2>1
<1>11. CASE UNCHANGED vars
  BY <1>1, <1>11 DEF vars, state, Sent
<1>12. QED
  BY <1>3, <1>4, <1>5, <1>6, <1>7, <1>8, <1>9, <1>10, <1>11 DEF Next, Writes, InHost, Peer

-----------------------------------------------------------------------------
(* The theorems.                                                           *)

LEMMA InitInv == Init => IInv
<1> SUFFICES ASSUME Init PROVE IInv
  OBVIOUS
<1> USE ConnAssumption DEF Init
<1>1. TypeOK
  <2>1. <<>> \in Seq(1..Total) /\ Len(<<>>) = 0
    OBVIOUS
  <2>2. QED
    BY <2>1 DEF TypeOK, NoPart, Rds, Wrs
<1>2. Held
  BY DEF Held, Idle, NoPart, Sides
<1>3. Away
  BY DEF Away
<1>4. InOrder
  BY Others DEF InOrder, NoPart, Bytes
<1>5. QED
  BY <1>1, <1>2, <1>3, <1>4 DEF IInv

\* The invariant: the bytes are in order, the host holds the write that it should,
\* and a side elsewhere has no goroutine here.
THEOREM Invariance == Spec => []IInv
<1>1. IInv /\ [Next]_vars => IInv'
  BY TypeStep, HeldStep, AwayStep, OrderStep DEF IInv
<1>2. QED
  BY InitInv, <1>1, PTL DEF Spec

\* Every variable keeps its type; the host never holds more than its capacity.
THEOREM TypeCorrect == Spec => []TypeOK
<1>1. IInv => TypeOK
  BY DEF IInv
<1>2. QED
  BY Invariance, <1>1, PTL

\* Bytes are neither lost, repeated nor reordered between a Write and a Read,
\* whatever counts the host returns and whenever a wait is cut short.
THEOREM BytesInOrder == Spec => []InOrder
<1>1. IInv => InOrder
  BY DEF IInv
<1>2. QED
  BY Invariance, <1>1, PTL

-----------------------------------------------------------------------------
(* The connection is a byte stream.                                        *)

sentBar  == [s \in Sides |-> Len(got[Other(s)]) + Len(stream[Other(s)])]
endedBar == [s \in Sides |-> fin[Other(s)] \/ rst[Other(s)] # "no"]
eofBar   == [s \in Sides |-> rd[s] = "eof"]

\* Neither an end nor a notice of one.
SameEnds == endedBar' = endedBar /\ eofBar' = eofBar

\* What a side sent is what it was told of, and what the other has read is a prefix.
Counts ==
  /\ \A s \in Sides : sentBar[s] = Sent(s) /\ Sent(s) \in 0..Total
  /\ \A s \in Sides : Len(got[s]) \in 0..Sent(Other(s))
  /\ \A s \in Sides : got[s] = Stream!Numbers(Len(got[s]))

LEMMA CountsNow == IInv => Counts
<1> SUFFICES ASSUME IInv PROVE Counts
  OBVIOUS
<1> USE ConnAssumption
<1>1. ASSUME NEW s \in Sides
      PROVE  /\ Len(got[s]) + Len(stream[s]) = Sent(Other(s)) /\ got[s] = Bytes(0, Len(got[s]))
             /\ Len(got[s]) \in Nat /\ Len(stream[s]) \in Nat
             /\ Sent(Other(s)) \in 0..Total
  <2>1. Sent(Other(s)) \in 0..Total
    <3>1. PICK t \in Sides : t = Other(s)
      BY Others
    <3>2. told[t] \in Nat /\ part[t].done \in Nat /\ part[t].left \in Nat
      BY DEF IInv, TypeOK
    <3>3. told[t] + part[t].done + part[t].left <= Total
      BY DEF IInv, Held
    <3>4. told[t] + part[t].done \in 0..Total
      BY <3>2, <3>3
    <3>5. QED
      BY <3>1, <3>4 DEF Sent
  <2>2. got[s] \in Seq(Nat) /\ stream[s] \in Seq(Nat)
    <3>1. 1..Total \subseteq Nat
      OBVIOUS
    <3>2. QED
      BY <3>1, SeqMonotonic DEF IInv, TypeOK
  <2>3. got[s] \o stream[s] = Bytes(0, Sent(Other(s)))
    BY DEF IInv, InOrder, Sent
  <2>4. \A n \in Nat : got[s] \o stream[s] = Bytes(0, n)
          => got[s] = Bytes(0, Len(got[s])) /\ Len(got[s]) + Len(stream[s]) = n
    BY <2>2, BytesPrefix
  <2>5. Sent(Other(s)) \in Nat /\ Len(got[s]) \in Nat /\ Len(stream[s]) \in Nat
    BY <2>1, <2>2
  <2>6. QED
    BY <2>1, <2>3, <2>4, <2>5
<1>2. \A n \in Nat : Bytes(0, n) = Stream!Numbers(n)
  BY DEF Bytes, Stream!Numbers
<1>3. \A s \in Sides : got[s] = Stream!Numbers(Len(got[s]))
  BY <1>1, <1>2
<1>4. \A s \in Sides : Len(got[s]) \in 0..Sent(Other(s))
  <2>1. \A a, b, c \in Nat : a + b = c => a \in 0..c
    OBVIOUS
  <2>2. \A s \in Sides : Sent(Other(s)) \in Nat
    <3>1. 0..Total \subseteq Nat
      OBVIOUS
    <3>2. QED
      BY <1>1, <3>1
  <2>3. QED
    BY <1>1, <2>1, <2>2
<1>5. \A s \in Sides : sentBar[s] = Sent(s) /\ Sent(s) \in 0..Total
  <2>1. \A s \in Sides : sentBar[s] = Len(got[Other(s)]) + Len(stream[Other(s)])
    BY DEF sentBar
  <2>2. QED
    BY <1>1, <2>1, Others
<1>6. QED
  BY <1>3, <1>4, <1>5 DEF Counts

LEMMA CountsNext == IInv' => Counts'
BY CountsNow, PTL

\* Taking bytes is a step of the receiver.
LEMMA TakesRefines ==
  ASSUME IInv, IInv', NEW s \in Sides, NEW n \in 0..Len(stream[s]), Takes(s, n),
         rd[s] # "eof", SameEnds
  PROVE  Stream!Receive(s)
<1>1. sentBar' = sentBar
  <2>1. \A t \in Sides : Len(got[t] \o stream[t]) = Len(got[t]) + Len(stream[t])
    BY ConcatProperties DEF IInv, TypeOK
  <2>2. \A t \in Sides : Len(got'[t] \o stream'[t]) = Len(got'[t]) + Len(stream'[t])
    BY ConcatProperties DEF IInv, TypeOK
  <2>3. \A t \in Sides : got'[t] \o stream'[t] = got[t] \o stream[t]
    BY TakesOrder DEF IInv
  <2>4. QED
    BY <2>1, <2>2, <2>3, Others DEF sentBar
<1>2. \A t \in Sides : t # s => got'[t] = got[t]
  BY TakesOrder DEF IInv
<1>3. got'[s] = Stream!Numbers(Len(got'[s])) /\ Len(got'[s]) \in 0..Sent(Other(s))'
  BY CountsNext DEF Counts, Stream!Numbers
<1>4. Sent(Other(s))' = sentBar[Other(s)]
  BY <1>1, CountsNext, Others DEF Counts
<1>5. Len(got'[s]) >= Len(got[s]) /\ Len(got[s]) \in Nat
  <2>1. got[s] \in Seq(1..Total) /\ stream[s] \in Seq(1..Total)
    BY DEF IInv, TypeOK
  <2>2. got'[s] = got[s] \o SubSeq(stream[s], 1, n)
    BY DEF Takes, IInv, TypeOK
  <2>3. QED
    BY <2>1, <2>2, TakeFirst
<1>6. got' = [got EXCEPT ![s] = Stream!Numbers(Len(got'[s]))]
  BY <1>2, <1>3 DEF IInv, TypeOK
<1>7. Len(got'[s]) \in Len(got[s])..sentBar[Other(s)]
  BY <1>3, <1>4, <1>5, CountsNow, Others DEF Counts
<1>8. ~eofBar[s]
  BY DEF eofBar
<1>9. QED
  BY <1>1, <1>6, <1>7, <1>8 DEF Stream!Receive, Stream!Other, Other, SameEnds,
     sentBar, endedBar, eofBar

\* Putting bytes is a step of the sender.
LEMMA PutsRefines ==
  ASSUME IInv, IInv', NEW s \in Sides, NEW n \in Nat,
         Sent(s)' = Sent(s) + n, Sent(Other(s))' = Sent(Other(s)), got' = got,
         ~fin[Other(s)], rst[Other(s)] = "no", SameEnds
  PROVE  Stream!Send(s)
<1>1. /\ sentBar[s] = Sent(s) /\ sentBar'[s] = Sent(s)'
      /\ Sent(s) \in 0..Total /\ Sent(s)' \in 0..Total
      /\ sentBar[Other(s)] = Sent(Other(s)) /\ sentBar'[Other(s)] = Sent(Other(s))'
  BY CountsNow, CountsNext, Others DEF Counts
<1>2. Sent(s)' \in sentBar[s]..Total
  BY <1>1
<1>3. sentBar' = [sentBar EXCEPT ![s] = Sent(s)']
  <2>1. \A t \in Sides : t = s \/ t = Other(s)
    BY DEF Sides, Other
  <2>2. \A t \in Sides : t # s => sentBar'[t] = sentBar[t]
    BY <1>1, <2>1
  <2>3. QED
    BY <1>1, <2>2 DEF sentBar
<1>4. ~endedBar[s]
  BY DEF endedBar
<1>5. QED
  BY <1>2, <1>3, <1>4 DEF Stream!Send, Stream!Other, Other, SameEnds, sentBar, endedBar, eofBar

\* A step that moves no byte, ends no side and tells no end is not seen.
LEMMA NotSeen ==
  ASSUME UNCHANGED <<got, stream>>, SameEnds
  PROVE  UNCHANGED Stream!vars
BY DEF Stream!vars, SameEnds, sentBar, endedBar, eofBar

Seen == Stream!Next \/ UNCHANGED Stream!vars

LEMMA StreamSides == Stream!Sides = Sides
BY DEF Stream!Sides, Sides

LEMMA ReadRefines ==
  ASSUME 0 \notin Sizes, IInv, IInv', NEW s \in Sides, Reads(s)
  PROVE  Seen
<1> USE DEF IInv
<1>1. CASE CallRead(s)
  <2>1. SameEnds
    BY <1>1 DEF CallRead, SameEnds, endedBar, eofBar, host, TypeOK
  <2>2. QED
    BY <1>1, <2>1, NotSeen DEF CallRead, host, Seen
<1>2. CASE AwaitData(s)
  <2>1. SameEnds
    BY <1>2 DEF AwaitData, Unready, SameEnds, endedBar, eofBar, host
  <2>2. QED
    BY <1>2, <2>1, NotSeen DEF AwaitData, host, Seen
<1>3. CASE Receive(s)
  <2>1. PICK n \in 0..Len(stream[s]), r \in Rds :
          /\ rd' = [rd EXCEPT ![s] = r]
          /\ Takes(s, n) \/ UNCHANGED <<stream, got>>
          /\ r = "eof" => /\ UNCHANGED <<stream, got>>
                          /\ stream[s] = <<>> /\ (fin[s] \/ rst[s] = "taken")
    BY <1>3, ReadCases
  <2>2. rd[s] = "call" /\ fin' = fin
    BY <1>3 DEF Receive
  <2>3. endedBar' = endedBar
    <3>1. rst' = rst \/ (rst[s] = "pending" /\ rst' = [rst EXCEPT ![s] = "taken"])
      BY <1>3 DEF Receive, Received
    <3>2. \A t \in Sides : rst'[t] # "no" <=> rst[t] # "no"
      BY <3>1 DEF TypeOK
    <3>3. QED
      BY <2>2, <3>2, Others DEF endedBar
  <2>4. CASE r = "eof"
    <3>1. eofBar' = [eofBar EXCEPT ![s] = TRUE]
      BY <2>1, <2>4 DEF eofBar, TypeOK
    <3>2. endedBar[Other(s)]
      BY <2>1, <2>4, Others DEF endedBar
    <3>3. Len(got[s]) = sentBar[Other(s)]
      <4>1. sentBar[Other(s)] = Len(got[s]) + Len(stream[s])
        BY Others DEF sentBar
      <4>2. Len(stream[s]) = 0 /\ Len(got[s]) \in Nat
        BY <2>1, <2>4 DEF TypeOK
      <4>3. QED
        BY <4>1, <4>2
    <3>4. sentBar' = sentBar /\ got' = got
      BY <2>1, <2>4 DEF sentBar
    <3>5. Stream!EndOfFile(s)
      BY <2>3, <3>1, <3>2, <3>3, <3>4
      DEF Stream!EndOfFile, Stream!Other, Other, sentBar, endedBar, eofBar
    <3>6. QED
      BY <3>5, StreamSides DEF Seen, Stream!Next
  <2>5. CASE r # "eof"
    <3>1. SameEnds
      BY <2>1, <2>2, <2>3, <2>5 DEF SameEnds, eofBar, TypeOK
    <3>2. CASE Takes(s, n)
      BY <2>2, <3>1, <3>2, TakesRefines, StreamSides DEF Seen, Stream!Next
    <3>3. CASE UNCHANGED <<stream, got>>
      BY <3>1, <3>3, NotSeen DEF Seen
    <3>4. QED
      BY <2>1, <3>2, <3>3
  <2>6. QED
    BY <2>4, <2>5
<1>4. QED
  BY <1>1, <1>2, <1>3 DEF Reads

\* A Write or its continuation in the host takes nothing off the way.
LEMMA Grows ==
  ASSUME TypeOK, TypeOK', NEW s \in Sides, Write(s) \/ SendMore(s)
  PROVE  Len(stream'[Other(s)]) >= Len(stream[Other(s)])
<1> USE ConnAssumption
<1>1. Other(s) \in Sides /\ stream[Other(s)] \in Seq(1..Total) /\ Len(stream[Other(s)]) \in Nat
  BY Others DEF TypeOK
<1>2. ASSUME NEW m \in Nat, NEW n \in Nat, Puts(s, m, n)
      PROVE  Len(stream'[Other(s)]) = Len(stream[Other(s)]) + n
  <2>1. stream'[Other(s)] = stream[Other(s)] \o Bytes(m, n)
    BY <1>1, <1>2 DEF Puts, TypeOK
  <2>2. Bytes(m, n) \in Seq(Nat) /\ Len(Bytes(m, n)) = n
    BY DEF Bytes
  <2>3. stream[Other(s)] \in Seq(Nat)
    BY <1>1, SeqMonotonic
  <2>4. \A a, b \in Seq(Nat) : Len(a \o b) = Len(a) + Len(b)
    BY ConcatProperties
  <2>5. QED
    BY <2>1, <2>2, <2>3, <2>4
<1>3. \A t \in Sides : told[t] \in Nat /\ part[t].done \in Nat
  BY DEF TypeOK
<1>4. CASE Write(s)
  <2>1. stream' = stream \/ \E n \in Nat : Puts(s, told[s], n)
    BY <1>4, WriteCases DEF SendAll
  <2>2. QED
    BY <1>1, <1>2, <1>3, <2>1
<1>5. CASE SendMore(s)
  <2>1. PICK n \in 1..AtMost(part[s].left, Room(s)) : Puts(s, told[s] + part[s].done, n)
    BY <1>5 DEF SendMore, Puts
  <2>2. n \in Nat
    <3>1. Room(s) \in Int /\ part[s].left \in Int
      BY <1>1 DEF TypeOK, Room
    <3>2. QED
      BY <3>1 DEF AtMost
  <2>3. told[s] + part[s].done \in Nat
    BY <1>3
  <2>4. Len(stream'[Other(s)]) = Len(stream[Other(s)]) + n
    BY <1>2, <2>1, <2>2, <2>3
  <2>5. QED
    BY <1>1, <2>2, <2>4
<1>6. QED
  BY <1>4, <1>5

LEMMA WriteRefines ==
  ASSUME IInv, IInv', NEW s \in Sides, Writes(s) \/ InHost(s)
  PROVE  Seen
<1> USE DEF IInv
<1>1. rd' = rd /\ fin' = fin /\ got' = got
  BY DEF Writes, InHost, CallWrite, Write, StopWaiting, SendMore, SendReturns, SendFails,
     host, reader
<1>2. \A t \in Sides : rst'[t] # "no" <=> rst[t] # "no"
  <2>1. CASE rst' = rst
    BY <2>1
  <2>2. CASE WriteFails(s)
    BY <2>2 DEF WriteFails, TypeOK
  <2>3. rst' = rst \/ WriteFails(s)
    <3>1. CASE Write(s)
      BY <3>1, WriteCases DEF SendAll
    <3>2. CASE ~Write(s)
      BY <3>2 DEF Writes, InHost, CallWrite, StopWaiting, SendMore, SendReturns, SendFails, host
    <3>3. QED
      BY <3>1, <3>2
  <2>4. QED
    BY <2>1, <2>2, <2>3
<1>3. SameEnds
  BY <1>1, <1>2, Others DEF SameEnds, endedBar, eofBar
<1>4. CASE stream' = stream
  BY <1>1, <1>3, <1>4, NotSeen DEF Seen
<1>5. CASE stream' # stream
  <2>1. ~Broken(s) /\ s \in guest /\ (Write(s) \/ SendMore(s))
    <3>1. CASE Write(s)
      BY <1>5, <3>1, WriteCases DEF SendAll, Write, Runs
    <3>2. CASE SendMore(s)
      BY <3>2 DEF SendMore, TypeOK, Idle, Sides
    <3>3. QED
      BY <1>5, <3>1, <3>2 DEF Writes, InHost, CallWrite, StopWaiting, SendReturns, SendFails, host
  <2>2. ~fin[Other(s)] /\ rst[Other(s)] = "no"
    BY <2>1, Others DEF Broken, Away
  <2>3. \E n \in Nat : Sent(s)' = Sent(s) + n
    <3>1. \E k, l \in Nat : Sent(s) = k /\ Sent(s)' = l /\ k <= l
      <4>1. Sent(s) \in Nat /\ Sent(s)' \in Nat
        BY CountsNow, CountsNext DEF Counts
      <4>2. Len(got[Other(s)]) + Len(stream[Other(s)]) = Sent(s)
            /\ Len(got[Other(s)]) + Len(stream'[Other(s)]) = Sent(s)'
        BY <1>1, CountsNow, CountsNext, Others DEF Counts, sentBar
      <4>3. Len(stream'[Other(s)]) >= Len(stream[Other(s)])
        BY <1>5, <2>1, Grows
      <4>4. QED
        BY <4>1, <4>2, <4>3, Others DEF TypeOK
    <3>2. QED
      BY <3>1
  <2>4. Sent(Other(s))' = Sent(Other(s))
    BY <2>1, Others DEF Write, SendMore, SendNow, SendAll, WriteFails, WriteReturns, Sent, TypeOK
  <2>5. QED
    BY <1>1, <1>3, <2>2, <2>3, <2>4, PutsRefines, StreamSides DEF Seen, Stream!Next
<1>6. QED
  BY <1>4, <1>5

LEMMA OtherRefines ==
  ASSUME IInv, IInv', NEW s \in Sides, SetDeadline(s) \/ Close(s) \/ Peer(s)
  PROVE  Seen
<1> USE DEF IInv
<1>1. CASE SetDeadline(s)
  <2>1. SameEnds
    BY <1>1 DEF SetDeadline, SameEnds, endedBar, eofBar, host, reader
  <2>2. QED
    BY <1>1, <2>1, NotSeen DEF SetDeadline, host, reader, Seen
<1>2. CASE Close(s)
  <2>1. Directions(SHUT_RDWR) = {}
    BY DEF Directions, SHUT_RDWR
  <2>2. \A t \in Sides : fin'[t] = fin[t]
    BY <1>2, <2>1 DEF Close, TypeOK
  <2>3. SameEnds
    BY <1>2, <2>2, Others DEF Close, SameEnds, endedBar, eofBar, reader
  <2>4. QED
    BY <1>2, <2>3, NotSeen DEF Close, reader, Seen
<1>3. CASE PeerSend(s)
  <2>1. part[s] = NoPart /\ part' = part /\ got' = got /\ UNCHANGED <<fin, rst, rd>>
    <3>1. holder # <<s, "write">>
      BY <1>3 DEF PeerSend, Elsewhere, TypeOK, Idle, Sides
    <3>2. part[s] = NoPart
      BY <3>1 DEF Held
    <3>3. QED
      BY <1>3, <3>2 DEF PeerSend, reader
  <2>2. NoPart.done = 0 /\ told[s] \in Nat
    BY DEF NoPart, TypeOK
  <2>3. Sent(s)' = Sent(s) + 1
    BY <1>3, <2>1, <2>2 DEF PeerSend, Sent, TypeOK
  <2>4. Sent(Other(s))' = Sent(Other(s))
    BY <1>3, <2>1, Others DEF PeerSend, Sent, TypeOK
  <2>5. SameEnds
    BY <2>1 DEF SameEnds, endedBar, eofBar
  <2>6. QED
    BY <1>3, <2>1, <2>3, <2>4, <2>5, PutsRefines, StreamSides
    DEF PeerSend, Elsewhere, Seen, Stream!Next
<1>4. CASE PeerReceive(s)
  <2>1. Takes(s, 1) /\ 1 \in 0..Len(stream[s])
    BY <1>4, PeerTakes
  <2>2. SameEnds
    BY <1>4 DEF PeerReceive, SameEnds, endedBar, eofBar
  <2>3. rd[s] = "idle"
    BY <1>4 DEF PeerReceive, Elsewhere, Away
  <2>4. QED
    BY <2>1, <2>2, <2>3, TakesRefines, StreamSides DEF Seen, Stream!Next
<1>5. CASE PeerEnd(s) \/ PeerReset(s)
  <2>1. endedBar' = [endedBar EXCEPT ![s] = TRUE]
    <3>1. \A t \in Sides : Other(t) = Other(s) <=> t = s
      BY Others
    <3>2. CASE PeerEnd(s)
      BY <3>1, <3>2, Others DEF PeerEnd, endedBar, TypeOK
    <3>3. CASE PeerReset(s)
      BY <3>1, <3>3, Others DEF PeerReset, endedBar, TypeOK
    <3>4. QED
      BY <1>5, <3>2, <3>3
  <2>2. UNCHANGED <<got, stream, rd>>
    BY <1>5 DEF PeerEnd, PeerReset, reader
  <2>3. sentBar' = sentBar /\ eofBar' = eofBar /\ got' = got
    BY <2>2 DEF sentBar, eofBar
  <2>4. Stream!End(s)
    BY <2>1, <2>3 DEF Stream!End, Stream!Other, Other, sentBar, endedBar, eofBar
  <2>5. QED
    BY <2>4, StreamSides DEF Seen, Stream!Next
<1>6. QED
  BY <1>1, <1>2, <1>3, <1>4, <1>5 DEF Peer

\* With buffers that are not empty, the connection implements ByteStream: each step is
\* a step of the stream or is not seen by it, and the end of file comes last.
THEOREM StreamKept ==
  ASSUME 0 \notin Sizes
  PROVE  Spec => ImplementsStream
<1>1. Init => Stream!Init
  <2> SUFFICES ASSUME Init PROVE Stream!Init
    OBVIOUS
  <2>1. sentBar = [s \in Sides |-> 0] /\ endedBar = [s \in Sides |-> FALSE]
        /\ eofBar = [s \in Sides |-> FALSE] /\ got = [s \in Sides |-> <<>>]
    <3>1. \A s \in Sides : Len(got[s]) + Len(stream[s]) = 0
      BY DEF Init
    <3>2. \A s \in Sides : ~(fin[s] \/ rst[s] # "no") /\ rd[s] # "eof"
      BY DEF Init
    <3>3. sentBar = [s \in Sides |-> 0]
      BY <3>1, Others DEF sentBar
    <3>4. endedBar = [s \in Sides |-> FALSE]
      BY <3>2, Others DEF endedBar
    <3>5. eofBar = [s \in Sides |-> FALSE]
      BY <3>2 DEF eofBar
    <3>6. QED
      BY <3>3, <3>4, <3>5 DEF Init
  <2>2. QED
    BY <2>1, StreamSides DEF Stream!Init, Stream!Other, Other, sentBar, endedBar, eofBar
<1>2. IInv /\ IInv' /\ [Next]_vars => [Stream!Next]_(Stream!vars)
  <2> SUFFICES ASSUME IInv, IInv', [Next]_vars PROVE Seen
    BY DEF Seen
  <2>1. CASE Next
    BY <2>1, ReadRefines, WriteRefines, OtherRefines DEF Next
  <2>2. CASE UNCHANGED vars
    BY <2>2, NotSeen DEF vars, state, SameEnds, endedBar, eofBar, Seen
  <2>3. QED
    BY <2>1, <2>2
<1>3. QED
  BY Invariance, <1>1, <1>2, PTL DEF Spec, ImplementsStream, Stream!Spec

-----------------------------------------------------------------------------
(* Deadlines.                                                              *)

\* Whole seconds of a duration, and the fraction that they leave.
LEMMA WholeSeconds ==
  ASSUME NEW t \in Int, t >= 1000
  PROVE  /\ Trunc(t, Second) \in Nat
         /\ t - Trunc(t, Second) * Second \in Nat
         /\ t - Trunc(t, Second) * Second < Second
<1>1. Trunc(t, Second) = t \div 1000000
  BY DEF Trunc, Second
<1>2. /\ t \div 1000000 \in Nat /\ t - (t \div 1000000) * 1000000 \in Nat
      /\ t - (t \div 1000000) * 1000000 < 1000000
  OBVIOUS
<1>3. QED
  BY <1>1, <1>2 DEF Second

\* The milliseconds of the fraction are less than its microseconds, and there are some
\* when it has a millisecond.
LEMMA Milliseconds ==
  ASSUME NEW rest \in Nat, rest < Second
  PROVE  LET usec == AtLeast0(AtMost(Trunc(rest, 1000), 999999)) IN
         usec \in Nat /\ usec <= rest /\ (rest >= 1000 => usec > 0)
<1>1. /\ rest \div 1000 \in Nat /\ rest \div 1000 <= 999999 /\ rest \div 1000 <= rest
      /\ rest >= 1000 => rest \div 1000 > 0
  BY DEF Second
<1>2. AtLeast0(AtMost(Trunc(rest, 1000), 999999)) = rest \div 1000
  BY <1>1 DEF AtLeast0, AtMost, Trunc
<1>3. QED
  BY <1>1, <1>2

LEMMA TimevalBounds ==
  ASSUME NEW t \in Int, t >= 1000
  PROVE  LET tv == Timeval(Duration(t)) IN
         HostWait(tv) = "some" /\ tv.sec * Second + tv.usec <= t
<1> DEFINE secs == Trunc(t, Second)
           rest == t - secs * Second
           usec == AtLeast0(AtMost(Trunc(rest, 1000), 999999))
<1>1. Duration(t) = t
  BY ConnAssumption DEF Duration
<1>2. Timeval(Duration(t)) = [sec |-> secs, usec |-> usec]
  BY <1>1 DEF Timeval
<1>3. secs \in Nat /\ rest \in Nat /\ rest < Second
  BY WholeSeconds
<1>4. usec \in Nat /\ usec <= rest /\ (rest >= 1000 => usec > 0)
  BY <1>3, Milliseconds
<1>5. rest + secs * Second = t
  BY <1>3 DEF Second
<1>6. secs = 0 => rest >= 1000
  BY <1>3, <1>5 DEF Second
<1> HIDE DEF secs, rest, usec
<1>7. secs * Second + usec <= t
  BY <1>3, <1>4, <1>5 DEF Second
<1>8. HostWait([sec |-> secs, usec |-> usec]) = "some"
  BY <1>3, <1>4, <1>6 DEF HostWait
<1>9. QED
  BY <1>2, <1>7, <1>8

\* Whatever deadlines are set, one that is a millisecond away or more makes the host's
\* socket wait for some time and never longer: the seconds and milliseconds of the
\* timeval are not both cut to zero, which would mean for ever.
THEOREM DeadlinesBoundWaits == Spec => []DeadlineBoundsWait
<1>1. TypeOK => DeadlineBoundsWait
  <2> SUFFICES ASSUME TypeOK, NEW s \in Sides, NEW way \in {"rcv", "snd"},
                      asked[s][way] # NoDeadline, asked[s][way] >= 1000
               PROVE  LET tv == Timeval(Duration(asked[s][way])) IN
                      HostWait(tv) = "some" /\ tv.sec * Second + tv.usec <= asked[s][way]
    BY DEF DeadlineBoundsWait
  <2>1. asked[s][way] \in Deadlines \cup {NoDeadline}
    BY DEF TypeOK
  <2>2. asked[s][way] \in Int
    BY <2>1, ConnAssumption
  <2>3. QED
    BY <2>2, TimevalBounds
<1>2. QED
  BY TypeCorrect, <1>1, PTL

-----------------------------------------------------------------------------
(* The nil dereference.                                                    *)

\* Once a side has taken the reset, and once its conn is closed, it stays so.
LEMMA ForGood ==
  ASSUME TypeOK, [Next]_vars, NEW s \in Sides
  PROVE  /\ rst[s] = "taken" => rst'[s] = "taken"
         /\ ~fd[s] => ~fd'[s]
         /\ guest' = guest
<1> USE DEF TypeOK
<1>1. CASE UNCHANGED vars
  BY <1>1 DEF vars, state
<1>2. ASSUME NEW t \in Sides, Reads(t) \/ Writes(t) \/ InHost(t) PROVE fd' = fd
  BY <1>2 DEF Reads, CallRead, Receive, AwaitData, Writes, CallWrite, Write, InHost,
              StopWaiting, SendMore, SendReturns, SendFails, user
<1>3. ASSUME NEW t \in Sides, SetDeadline(t) \/ Close(t) \/ Peer(t)
      PROVE  ~fd[s] => ~fd'[s]
  BY <1>3 DEF SetDeadline, Close, Peer, PeerSend, PeerReceive, PeerEnd, PeerReset, user
<1>4. ASSUME NEW t \in Sides, Reads(t) PROVE rst[s] = "taken" => rst'[s] = "taken"
  BY <1>4 DEF Reads, CallRead, Receive, Received, AwaitData, host
<1>5. ASSUME NEW t \in Sides, Writes(t) \/ InHost(t)
      PROVE  rst[s] = "taken" => rst'[s] = "taken"
  <2>1. CASE WriteFails(t)
    BY <2>1 DEF WriteFails
  <2>2. CASE rst' = rst
    BY <2>2
  <2>3. QED
    BY <1>5, <2>1, <2>2 DEF Writes, CallWrite, Write, SendNow, SendAll, InHost, StopWaiting,
                            SendMore, SendReturns, SendFails, host
<1>6. ASSUME NEW t \in Sides, SetDeadline(t) \/ Close(t) \/ Peer(t)
      PROVE  rst[s] = "taken" => rst'[s] = "taken"
  BY <1>6, Others DEF SetDeadline, Close, Peer, PeerSend, PeerReceive, PeerEnd, PeerReset,
                      Elsewhere, host
<1>7. QED
  BY <1>1, <1>2, <1>3, <1>4, <1>5, <1>6 DEF Next

\* A Read dereferences nil only when it has an error of the host to wrap
\* (conn.wasip1.go:22-25) and Close has forgotten the netFD since the Read began.
THEOREM PanicBounded == Spec => []PanicNeedsCloseAndReset
<1>1. Init => PanicNeedsCloseAndReset
  BY DEF Init, PanicNeedsCloseAndReset
<1>2. TypeOK /\ PanicNeedsCloseAndReset /\ [Next]_vars => PanicNeedsCloseAndReset'
  <2> SUFFICES ASSUME TypeOK, PanicNeedsCloseAndReset, [Next]_vars,
                      NEW s \in Sides, rd'[s] = "panic"
               PROVE  s \in guest' /\ ~fd'[s] /\ rst'[s] = "taken"
    BY DEF PanicNeedsCloseAndReset
  <2>1. CASE rd[s] = "panic"
    BY <2>1, ForGood DEF PanicNeedsCloseAndReset
  <2>2. CASE rd[s] # "panic"
    <3>1. rd' # rd
      BY <2>2
    <3>2. PICK t \in Sides : Reads(t)
      BY <3>1 DEF Next, vars, state, Writes, CallWrite, Write, InHost, StopWaiting, SendMore,
                  SendReturns, SendFails, SetDeadline, Close, Peer, PeerSend, PeerReceive,
                  PeerEnd, PeerReset, reader
    <3>3. t = s /\ Receive(s) /\ stream[s] = <<>> /\ rst' = [rst EXCEPT ![s] = "taken"] /\ ~fd[s]
      <4>1. CASE CallRead(t)
        BY <2>2, <4>1 DEF CallRead, TypeOK
      <4>2. CASE AwaitData(t)
        BY <2>2, <4>2 DEF AwaitData, Unready
      <4>3. CASE Receive(t)
        BY <2>2, <4>3 DEF Receive, Received, TakeBytes, TypeOK
      <4>4. QED
        BY <3>2, <4>1, <4>2, <4>3 DEF Reads
    <3>4. s \in guest
      <4>1. holder = <<s, "read">> => holder \in guest \X {"read", "write"}
        BY DEF TypeOK, Idle
      <4>2. QED
        BY <3>3, <4>1 DEF Receive, Runs
    <3>5. QED
      BY <3>3, <3>4, ForGood DEF TypeOK
  <2>3. QED
    BY <2>1, <2>2
<1>3. QED
  BY <1>1, <1>2, TypeCorrect, PTL DEF Spec
=============================================================================
