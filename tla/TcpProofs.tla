----------------------------- MODULE TcpProofs ------------------------------
(***************************************************************************)
(* For all sizes of the data, of the kernel's buffers and of echo's: what  *)
(* check_read_write reads is what it wrote, every socket has one owner,    *)
(* and no connection is reset unless a call failed.                        *)
(***************************************************************************)
EXTENDS Tcp, SequenceTheorems, TLAPS

-----------------------------------------------------------------------------
(* The invariant. *)

\* Connection 1 is checked by the server and echoed by main, connection 2 the
\* other way round.
Checker(c) == IF c = 1 THEN "server" ELSE "client"
Echoer(c) == Peer(Checker(c))

ServerPlace == {"start", "accept1", "write", "read", "close", "accept2", "echo", "echoWrite",
                "done", "failed", "terminated"}
ClientPlace == {"start", "connect1", "echo", "echoWrite", "connect2", "write", "read", "close",
                "get", "done", "terminated"}
Checking == {"write", "read", "close"}
Echoing == {"echo", "echoWrite"}

Pipes == [Conn -> [Side -> Seq(1..size)]]

\* The domains of the functions, and bounds that the octets obey because they
\* are those of one round trip.
Typed ==
  /\ size \in Sizes
  /\ pc \in [Side -> ServerPlace \cup ClientPlace]
  /\ pc["server"] \in ServerPlace /\ pc["client"] \in ClientPlace
  /\ fd \in [Side -> Conn \cup {NoConn}] /\ timeout \in [Side -> BOOLEAN]
  /\ data \in [Side -> Seq(1..size)] /\ written \in [Side -> Nat] /\ got \in [Side -> Seq(1..size)]
  /\ result \in [Side -> {"none", "true", "false"}]
  /\ stream \in Pipes /\ open \in [Conn -> SUBSET Side]
  /\ \A s \in Side :
       /\ Len(data[s]) <= size /\ (pc[s] = "echoWrite" => Len(data[s]) <= Buf)
       /\ written[s] <= Len(data[s]) /\ Len(got[s]) <= size
  /\ \A c \in Conn, s \in Side : Len(stream[c][s]) <= Cap /\ Len(stream[c][s]) <= size
  /\ reset \subseteq Conn /\ listening \in BOOLEAN /\ failed \in BOOLEAN

\* Which connection a thread has, and how far the other one can be.
Control ==
  /\ pc["server"] \in Checking => fd["server"] = 1 /\ pc["client"] \in Echoing
  /\ pc["server"] \in Echoing => fd["server"] = 2
  /\ pc["server"] \notin Checking \cup Echoing => fd["server"] = NoConn
  /\ pc["client"] \in Checking => fd["client"] = 2
  /\ pc["client"] \in Echoing \cup {"connect2"} => fd["client"] = 1
  /\ pc["client"] \notin Checking \cup Echoing \cup {"connect2"} => fd["client"] = NoConn
  /\ pc["server"] = "start" <=> pc["client"] = "start"
  /\ pc["server"] = "terminated" <=> pc["client"] = "terminated"
  /\ pc["server"] = "accept1" =>
       pc["client"] = "connect1" \/ (pc["client"] = "echo" /\ backlog = << 1 >>)
  /\ pc["client"] = "connect1" => pc["server"] \in {"accept1", "failed"}
  /\ pc["server"] \in Echoing \cup {"done"} => pc["client"] \in Checking \cup {"get", "done"}
  /\ backlog \in {<<>>, << 1 >>, << 2 >>}
  /\ backlog = << 1 >> => pc["client"] = "echo" /\ pc["server"] \in {"accept1", "failed"}
  /\ backlog = << 2 >> =>
       pc["client"] \in Checking \cup {"get"} /\ pc["server"] \in {"accept2", "failed"}

\* The variables of writeExact and readExact.
Locals ==
  \A s \in Side :
    /\ pc[s] = "write" => data[s] = Data
    /\ pc[s] \in {"read", "close"} => written[s] = size
    /\ pc[s] = "close" => Len(got[s]) = size
    /\ pc[s] = "echoWrite" => written[s] < Len(data[s])

\* An end that is not open has nothing to read; nothing is written on connection
\* 1 before it is accepted, and main connects again when it has read everything.
Quiet ==
  /\ \A c \in Conn, s \in Side : s \notin open[c] => stream[c][s] = <<>>
  /\ pc["server"] = "accept1" \/ backlog = << 1 >> => stream[1] = [s \in Side |-> <<>>]
  /\ pc["client"] = "connect2" => "server" \notin open[1] /\ stream[1]["client"] = <<>>

\* q holds the octets that follow the first a ones.
Run(q, a) == \A i \in 1..Len(q) : q[i] = a + i

\* What echo has read and not yet written back.
Rest(s) == IF pc[s] = "echoWrite" THEN SubSeq(data[s], written[s] + 1, Len(data[s])) ELSE <<>>

\* The first n octets are spread over four places, in their order.
Chain(g, back, rest, forth, n) ==
  /\ Run(g, 0) /\ Run(back, Len(g)) /\ Run(rest, Len(g) + Len(back))
  /\ Run(forth, Len(g) + Len(back) + Len(rest))
  /\ Len(g) + Len(back) + Len(rest) + Len(forth) = n

\* The octets of a round trip are where writeExact, the kernel, echo and readExact
\* have brought them; what the checking side can still read is intact even when
\* the other side is gone.
Round(c) ==
  LET k == Checker(c)
      e == Echoer(c)
  IN fd[k] = c =>
       /\ Run(got[k], 0) /\ Run(stream[c][k], Len(got[k]))
       /\ e \in open[c] => Chain(got[k], stream[c][k], Rest(e), stream[c][e], written[k])

\* As long as no call fails, the side that echoes closes last, and finds nothing
\* left to echo when the other has closed.
Orderly ==
  ~failed =>
    /\ reset = {}
    /\ \A s \in Side : pc[s] \notin {"failed", "terminated"}
    /\ \A c \in Conn :
         /\ Checker(c) \in open[c] => Echoer(c) \in open[c]
         /\ Checker(c) \notin open[c] /\ Echoer(c) \in open[c] =>
              stream[c][Echoer(c)] = <<>> /\ pc[Echoer(c)] # "echoWrite"

TcpInv ==
  /\ Typed /\ Control /\ EndsOwned /\ Locals /\ Quiet
  /\ \A c \in Conn : Round(c)
  /\ EchoedExactly
  /\ Orderly

-----------------------------------------------------------------------------
(* Sequences of octets. *)

\* One read splits what is there.
LEMMA Take ==
  ASSUME NEW S, NEW q \in Seq(S), NEW n \in 0..Len(q), NEW a \in Nat
  PROVE  /\ SubSeq(q, 1, n) \in Seq(S) /\ Len(SubSeq(q, 1, n)) = n
         /\ SubSeq(q, n + 1, Len(q)) \in Seq(S) /\ Len(SubSeq(q, n + 1, Len(q))) = Len(q) - n
         /\ Run(q, a) => Run(SubSeq(q, 1, n), a) /\ Run(SubSeq(q, n + 1, Len(q)), a + n)
<1>. Len(q) \in Nat
  OBVIOUS
<1>1. /\ SubSeq(q, 1, n) \in Seq(S) /\ Len(SubSeq(q, 1, n)) = n
      /\ \A i \in 1..n : SubSeq(q, 1, n)[i] = q[i]
  BY SubSeqProperties
<1>2. /\ SubSeq(q, n + 1, Len(q)) \in Seq(S) /\ Len(SubSeq(q, n + 1, Len(q))) = Len(q) - n
      /\ \A i \in 1..(Len(q) - n) : SubSeq(q, n + 1, Len(q))[i] = q[n + i]
  BY SubSeqProperties
<1>. QED
  BY <1>1, <1>2 DEF Run

\* One write appends a chunk.
LEMMA Put ==
  ASSUME NEW S, NEW q \in Seq(S), NEW r \in Seq(S), NEW a \in Nat
  PROVE  /\ q \o r \in Seq(S) /\ Len(q \o r) = Len(q) + Len(r)
         /\ Run(q, a) /\ Run(r, a + Len(q)) => Run(q \o r, a)
<1>. Len(q) \in Nat /\ Len(r) \in Nat
  OBVIOUS
<1>1. /\ q \o r \in Seq(S) /\ Len(q \o r) = Len(q) + Len(r)
      /\ \A i \in 1..(Len(q) + Len(r)) : (q \o r)[i] = IF i <= Len(q) THEN q[i] ELSE r[i - Len(q)]
  BY ConcatProperties
<1>2. ASSUME Run(q, a), Run(r, a + Len(q)), NEW i \in 1..(Len(q) + Len(r))
      PROVE  (q \o r)[i] = a + i
  <2>1. CASE i <= Len(q)
    BY <1>1, <1>2, <2>1 DEF Run
  <2>2. CASE ~(i <= Len(q))
    <3>1. i - Len(q) \in 1..Len(r)
      BY <2>2
    <3>. QED
      BY <1>1, <1>2, <2>2, <3>1 DEF Run
  <2>. QED
    BY <2>1, <2>2
<1>. QED
  BY <1>1, <1>2 DEF Run

\* The chunk that writeExact writes next, and what then remains.
LEMMA ChunkOf ==
  ASSUME NEW S, NEW q \in Seq(S), NEW w \in 0..Len(q), NEW n \in 1..(Len(q) - w), NEW a \in Nat
  PROVE  /\ SubSeq(q, w + 1, w + n) \in Seq(S) /\ Len(SubSeq(q, w + 1, w + n)) = n
         /\ SubSeq(q, w + 1, Len(q)) \in Seq(S) /\ Len(SubSeq(q, w + 1, Len(q))) = Len(q) - w
         /\ Len(SubSeq(q, w + n + 1, Len(q))) = Len(q) - (w + n)
         /\ Run(q, a) => Run(SubSeq(q, w + 1, w + n), a + w)
         /\ Run(SubSeq(q, w + 1, Len(q)), a) =>
              Run(SubSeq(q, w + 1, w + n), a) /\ Run(SubSeq(q, w + n + 1, Len(q)), a + n)
<1>. Len(q) \in Nat
  OBVIOUS
<1>1. /\ SubSeq(q, w + 1, w + n) \in Seq(S) /\ Len(SubSeq(q, w + 1, w + n)) = n
      /\ \A i \in 1..n : SubSeq(q, w + 1, w + n)[i] = q[w + i]
  <2>1. w + 1 \in 1..(Len(q) + 1) /\ w + n \in w..Len(q) /\ (w + n) - (w + 1) + 1 = n
    OBVIOUS
  <2>2. \A i \in 1..n : w + 1 + i - 1 = w + i
    OBVIOUS
  <2>. QED
    BY <2>1, <2>2, SubSeqProperties
<1>2. /\ SubSeq(q, w + 1, Len(q)) \in Seq(S) /\ Len(SubSeq(q, w + 1, Len(q))) = Len(q) - w
      /\ \A i \in 1..(Len(q) - w) : SubSeq(q, w + 1, Len(q))[i] = q[w + i]
  BY SubSeqProperties
<1>3. /\ Len(SubSeq(q, w + n + 1, Len(q))) = Len(q) - (w + n)
      /\ \A i \in 1..(Len(q) - (w + n)) : SubSeq(q, w + n + 1, Len(q))[i] = q[w + n + i]
  BY SubSeqProperties
<1>4. Run(q, a) => Run(SubSeq(q, w + 1, w + n), a + w)
  BY <1>1 DEF Run
<1>5. ASSUME Run(SubSeq(q, w + 1, Len(q)), a)
      PROVE  Run(SubSeq(q, w + 1, w + n), a) /\ Run(SubSeq(q, w + n + 1, Len(q)), a + n)
  <2>1. \A i \in 1..(Len(q) - w) : q[w + i] = a + i
    BY <1>2, <1>5 DEF Run
  <2>2. \A i \in 1..(Len(q) - (w + n)) : q[w + n + i] = a + n + i
    <3>. SUFFICES ASSUME NEW i \in 1..(Len(q) - (w + n)) PROVE q[w + n + i] = a + n + i
      OBVIOUS
    <3>1. n + i \in 1..(Len(q) - w) /\ w + (n + i) = w + n + i /\ a + (n + i) = a + n + i
      OBVIOUS
    <3>. QED
      BY <2>1, <3>1
  <2>3. Run(SubSeq(q, w + 1, w + n), a)
    <3>1. \A i \in 1..n : i \in 1..(Len(q) - w)
      OBVIOUS
    <3>. QED
      BY <1>1, <2>1, <3>1 DEF Run
  <2>4. Run(SubSeq(q, w + n + 1, Len(q)), a + n)
    BY <1>3, <2>2 DEF Run
  <2>. QED
    BY <2>3, <2>4
<1>. QED
  BY <1>1, <1>2, <1>3, <1>4, <1>5

LEMMA PutType ==
  ASSUME NEW S, NEW q \in Seq(S), NEW r \in Seq(S)
  PROVE  q \o r \in Seq(S) /\ Len(q \o r) = Len(q) + Len(r)
BY ConcatProperties

LEMMA ChunkType ==
  ASSUME NEW S, NEW q \in Seq(S), NEW w \in 0..Len(q), NEW n \in 1..(Len(q) - w)
  PROVE  SubSeq(q, w + 1, w + n) \in Seq(S) /\ Len(SubSeq(q, w + 1, w + n)) = n
<1>1. 0 \in Nat
  OBVIOUS
<1>. QED
  BY <1>1, ChunkOf

LEMMA ChunkRun ==
  ASSUME NEW S, NEW q \in Seq(S), NEW w \in 0..Len(q), NEW n \in 1..(Len(q) - w), Run(q, 0)
  PROVE  Run(SubSeq(q, w + 1, w + n), w)
<1>1. 0 \in Nat /\ 0 + w = w
  OBVIOUS
<1>2. Run(SubSeq(q, w + 1, w + n), 0 + w)
  BY <1>1, ChunkOf
<1>. QED
  BY <1>1, <1>2

LEMMA OctetChunk ==
  \A q \in Seq(1..size) : \A w \in 0..Len(q) : \A n \in 1..(Len(q) - w) :
    /\ SubSeq(q, w + 1, w + n) \in Seq(1..size) /\ Len(SubSeq(q, w + 1, w + n)) = n
    /\ Run(q, 0) => Run(SubSeq(q, w + 1, w + n), w)
<1>. SUFFICES ASSUME NEW q \in Seq(1..size), NEW w \in 0..Len(q), NEW n \in 1..(Len(q) - w)
              PROVE  /\ SubSeq(q, w + 1, w + n) \in Seq(1..size)
                     /\ Len(SubSeq(q, w + 1, w + n)) = n
                     /\ Run(q, 0) => Run(SubSeq(q, w + 1, w + n), w)
  OBVIOUS
<1>1. SubSeq(q, w + 1, w + n) \in Seq(1..size) /\ Len(SubSeq(q, w + 1, w + n)) = n
  BY ChunkType
<1>2. Run(q, 0) => Run(SubSeq(q, w + 1, w + n), w)
  BY ChunkRun, Zenon
<1>. QED
  BY <1>1, <1>2

LEMMA RestOf ==
  ASSUME NEW S, NEW q \in Seq(S), NEW w \in 0..Len(q), w < Len(q)
  PROVE  SubSeq(q, w + 1, Len(q)) \in Seq(S) /\ Len(SubSeq(q, w + 1, Len(q))) = Len(q) - w
BY SubSeqProperties

LEMMA EmptyRun == \A a : Run(<<>>, a) /\ Len(<<>>) = 0
BY DEF Run

-----------------------------------------------------------------------------
(* The four ways in which octets move. *)

LEMMA ChainSends ==
  ASSUME NEW S, NEW g \in Seq(S), NEW b \in Seq(S), NEW r \in Seq(S), NEW f \in Seq(S),
         NEW n \in Nat, Chain(g, b, r, f, n), NEW ch \in Seq(S), Run(ch, n)
  PROVE  Chain(g, b, r, f \o ch, n + Len(ch))
<1>1. /\ Len(g) \in Nat /\ Len(b) \in Nat /\ Len(r) \in Nat /\ Len(f) \in Nat /\ Len(ch) \in Nat
      /\ Len(g) + Len(b) + Len(r) + Len(f) = n
  BY DEF Chain
<1>2. Run(f, Len(g) + Len(b) + Len(r)) /\ Run(ch, Len(g) + Len(b) + Len(r) + Len(f))
  BY <1>1 DEF Chain
<1>3. Run(f \o ch, Len(g) + Len(b) + Len(r)) /\ Len(f \o ch) = Len(f) + Len(ch)
  BY <1>1, <1>2, Put
<1>. DEFINE z == f \o ch
<1>4. Len(z) = Len(f) + Len(ch) /\ Run(z, Len(g) + Len(b) + Len(r))
  BY <1>3
<1>. HIDE DEF z
<1>5. Len(g) + Len(b) + Len(r) + (Len(f) + Len(ch)) = n + Len(ch)
  <2>1. PICK i \in Nat, j \in Nat, k \in Nat, l \in Nat, m \in Nat :
          i = Len(g) /\ j = Len(b) /\ k = Len(r) /\ l = Len(f) /\ m = Len(ch)
    BY <1>1
  <2>2. i + j + k + l = n => i + j + k + (l + m) = n + m
    OBVIOUS
  <2>. QED
    BY <1>1, <2>1, <2>2
<1>6. Chain(g, b, r, z, n + Len(ch))
  BY <1>4, <1>5 DEF Chain
<1>. QED
  BY <1>6 DEF z

LEMMA ChainEchoes ==
  ASSUME NEW S, NEW g \in Seq(S), NEW b \in Seq(S), NEW f \in Seq(S),
         NEW n \in Nat, Chain(g, b, <<>>, f, n), NEW m \in 1..Len(f)
  PROVE  Chain(g, b, SubSeq(f, 1, m), SubSeq(f, m + 1, Len(f)), n)
<1>1. /\ Len(g) \in Nat /\ Len(b) \in Nat /\ Len(f) \in Nat /\ Len(<<>>) = 0
      /\ Len(g) + Len(b) + Len(f) = n
  BY EmptyRun DEF Chain
<1>2. Run(f, Len(g) + Len(b))
  BY <1>1 DEF Chain
<1>3. /\ Run(SubSeq(f, 1, m), Len(g) + Len(b)) /\ Run(SubSeq(f, m + 1, Len(f)), Len(g) + Len(b) + m)
      /\ Len(SubSeq(f, 1, m)) = m /\ Len(SubSeq(f, m + 1, Len(f))) = Len(f) - m
  BY <1>1, <1>2, Take
<1>4. Run(g, 0) /\ Run(b, Len(g))
  BY DEF Chain
<1>5. Len(g) + Len(b) + m + (Len(f) - m) = n
  BY <1>1
<1>. DEFINE x == SubSeq(f, 1, m)
            y == SubSeq(f, m + 1, Len(f))
<1>6. Len(x) = m /\ Len(y) = Len(f) - m /\ Run(x, Len(g) + Len(b)) /\ Run(y, Len(g) + Len(b) + m)
  BY <1>3
<1>. HIDE DEF x, y
<1>7. Chain(g, b, x, y, n)
  BY <1>4, <1>5, <1>6 DEF Chain
<1>. QED
  BY <1>7 DEF x, y

LEMMA ChainShift ==
  ASSUME NEW S, NEW g \in Seq(S), NEW b \in Seq(S), NEW r \in Seq(S), NEW f \in Seq(S),
         NEW n \in Nat, Chain(g, b, r, f, n), NEW x \in Seq(S), NEW y,
         Len(y) = Len(r) - Len(x), Run(x, Len(g) + Len(b)), Run(y, Len(g) + Len(b) + Len(x))
  PROVE  Chain(g, b \o x, y, f, n)
<1>1. Len(g) \in Nat /\ Len(b) \in Nat /\ Len(r) \in Nat /\ Len(f) \in Nat /\ Len(x) \in Nat
  OBVIOUS
<1>2. Run(b \o x, Len(g)) /\ Len(b \o x) = Len(b) + Len(x)
  <2>1. Run(b, Len(g)) /\ Len(g) \in Nat
    BY <1>1 DEF Chain
  <2>2. Run(b \o x, Len(g))
    BY <2>1, Put, Zenon
  <2>. QED
    BY <2>2, PutType
<1>3. /\ Len(g) + (Len(b) + Len(x)) = Len(g) + Len(b) + Len(x)
      /\ Len(g) + (Len(b) + Len(x)) + (Len(r) - Len(x)) = Len(g) + Len(b) + Len(r)
  BY <1>1
<1>. QED
  BY <1>2, <1>3 DEF Chain

LEMMA ChainReturns ==
  ASSUME NEW S, NEW g \in Seq(S), NEW b \in Seq(S), NEW q \in Seq(S), NEW f \in Seq(S),
         NEW w \in 0..Len(q), NEW n \in Nat, Chain(g, b, SubSeq(q, w + 1, Len(q)), f, n),
         NEW m \in 1..(Len(q) - w)
  PROVE  Chain(g, b \o SubSeq(q, w + 1, w + m), SubSeq(q, w + m + 1, Len(q)), f, n)
<1>1. PICK a \in Nat : a = Len(g) + Len(b)
  OBVIOUS
<1>2. Run(SubSeq(q, w + 1, Len(q)), a)
  BY <1>1 DEF Chain
<1>3. /\ SubSeq(q, w + 1, w + m) \in Seq(S) /\ Len(SubSeq(q, w + 1, w + m)) = m
      /\ SubSeq(q, w + 1, Len(q)) \in Seq(S) /\ Len(SubSeq(q, w + 1, Len(q))) = Len(q) - w
      /\ Len(SubSeq(q, w + m + 1, Len(q))) = Len(q) - (w + m)
      /\ Run(SubSeq(q, w + 1, w + m), a) /\ Run(SubSeq(q, w + m + 1, Len(q)), a + m)
  <2>1. SubSeq(q, w + 1, w + m) \in Seq(S) /\ Len(SubSeq(q, w + 1, w + m)) = m
    BY ChunkOf
  <2>2. SubSeq(q, w + 1, Len(q)) \in Seq(S) /\ Len(SubSeq(q, w + 1, Len(q))) = Len(q) - w
    BY ChunkOf
  <2>3. Len(SubSeq(q, w + m + 1, Len(q))) = Len(q) - (w + m)
    BY ChunkOf
  <2>4. Run(SubSeq(q, w + 1, w + m), a) /\ Run(SubSeq(q, w + m + 1, Len(q)), a + m)
    BY <1>2, ChunkOf, Zenon
  <2>. QED
    BY <2>1, <2>2, <2>3, <2>4
<1>4. Len(q) - (w + m) = (Len(q) - w) - m
  OBVIOUS
<1>5. /\ Len(SubSeq(q, w + m + 1, Len(q))) =
           Len(SubSeq(q, w + 1, Len(q))) - Len(SubSeq(q, w + 1, w + m))
      /\ Run(SubSeq(q, w + 1, w + m), Len(g) + Len(b))
      /\ Run(SubSeq(q, w + m + 1, Len(q)), Len(g) + Len(b) + Len(SubSeq(q, w + 1, w + m)))
  BY <1>1, <1>3, <1>4
<1>. QED
  BY <1>3, <1>5, ChainShift, Zenon

LEMMA ChainArrives ==
  ASSUME NEW S, NEW g \in Seq(S), NEW b \in Seq(S), NEW r \in Seq(S), NEW f \in Seq(S),
         NEW n \in Nat, NEW m \in 1..Len(b), Run(g, 0), Run(b, Len(g))
  PROVE  /\ Run(g \o SubSeq(b, 1, m), 0)
         /\ Run(SubSeq(b, m + 1, Len(b)), Len(g \o SubSeq(b, 1, m)))
         /\ Chain(g, b, r, f, n) =>
              Chain(g \o SubSeq(b, 1, m), SubSeq(b, m + 1, Len(b)), r, f, n)
<1>. DEFINE x == SubSeq(b, 1, m)
            y == SubSeq(b, m + 1, Len(b))
<1>1. Len(g) \in Nat /\ Len(b) \in Nat /\ Len(r) \in Nat /\ Len(f) \in Nat
  OBVIOUS
<1>2. /\ x \in Seq(S) /\ Len(x) = m /\ Len(y) = Len(b) - m
      /\ Run(x, Len(g)) /\ Run(y, Len(g) + m)
  BY <1>1, Take
<1>. HIDE DEF x, y
<1>3. Run(g \o x, 0) /\ Len(g \o x) = Len(g) + m
  <2>. DEFINE a == 0
  <2>1. Run(x, a + Len(g)) /\ Run(g, a) /\ a \in Nat
    BY <1>1, <1>2
  <2>. HIDE DEF a
  <2>3. /\ g \o x \in Seq(S) /\ Len(g \o x) = Len(g) + Len(x)
        /\ Run(g, a) /\ Run(x, a + Len(g)) => Run(g \o x, a)
    BY <1>2, <2>1, Put
  <2>2. Run(g \o x, 0) /\ Len(g \o x) = Len(g) + Len(x)
    BY <2>1, <2>3 DEF a
  <2>. QED
    BY <1>2, <2>2
<1>4. (Len(g) + m) + (Len(b) - m) = Len(g) + Len(b)
  BY <1>1
<1>5. Run(g \o x, 0) /\ Run(y, Len(g \o x))
  BY <1>2, <1>3
<1>6. ASSUME Chain(g, b, r, f, n)
      PROVE  Chain(g \o x, y, r, f, n)
  <2>1. /\ Run(r, Len(g) + Len(b)) /\ Run(f, Len(g) + Len(b) + Len(r))
        /\ Len(g) + Len(b) + Len(r) + Len(f) = n
    BY <1>6 DEF Chain
  <2>2. Len(g \o x) + Len(y) = Len(g) + Len(b)
    BY <1>2, <1>3, <1>4
  <2>. QED
    BY <1>5, <2>1, <2>2 DEF Chain
<1>. QED
  BY <1>5, <1>6 DEF x, y

\* No place holds more than there is, and the last three nothing when the first
\* has everything.
LEMMA ChainBound ==
  ASSUME NEW S, NEW g \in Seq(S), NEW b \in Seq(S), NEW r \in Seq(S), NEW f \in Seq(S),
         NEW n \in Nat, Chain(g, b, r, f, n), NEW z \in Nat, n <= z
  PROVE  /\ Len(b) <= z /\ Len(f) <= z
         /\ Len(g) = z => Len(b) = 0 /\ Len(r) = 0 /\ Len(f) = 0
<1>1. PICK i \in Nat, j \in Nat, k \in Nat, l \in Nat :
        i = Len(g) /\ j = Len(b) /\ k = Len(r) /\ l = Len(f)
  OBVIOUS
<1>2. i + j + k + l = n
  BY <1>1 DEF Chain
<1>3. j <= z /\ l <= z /\ (i = z => j = 0 /\ k = 0 /\ l = 0)
  BY <1>2
<1>. QED
  BY <1>1, <1>3

-----------------------------------------------------------------------------
(* Who is on which connection. *)

LEMMA Roles ==
  /\ \A s \in Side : Peer(s) \in Side /\ Peer(s) # s /\ Peer(Peer(s)) = s /\ Side = {s, Peer(s)}
  /\ \A c \in Conn : /\ Checker(c) \in Side /\ Echoer(c) \in Side
                     /\ Peer(Checker(c)) = Echoer(c) /\ Peer(Echoer(c)) = Checker(c)
  /\ \A c, d \in Conn : c # d => Checker(d) = Echoer(c) /\ Echoer(d) = Checker(c)
  /\ Conn = {1, 2}
BY DEF Side, Conn, Peer, Checker, Echoer

\* A thread that checks or echoes is on the connection that is its own to check
\* or to echo, and no round trip takes place on the other one.
LEMMA AtWork ==
  ASSUME TcpInv, NEW s \in Side, pc[s] \in Checking \cup Echoing
  PROVE  /\ fd[s] \in Conn
         /\ pc[s] \in Checking => s = Checker(fd[s])
         /\ pc[s] \in Echoing => s = Echoer(fd[s])
         /\ \A d \in Conn : d # fd[s] => fd[Checker(d)] # d
<1>1. \A d \in Conn : d = 1 \/ d = 2
  BY DEF Conn
<1>2. Control /\ 1 \in Conn /\ 2 \in Conn
  BY DEF TcpInv, Conn
<1>3. CASE s = "server"
  BY <1>1, <1>2, <1>3 DEF Control, Checking, Echoing, NoConn, Peer, Checker, Echoer
<1>4. CASE s = "client"
  BY <1>1, <1>2, <1>4 DEF Control, Checking, Echoing, NoConn, Peer, Checker, Echoer
<1>. QED
  BY <1>3, <1>4 DEF Side

LEMMA ChecksThere ==
  ASSUME TcpInv, NEW c \in Conn, fd[Checker(c)] = c
  PROVE  pc[Checker(c)] \in Checking
BY DEF TcpInv, Typed, Control, Checking, Echoing, Side, Conn, NoConn, Checker

\* The backlog holds at most one connection.
Owned ==
  \A c \in Conn : /\ "client" \in open[c] <=> fd["client"] = c
                  /\ "server" \in open[c] <=> fd["server"] = c \/ backlog = <<c>>

LEMMA OwnedIff ==
  /\ backlog \in {<<>>, << 1 >>, << 2 >>} => (EndsOwned <=> Owned)
  /\ backlog' \in {<<>>, << 1 >>, << 2 >>} => (EndsOwned' <=> Owned')
<1>1. << 1 >> # << 2 >> /\ << 1 >> # <<>> /\ << 2 >> # <<>>
  OBVIOUS
<1>2. ASSUME NEW c \in Conn, NEW b \in {<<>>, << 1 >>, << 2 >>}
      PROVE  (\E i \in DOMAIN b : b[i] = c) <=> b = <<c>>
  BY <1>1, <1>2 DEF Conn
<1>. QED
  BY <1>2 DEF EndsOwned, Owned, Side

LEMMA OpenEnds ==
  ASSUME TcpInv
  PROVE  /\ Owned
         /\ \A s \in Side : fd[s] \in Conn => s \in open[fd[s]]
<1>1. Owned
  BY OwnedIff DEF TcpInv, Control
<1>. QED
  BY <1>1 DEF Owned, Side

LEMMA PutStream ==
  ASSUME stream \in Pipes, NEW c \in Conn, NEW s \in Side, NEW q \in Seq(1..size),
         stream' = [stream EXCEPT ![c][s] = q]
  PROVE  /\ stream' \in Pipes
         /\ \A d \in Conn, t \in Side : stream'[d][t] = IF d = c /\ t = s THEN q ELSE stream[d][t]
BY DEF Pipes

-----------------------------------------------------------------------------
(* Steps in which octets move and nothing is opened or closed. *)

LEMMA TransferKeepsInv ==
  ASSUME TcpInv, NEW s \in Side, NEW c \in Conn, c = fd[s],
         UNCHANGED <<size, fd, open, backlog, failed>>,
         Typed', Locals', EchoedExactly', Round(c)',
         \A t \in Side : t # s => pc'[t] = pc[t],
         \/ pc[s] \in Checking /\ pc'[s] \in Checking
         \/ pc[s] \in Echoing /\ pc'[s] \in Echoing,
         pc["server"] = "accept1" \/ backlog = << 1 >> => s # "client",
         \A d \in Conn, t \in Side : d # c \/ t \notin open[c] => stream'[d][t] = stream[d][t],
         ~failed => reset' = {} /\ Checker(c) \in open[c]
  PROVE  TcpInv'
<1>1. Control'
  BY DEF TcpInv, Control, Checking, Echoing, Side
<1>2. EndsOwned'
  BY DEF TcpInv, EndsOwned
<1>3. Quiet'
  <2>1. \A d \in Conn, t \in Side : t \notin open[d] => stream'[d][t] = <<>>
    BY DEF TcpInv, Quiet
  <2>2. ~(pc'["server"] = "accept1" \/ backlog' = << 1 >>)
    <3>1. pc["server"] = "accept1" \/ backlog = << 1 >> =>
            s = "server" /\ pc["server"] \in {"accept1", "failed"}
      BY DEF TcpInv, Control, Side
    <3>. QED
      BY <3>1 DEF Checking, Echoing, Side
  <2>3. ASSUME pc'["client"] = "connect2"
        PROVE  "server" \notin open'[1] /\ stream'[1]["client"] = <<>>
    <3>1. s = "server" /\ pc["client"] = "connect2"
      BY <2>3 DEF Checking, Echoing, Side
    <3>2. "server" \notin open[1] /\ stream[1]["client"] = <<>>
      BY <3>1 DEF TcpInv, Quiet
    <3>3. c # 1
      BY <3>1, <3>2, OpenEnds DEF Conn
    <3>. QED
      BY <3>2, <3>3 DEF Conn, Side
  <2>. QED
    BY <2>1, <2>2, <2>3 DEF Quiet
<1>4. \A d \in Conn : Round(d)'
  <2>. SUFFICES ASSUME NEW d \in Conn, d # c PROVE Round(d)'
    OBVIOUS
  <2>1. fd[Checker(d)] # d
    BY AtWork
  <2>. QED
    BY <2>1 DEF Round
<1>5. Orderly'
  <2>. SUFFICES ASSUME ~failed PROVE Orderly'
    BY DEF Orderly
  <2>1. \A t \in Side : pc'[t] \notin {"failed", "terminated"}
    BY DEF TcpInv, Orderly, Checking, Echoing
  <2>2. ASSUME NEW d \in Conn, Checker(d) \notin open[d], Echoer(d) \in open[d]
        PROVE  stream'[d][Echoer(d)] = <<>> /\ pc'[Echoer(d)] # "echoWrite"
    <3>1. d # c
      BY <2>2
    <3>2. stream[d][Echoer(d)] = <<>> /\ pc[Echoer(d)] # "echoWrite"
      BY <2>2 DEF TcpInv, Orderly
    <3>3. stream'[d][Echoer(d)] = <<>>
      BY <3>1, <3>2, Roles
    <3>4. CASE Echoer(d) = s
      <4>1. s = Checker(c)
        BY <3>1, <3>4, Roles
      <4>2. s # Echoer(c)
        BY <4>1, Roles
      <4>3. pc[s] \notin Echoing
        BY <4>2, AtWork
      <4>. QED
        BY <3>3, <3>4, <4>3 DEF Checking
    <3>5. CASE Echoer(d) # s
      BY <3>2, <3>3, <3>5, Roles
    <3>. QED
      BY <3>4, <3>5
  <2>3. \A d \in Conn : Checker(d) \in open[d] => Echoer(d) \in open[d]
    BY DEF TcpInv, Orderly
  <2>. QED
    BY <2>1, <2>2, <2>3 DEF Orderly, Checker, Echoer
<1>. QED
  BY <1>1, <1>2, <1>3, <1>4, <1>5 DEF TcpInv

LEMMA DataFacts ==
  ASSUME size \in Nat
  PROVE  Data \in Seq(1..size) /\ Len(Data) = size /\ Run(Data, 0)
<1>1. Data \in Seq(1..size) /\ Len(Data) = size
  BY DEF Data
<1>. QED
  BY <1>1 DEF Data, Run

\* The types that every step uses.
LEMMA Types ==
  ASSUME TcpInv
  PROVE  /\ size \in Nat
         /\ \A s \in Side :
              /\ data[s] \in Seq(1..size) /\ got[s] \in Seq(1..size)
              /\ written[s] \in 0..Len(data[s]) /\ Len(data[s]) \in Nat /\ Len(got[s]) \in Nat
              /\ Len(data[s]) <= size
         /\ \A c \in Conn, s \in Side : stream[c][s] \in Seq(1..size) /\ Len(stream[c][s]) \in Nat
         /\ stream \in Pipes
<1>1. Typed /\ size \in Nat
  BY TcpAssumption DEF TcpInv, Typed
<1>. QED
  BY <1>1 DEF Typed, Pipes

LEMMA RestType ==
  ASSUME TcpInv, NEW s \in Side
  PROVE  /\ Rest(s) \in Seq(1..size)
         /\ pc[s] = "echoWrite" => Len(Rest(s)) = Len(data[s]) - written[s]
<1>1. CASE pc[s] = "echoWrite"
  <2>1. written[s] + 1 \in 1..(Len(data[s]) + 1) /\ written[s] < Len(data[s])
    BY <1>1, Types DEF TcpInv, Locals
  <2>2. /\ SubSeq(data[s], written[s] + 1, Len(data[s])) \in Seq(1..size)
        /\ Len(SubSeq(data[s], written[s] + 1, Len(data[s]))) = Len(data[s]) - written[s]
    BY <2>1, Types, RestOf
  <2>. QED
    BY <1>1, <2>2 DEF Rest
<1>2. CASE pc[s] # "echoWrite"
  BY <1>2, EmptySeq DEF Rest
<1>. QED
  BY <1>1, <1>2

\* writeExact in check_read_write.
LEMMA WriteKeepsInv ==
  ASSUME TcpInv, NEW s \in Side, Write(s), pc[s] = "write"
  PROVE  TcpInv'
<1>. DEFINE c == fd[s]
            e == Peer(s)
            w == written[s]
<1>1. /\ c \in Conn /\ s = Checker(c) /\ e = Echoer(c) /\ e \in Side /\ e # s
      /\ \A t \in Side : t = s \/ t = e
  BY AtWork, Roles DEF Checking
<1>2. UNCHANGED <<size, fd, timeout, data, got, result, open, backlog, listening, failed>>
  BY DEF Write
<1>3. PICK n \in 1..(Len(data[s]) - w) :
        /\ \/ /\ e \in open[c]
              /\ Len(stream[c][e]) + n <= Cap
              /\ stream' = [stream EXCEPT ![c][e] = @ \o Chunk(s, n)]
              /\ UNCHANGED reset
           \/ /\ e \notin open[c]
              /\ reset' = reset \cup {c}
              /\ UNCHANGED stream
        /\ written' = [written EXCEPT ![s] = w + n]
        /\ IF w + n < Len(data[s]) THEN UNCHANGED pc ELSE Goes(s, "read")
  BY DEF Write
<1>4. data[s] = Data /\ Len(data[s]) = size /\ Run(data[s], 0) /\ data[s] \in Seq(1..size)
  BY Types, DataFacts DEF TcpInv, Locals
<1>5. w \in Nat /\ n \in Nat /\ w + n \in Nat /\ w + n <= size /\ (~(w + n < size) => w + n = size)
  <2>1. w \in 0..size /\ size \in Nat
    BY <1>4, Types
  <2>2. n \in 1..(size - w)
    BY <1>4
  <2>. HIDE DEF w
  <2>. QED
    BY <2>1, <2>2
<1>. DEFINE ch == Chunk(s, n)
<1>6. ch \in Seq(1..size) /\ Len(ch) = n /\ Run(ch, w)
  <2>1. data[s] \in Seq(1..size) /\ w \in 0..Len(data[s]) /\ n \in 1..(Len(data[s]) - w)
    BY Types
  <2>2. Run(data[s], 0)
    BY <1>4
  <2>3. /\ SubSeq(data[s], w + 1, w + n) \in Seq(1..size)
        /\ Len(SubSeq(data[s], w + 1, w + n)) = n
        /\ Run(SubSeq(data[s], w + 1, w + n), w)
    <3>. DEFINE d == data[s]
    <3>1. d \in Seq(1..size) /\ w \in 0..Len(d) /\ n \in 1..(Len(d) - w) /\ Run(d, 0)
      BY <2>1, <2>2
    <3>2. /\ SubSeq(d, w + 1, w + n) \in Seq(1..size) /\ Len(SubSeq(d, w + 1, w + n)) = n
          /\ Run(SubSeq(d, w + 1, w + n), w)
      <4>. HIDE DEF d, w
      <4>. QED
        BY <3>1, OctetChunk, Zenon
    <3>. QED
      BY <3>2
  <2>. QED
    BY <2>3 DEF Chunk
<1>. DEFINE q == stream[c][e] \o ch
<1>7. q \in Seq(1..size) /\ Len(q) = Len(stream[c][e]) + n /\ Len(q) \in Nat
  <2>1. stream[c][e] \in Seq(1..size)
    BY <1>1, Types
  <2>. HIDE DEF ch
  <2>2. q \in Seq(1..size) /\ Len(q) = Len(stream[c][e]) + Len(ch)
    BY <1>6, <2>1, PutType
  <2>. QED
    BY <1>6, <2>2
<1>8. ASSUME e \in open[c]
      PROVE  Chain(got[s], stream[c][s], Rest(e), q, w + n) /\ Len(q) <= size
  <2>1. Chain(got[s], stream[c][s], Rest(e), stream[c][e], w)
    BY <1>1, <1>8 DEF TcpInv, Round
  <2>2. Rest(e) \in Seq(1..size)
    BY <1>1, Types, RestType
  <2>3. got[s] \in Seq(1..size) /\ stream[c][s] \in Seq(1..size) /\ stream[c][e] \in Seq(1..size)
    BY <1>1, Types
  <2>. HIDE DEF ch
  <2>4. Chain(got[s], stream[c][s], Rest(e), q, w + Len(ch))
    BY <1>5, <1>6, <2>1, <2>2, <2>3, ChainSends
  <2>. HIDE DEF q
  <2>5. Chain(got[s], stream[c][s], Rest(e), q, w + n)
    BY <1>6, <2>4
  <2>6. size \in Nat /\ w + n \in Nat /\ w + n <= size /\ q \in Seq(1..size)
    BY <1>5, <1>7, Types
  <2>7. Len(q) <= size
    BY <2>2, <2>3, <2>5, <2>6, ChainBound
  <2>. QED
    BY <2>5, <2>7
<1>9. /\ stream' \in Pipes'
      /\ \/ /\ e \in open[c] /\ Len(stream[c][e]) + n <= Cap /\ UNCHANGED reset
            /\ \A d \in Conn, t \in Side : stream'[d][t] = IF d = c /\ t = e THEN q ELSE stream[d][t]
         \/ e \notin open[c] /\ reset' = reset \cup {c} /\ UNCHANGED stream
  <2>1. stream \in Pipes /\ UNCHANGED size
    BY <1>2, Types
  <2>2. CASE e \in open[c]
    <3>1. /\ Len(stream[c][e]) + n <= Cap /\ UNCHANGED reset
          /\ stream' = [stream EXCEPT ![c][e] = q]
      BY <1>3, <2>2
    <3>. HIDE DEF q
    <3>2. /\ stream' \in Pipes'
          /\ \A d \in Conn, t \in Side : stream'[d][t] = IF d = c /\ t = e THEN q ELSE stream[d][t]
      BY <1>1, <1>7, <2>1, <3>1 DEF Pipes
    <3>. QED
      BY <2>2, <3>1, <3>2
  <2>3. CASE e \notin open[c]
    BY <1>3, <2>1, <2>3 DEF Pipes
  <2>. QED
    BY <2>2, <2>3
<1>. HIDE DEF q, ch
<1>10. pc' = [pc EXCEPT ![s] = IF w + n < size THEN "write" ELSE "read"]
  BY <1>3, <1>4 DEF Goes, TcpInv, Typed
<1>11. /\ \A t \in Side : t # s => pc'[t] = pc[t] /\ written'[t] = written[t]
       /\ pc'[s] \in {"write", "read"} /\ (pc'[s] = "read" => w + n = size) /\ written'[s] = w + n
  BY <1>3, <1>5, <1>10 DEF TcpInv, Typed
<1>12. Typed'
  <2>1. pc' \in [Side -> ServerPlace \cup ClientPlace] /\ written' \in [Side -> Nat]
    BY <1>3, <1>5, <1>10 DEF TcpInv, Typed, ServerPlace
  <2>2. pc'["server"] \in ServerPlace /\ pc'["client"] \in ClientPlace
    BY <1>11 DEF TcpInv, Typed, ServerPlace, ClientPlace, Side
  <2>3. \A d \in Conn, t \in Side : Len(stream'[d][t]) <= Cap /\ Len(stream'[d][t]) <= size
    BY <1>7, <1>8, <1>9 DEF TcpInv, Typed
  <2>4. \A t \in Side : /\ Len(data[t]) <= size /\ (pc'[t] = "echoWrite" => Len(data[t]) <= Buf)
                        /\ written'[t] <= Len(data[t]) /\ Len(got[t]) <= size
    BY <1>4, <1>5, <1>11 DEF TcpInv, Typed
  <2>5. reset' \subseteq Conn
    BY <1>1, <1>9 DEF TcpInv, Typed
  <2>. QED
    BY <1>2, <1>9, <2>1, <2>2, <2>3, <2>4, <2>5 DEF TcpInv, Typed
<1>13. Locals'
  BY <1>1, <1>2, <1>4, <1>11 DEF TcpInv, Locals, Data
<1>14. EchoedExactly'
  BY <1>2 DEF TcpInv, EchoedExactly
<1>15. Round(c)'
  <2>1. Rest(e)' = Rest(e)
    BY <1>1, <1>2, <1>11 DEF Rest
  <2>2. Run(got[s], 0) /\ Run(stream[c][s], Len(got[s]))
    BY <1>1 DEF TcpInv, Round
  <2>3. stream'[c][s] = stream[c][s]
    BY <1>1, <1>9
  <2>4. e \in open[c] => Chain(got[s], stream'[c][s], Rest(e), stream'[c][e], written'[s])
    BY <1>1, <1>8, <1>9, <1>11, <2>3
  <2>. QED
    BY <1>1, <1>2, <2>1, <2>2, <2>3, <2>4 DEF Round
<1>16. ~failed => reset' = {} /\ Checker(c) \in open[c]
  <2>1. s \in open[c]
    BY <1>1, OpenEnds
  <2>. QED
    BY <1>1, <1>9, <2>1 DEF TcpInv, Orderly
<1>17. pc["server"] = "accept1" \/ backlog = << 1 >> => s # "client"
  BY DEF TcpInv, Control, Side
<1>18. \A d \in Conn, t \in Side : d # c \/ t \notin open[c] => stream'[d][t] = stream[d][t]
  BY <1>9
<1>. QED
  BY <1>1, <1>2, <1>11, <1>12, <1>13, <1>14, <1>15, <1>16, <1>17, <1>18, TransferKeepsInv
  DEF Checking

\* An end that is open for a connection to which the other side has something to
\* echo belongs to a thread that checks.
LEMMA CheckerThere ==
  ASSUME TcpInv, NEW s \in Side, pc[s] \in Echoing, Checker(fd[s]) \in open[fd[s]],
         ~(s = "client" /\ backlog = << 1 >>)
  PROVE  fd[Checker(fd[s])] = fd[s]
<1>1. Owned /\ fd[s] \in Conn /\ s = Echoer(fd[s])
  BY OpenEnds, AtWork
<1>2. CASE fd[s] = 1
  BY <1>1, <1>2 DEF Owned, Checker, Echoer, Peer
<1>3. CASE fd[s] = 2
  BY <1>1, <1>3 DEF Owned, Checker, Echoer, Peer
<1>. QED
  BY <1>1, <1>2, <1>3 DEF Conn

\* writeExact in echo.
LEMMA EchoWriteKeepsInv ==
  ASSUME TcpInv, NEW s \in Side, Write(s), pc[s] = "echoWrite"
  PROVE  TcpInv'
<1>. DEFINE c == fd[s]
            k == Peer(s)
            w == written[s]
<1>1. /\ c \in Conn /\ s = Echoer(c) /\ k = Checker(c) /\ k \in Side /\ k # s
      /\ \A t \in Side : t = s \/ t = k
  BY AtWork, Roles DEF Echoing
<1>2. UNCHANGED <<size, fd, timeout, data, got, result, open, backlog, listening, failed>>
  BY DEF Write
<1>3. PICK n \in 1..(Len(data[s]) - w) :
        /\ \/ /\ k \in open[c]
              /\ Len(stream[c][k]) + n <= Cap
              /\ stream' = [stream EXCEPT ![c][k] = @ \o Chunk(s, n)]
              /\ UNCHANGED reset
           \/ /\ k \notin open[c]
              /\ reset' = reset \cup {c}
              /\ UNCHANGED stream
        /\ written' = [written EXCEPT ![s] = w + n]
        /\ IF w + n < Len(data[s]) THEN UNCHANGED pc ELSE Goes(s, "echo")
  BY DEF Write
<1>4. data[s] \in Seq(1..size) /\ w \in 0..Len(data[s]) /\ n \in 1..(Len(data[s]) - w)
  BY Types
<1>5. w \in Nat /\ n \in Nat /\ w + n \in Nat /\ w + n <= Len(data[s])
      /\ (~(w + n < Len(data[s])) => w + n = Len(data[s]))
  <2>1. PICK l \in Nat : l = Len(data[s])
    BY Types
  <2>2. w \in 0..l /\ n \in 1..(l - w)
    BY <1>4, <2>1
  <2>3. w \in Nat /\ n \in Nat /\ w + n \in Nat /\ w + n <= l /\ (~(w + n < l) => w + n = l)
    BY <2>2
  <2>. QED
    BY <2>1, <2>3
<1>. DEFINE ch == Chunk(s, n)
<1>6. ch \in Seq(1..size) /\ Len(ch) = n
  BY <1>4, OctetChunk DEF Chunk
<1>. DEFINE q == stream[c][k] \o ch
<1>7. q \in Seq(1..size) /\ Len(q) = Len(stream[c][k]) + n /\ Len(q) \in Nat
  <2>1. stream[c][k] \in Seq(1..size)
    BY <1>1, Types
  <2>. HIDE DEF ch
  <2>2. q \in Seq(1..size) /\ Len(q) = Len(stream[c][k]) + Len(ch)
    BY <1>6, <2>1, PutType
  <2>. QED
    BY <1>6, <2>2
<1>8. pc' = [pc EXCEPT ![s] = IF w + n < Len(data[s]) THEN "echoWrite" ELSE "echo"]
  BY <1>3 DEF Goes, TcpInv, Typed
<1>9. /\ \A t \in Side : t # s => pc'[t] = pc[t] /\ written'[t] = written[t]
      /\ pc'[s] \in {"echoWrite", "echo"} /\ (pc'[s] = "echoWrite" <=> w + n < Len(data[s]))
      /\ written'[s] = w + n
  BY <1>3, <1>8 DEF TcpInv, Typed
<1>10. Rest(s)' = SubSeq(data[s], w + n + 1, Len(data[s]))
  <2>1. CASE w + n < Len(data[s])
    BY <1>2, <1>9, <2>1 DEF Rest
  <2>2. CASE ~(w + n < Len(data[s]))
    <3>1. PICK l \in Nat : l = Len(data[s])
      BY Types
    <3>2. w + n + 1 \in Int /\ l \in Int /\ l < w + n + 1
      BY <1>5, <2>2, <3>1
    <3>3. SubSeq(data[s], w + n + 1, l) = <<>>
      BY <3>2, SubSeqEmpty, Zenon
    <3>. QED
      BY <1>9, <2>2, <3>1, <3>3 DEF Rest
  <2>. QED
    BY <2>1, <2>2
<1>11. ~(s = "client" /\ (pc["server"] = "accept1" \/ backlog = << 1 >>))
  BY DEF TcpInv, Control
<1>12. ASSUME k \in open[c]
       PROVE  Chain(got[k], q, Rest(s)', stream[c][s], written[k]) /\ Len(q) <= size
  <2>1. fd[k] = c
    BY <1>1, <1>11, <1>12, CheckerThere DEF Echoing
  <2>2. s \in open[c]
    BY <1>1, OpenEnds
  <2>3. Chain(got[k], stream[c][k], SubSeq(data[s], w + 1, Len(data[s])), stream[c][s], written[k])
    BY <1>1, <2>1, <2>2 DEF TcpInv, Round, Rest
  <2>4. got[k] \in Seq(1..size) /\ stream[c][s] \in Seq(1..size) /\ stream[c][k] \in Seq(1..size)
    BY <1>1, Types
  <2>5. written[k] \in Nat /\ written[k] <= size /\ size \in Nat
    <3>1. PICK l \in Nat : l = Len(data[k])
      BY <1>1, Types
    <3>. QED
      BY <1>1, <3>1, Types
  <2>6. Chain(got[k], stream[c][k] \o SubSeq(data[s], w + 1, w + n),
              SubSeq(data[s], w + n + 1, Len(data[s])), stream[c][s], written[k])
    BY <1>4, <2>3, <2>4, <2>5, ChainReturns
  <2>7. Chain(got[k], q, Rest(s)', stream[c][s], written[k])
    BY <1>10, <2>6 DEF Chunk
  <2>8. Len(q) <= size
    <3>. DEFINE r == SubSeq(data[s], w + n + 1, Len(data[s]))
    <3>1. r \in Seq(1..size)
      <4>1. PICK l \in Nat : l = Len(data[s])
        BY Types
      <4>2. w + n + 1 \in Int /\ l \in Int /\ \A i \in (w + n + 1)..l : i \in 1..l
        BY <1>5, <4>1
      <4>3. \A i \in 1..l : data[s][i] \in 1..size
        BY <1>4, <4>1, ElementOfSeq
      <4>. QED
        BY <4>1, <4>2, <4>3, SubSeqProperties
    <3>2. Chain(got[k], q, r, stream[c][s], written[k])
      BY <1>10, <2>7
    <3>3. /\ got[k] \in Seq(1..size) /\ q \in Seq(1..size) /\ stream[c][s] \in Seq(1..size)
          /\ written[k] \in Nat /\ size \in Nat /\ written[k] <= size
      BY <1>7, <2>4, <2>5
    <3>. HIDE DEF r, q
    <3>. QED
      BY <3>1, <3>2, <3>3, ChainBound
  <2>. QED
    BY <2>7, <2>8
<1>13. /\ stream' \in Pipes'
       /\ \/ /\ k \in open[c] /\ Len(stream[c][k]) + n <= Cap /\ UNCHANGED reset
             /\ \A d \in Conn, t \in Side : stream'[d][t] = IF d = c /\ t = k THEN q ELSE stream[d][t]
          \/ k \notin open[c] /\ reset' = reset \cup {c} /\ UNCHANGED stream
  <2>1. stream \in Pipes /\ UNCHANGED size
    BY <1>2, Types
  <2>2. CASE k \in open[c]
    <3>1. /\ Len(stream[c][k]) + n <= Cap /\ UNCHANGED reset
          /\ stream' = [stream EXCEPT ![c][k] = q]
      BY <1>3, <2>2
    <3>. HIDE DEF q
    <3>2. /\ stream' \in Pipes'
          /\ \A d \in Conn, t \in Side : stream'[d][t] = IF d = c /\ t = k THEN q ELSE stream[d][t]
      BY <1>1, <1>7, <2>1, <3>1 DEF Pipes
    <3>. QED
      BY <2>2, <3>1, <3>2
  <2>3. CASE k \notin open[c]
    BY <1>3, <2>1, <2>3 DEF Pipes
  <2>. QED
    BY <2>2, <2>3
<1>. HIDE DEF q, ch
<1>14. Typed'
  <2>1. pc' \in [Side -> ServerPlace \cup ClientPlace] /\ written' \in [Side -> Nat]
    BY <1>3, <1>5, <1>8 DEF TcpInv, Typed, ServerPlace
  <2>2. pc'["server"] \in ServerPlace /\ pc'["client"] \in ClientPlace
    BY <1>9 DEF TcpInv, Typed, ServerPlace, ClientPlace, Side
  <2>3. \A d \in Conn, t \in Side : Len(stream'[d][t]) <= Cap /\ Len(stream'[d][t]) <= size
    BY <1>7, <1>12, <1>13 DEF TcpInv, Typed
  <2>4. \A t \in Side : /\ Len(data[t]) <= size /\ (pc'[t] = "echoWrite" => Len(data[t]) <= Buf)
                        /\ written'[t] <= Len(data[t]) /\ Len(got[t]) <= size
    BY <1>5, <1>9 DEF TcpInv, Typed
  <2>5. reset' \subseteq Conn
    BY <1>1, <1>13 DEF TcpInv, Typed
  <2>. QED
    BY <1>2, <1>13, <2>1, <2>2, <2>3, <2>4, <2>5 DEF TcpInv, Typed
<1>15. Locals'
  BY <1>1, <1>2, <1>9 DEF TcpInv, Locals, Data
<1>16. EchoedExactly'
  BY <1>2 DEF TcpInv, EchoedExactly
<1>17. Round(c)'
  <2>. SUFFICES ASSUME fd[k] = c PROVE Round(c)'
    BY <1>1, <1>2 DEF Round
  <2>1. k \in open[c]
    BY <1>1, OpenEnds
  <2>2. stream'[c][k] = q /\ stream'[c][s] = stream[c][s] /\ written'[k] = written[k]
    BY <1>1, <1>9, <1>13, <2>1
  <2>3. Chain(got[k], stream'[c][k], Rest(s)', stream'[c][s], written'[k])
    BY <1>12, <2>1, <2>2
  <2>4. Run(got[k], 0) /\ Run(stream'[c][k], Len(got[k]))
    BY <2>3 DEF Chain
  <2>. QED
    BY <1>1, <1>2, <2>3, <2>4 DEF Round
<1>18. ~failed => reset' = {} /\ Checker(c) \in open[c]
  <2>1. s \in open[c]
    BY <1>1, OpenEnds
  <2>. QED
    BY <1>1, <1>13, <2>1 DEF TcpInv, Orderly
<1>19. \A d \in Conn, t \in Side : d # c \/ t \notin open[c] => stream'[d][t] = stream[d][t]
  BY <1>13
<1>. QED
  BY <1>1, <1>2, <1>9, <1>11, <1>14, <1>15, <1>16, <1>17, <1>18, <1>19, TransferKeepsInv
  DEF Echoing

\* One read splits the octets that are there.
LEMMA OctetTake ==
  ASSUME NEW q \in Seq(1..size), NEW n \in 1..Len(q)
  PROVE  /\ SubSeq(q, 1, n) \in Seq(1..size) /\ Len(SubSeq(q, 1, n)) = n
         /\ SubSeq(q, n + 1, Len(q)) \in Seq(1..size)
         /\ Len(SubSeq(q, n + 1, Len(q))) = Len(q) - n
<1>. DEFINE S == 1..size
<1>1. q \in Seq(S) /\ n \in 0..Len(q) /\ 0 \in Nat
  OBVIOUS
<1>2. /\ SubSeq(q, 1, n) \in Seq(S) /\ Len(SubSeq(q, 1, n)) = n
      /\ SubSeq(q, n + 1, Len(q)) \in Seq(S)
      /\ Len(SubSeq(q, n + 1, Len(q))) = Len(q) - n
  <2>. HIDE DEF S
  <2>. QED
    BY <1>1, Take
<1>. QED
  BY <1>2

\* readExact, and the comparison of check_read_write.
LEMMA ReadExactKeepsInv ==
  ASSUME TcpInv, NEW s \in Side, ReadExact(s)
  PROVE  TcpInv'
<1>. DEFINE c == fd[s]
            e == Peer(s)
            ready == stream[c][s]
<1>1. /\ c \in Conn /\ s = Checker(c) /\ e = Echoer(c) /\ e \in Side /\ e # s
      /\ \A t \in Side : t = s \/ t = e
      /\ pc[s] = "read"
  BY AtWork, Roles DEF Checking, ReadExact
<1>2. UNCHANGED <<size, fd, timeout, data, written, open, reset, backlog, listening, failed>>
  BY DEF ReadExact
<1>3. PICK n \in 1..Len(ready) :
        /\ n <= size - Len(got[s])
        /\ got' = [got EXCEPT ![s] = @ \o SubSeq(ready, 1, n)]
        /\ stream' = [stream EXCEPT ![c][s] = SubSeq(@, n + 1, Len(@))]
  BY DEF ReadExact
<1>. DEFINE x == SubSeq(ready, 1, n)
            y == SubSeq(ready, n + 1, Len(ready))
            g == got[s] \o x
<1>4. /\ ready \in Seq(1..size) /\ got[s] \in Seq(1..size) /\ stream[c][e] \in Seq(1..size)
      /\ stream \in Pipes /\ size \in Nat
  BY <1>1, Types
<1>5. /\ x \in Seq(1..size) /\ Len(x) = n /\ y \in Seq(1..size) /\ Len(y) = Len(ready) - n
  BY <1>4, OctetTake
<1>6. g \in Seq(1..size) /\ Len(g) = Len(got[s]) + n
  <2>. HIDE DEF x, ready
  <2>1. g \in Seq(1..size) /\ Len(g) = Len(got[s]) + Len(x)
    BY <1>4, <1>5, PutType
  <2>. QED
    BY <1>5, <2>1
<1>7. Len(g) <= size /\ Len(y) <= Len(ready) /\ Len(g) \in Nat
  <2>1. PICK i \in Nat, j \in Nat : i = Len(got[s]) /\ j = Len(ready)
    BY <1>4
  <2>2. n \in 1..j /\ n <= size - i
    BY <1>3, <2>1
  <2>3. i + n <= size /\ j - n <= j /\ i + n \in Nat
    BY <1>4, <2>2
  <2>. QED
    BY <1>5, <1>6, <2>1, <2>3
<1>8. /\ Run(g, 0) /\ Run(y, Len(g))
      /\ e \in open[c] => Chain(g, y, Rest(e), stream[c][e], written[s])
  <2>1. /\ Run(got[s], 0) /\ Run(ready, Len(got[s]))
        /\ e \in open[c] => Chain(got[s], ready, Rest(e), stream[c][e], written[s])
    BY <1>1 DEF TcpInv, Round
  <2>2. Rest(e) \in Seq(1..size) /\ written[s] \in Nat
    BY <1>1, RestType, Types
  <2>. QED
    BY <1>4, <2>1, <2>2, ChainArrives
<1>9. stream' = [stream EXCEPT ![c][s] = y] /\ got' = [got EXCEPT ![s] = g]
  BY <1>3
<1>. HIDE DEF x, y, g
<1>10. /\ stream' \in Pipes' /\ got' \in [Side -> Seq(1..size)]
       /\ \A d \in Conn, t \in Side : stream'[d][t] = IF d = c /\ t = s THEN y ELSE stream[d][t]
       /\ got'[s] = g /\ \A t \in Side : t # s => got'[t] = got[t]
  BY <1>1, <1>2, <1>4, <1>5, <1>6, <1>9 DEF Pipes, TcpInv, Typed
<1>11. \/ UNCHANGED <<pc, result>>
       \/ /\ Len(g) = size
          /\ result' = [result EXCEPT ![s] = IF g = Data THEN "true" ELSE "false"]
          /\ pc' = [pc EXCEPT ![s] = "close"]
  <2>1. \/ Len(got'[s]) < size /\ UNCHANGED <<pc, result>>
        \/ /\ Len(got'[s]) = size
           /\ result' = [result EXCEPT ![s] = IF got'[s] = Data THEN "true" ELSE "false"]
           /\ pc' = [pc EXCEPT ![s] = "close"]
    BY DEF ReadExact, Goes
  <2>. QED
    BY <1>10, <2>1
<1>12. Len(g) = size => g = Data
  <2>. SUFFICES ASSUME Len(g) = size PROVE g = Data
    OBVIOUS
  <2>1. \A i \in 1..size : g[i] = i
    BY <1>8 DEF Run
  <2>2. Data \in Seq(1..size) /\ Len(Data) = size /\ \A i \in 1..size : Data[i] = i
    BY <1>4, DataFacts DEF Data
  <2>. QED
    BY <1>6, <2>1, <2>2, SeqEqual
<1>13. /\ pc' \in [Side -> ServerPlace \cup ClientPlace]
       /\ \A t \in Side : t # s => pc'[t] = pc[t]
       /\ pc'[s] \in {"read", "close"} /\ (pc'[s] = "close" => Len(g) = size)
       /\ result' \in [Side -> {"none", "true", "false"}]
       /\ \A t \in Side : result'[t] # "false"
  <2>1. pc \in [Side -> ServerPlace \cup ClientPlace] /\ result \in [Side -> {"none", "true", "false"}]
    BY DEF TcpInv, Typed
  <2>2. \A t \in Side : result[t] # "false"
    BY DEF TcpInv, EchoedExactly
  <2>3. CASE UNCHANGED <<pc, result>>
    <3>1. Len(g) = size => Len(g) = size
      OBVIOUS
    <3>. QED
      BY <1>1, <2>1, <2>2, <2>3
  <2>4. CASE /\ Len(g) = size
             /\ result' = [result EXCEPT ![s] = "true"]
             /\ pc' = [pc EXCEPT ![s] = "close"]
    BY <2>1, <2>2, <2>4 DEF ServerPlace
  <2>. QED
    BY <1>11, <1>12, <2>3, <2>4
<1>14. Typed'
  <2>1. pc'["server"] \in ServerPlace /\ pc'["client"] \in ClientPlace
    BY <1>13 DEF TcpInv, Typed, ServerPlace, ClientPlace, Side
  <2>2. \A d \in Conn, t \in Side : Len(stream'[d][t]) <= Cap /\ Len(stream'[d][t]) <= size
    <3>1. PICK i \in Nat, j \in Nat : i = Len(y) /\ j = Len(ready)
      BY <1>4, <1>5
    <3>2. j <= Cap /\ j <= size /\ i <= j /\ Cap \in Nat
      BY <1>1, <1>7, <3>1, TcpAssumption DEF TcpInv, Typed
    <3>3. i <= Cap /\ i <= size
      BY <1>4, <3>2
    <3>4. \A d \in Conn, t \in Side : Len(stream[d][t]) <= Cap /\ Len(stream[d][t]) <= size
      BY DEF TcpInv, Typed
    <3>. QED
      BY <1>10, <3>1, <3>3, <3>4
  <2>3. \A t \in Side : /\ Len(data[t]) <= size /\ (pc'[t] = "echoWrite" => Len(data[t]) <= Buf)
                        /\ written[t] <= Len(data[t]) /\ Len(got'[t]) <= size
    BY <1>7, <1>10, <1>13 DEF TcpInv, Typed
  <2>4. /\ size \in Sizes /\ fd \in [Side -> Conn \cup {NoConn}] /\ timeout \in [Side -> BOOLEAN]
        /\ data \in [Side -> Seq(1..size)] /\ written \in [Side -> Nat]
        /\ open \in [Conn -> SUBSET Side]
        /\ reset \subseteq Conn /\ listening \in BOOLEAN /\ failed \in BOOLEAN
    BY DEF TcpInv, Typed
  <2>. QED
    BY <1>2, <1>10, <1>13, <2>1, <2>2, <2>3, <2>4 DEF Typed
<1>15. Locals'
  <2>1. /\ pc'[s] = "close" => Len(got'[s]) = size
        /\ pc'[s] \in {"read", "close"} /\ written[s] = size
    BY <1>1, <1>10, <1>13 DEF TcpInv, Locals
  <2>2. /\ pc'[e] = "write" => data[e] = Data
        /\ pc'[e] \in {"read", "close"} => written[e] = size
        /\ pc'[e] = "close" => Len(got'[e]) = size
        /\ pc'[e] = "echoWrite" => written[e] < Len(data[e])
    <3>1. /\ pc[e] = "write" => data[e] = Data
          /\ pc[e] \in {"read", "close"} => written[e] = size
          /\ pc[e] = "close" => Len(got[e]) = size
          /\ pc[e] = "echoWrite" => written[e] < Len(data[e])
      BY <1>1 DEF TcpInv, Locals
    <3>2. pc'[e] = pc[e] /\ got'[e] = got[e]
      BY <1>1, <1>10, <1>13
    <3>. QED
      BY <3>1, <3>2
  <2>3. Data' = Data
    BY <1>2 DEF Data
  <2>. QED
    BY <1>1, <1>2, <2>1, <2>2, <2>3 DEF Locals
<1>16. EchoedExactly'
  BY <1>13 DEF EchoedExactly
<1>17. Round(c)'
  <2>1. Rest(e)' = Rest(e)
    BY <1>1, <1>2, <1>13 DEF Rest
  <2>2. stream'[c][s] = y /\ stream'[c][e] = stream[c][e] /\ got'[s] = g
    BY <1>1, <1>10
  <2>. QED
    BY <1>1, <1>2, <1>8, <2>1, <2>2 DEF Round
<1>18. s \in open[c]
  BY <1>1, OpenEnds
<1>19. ~failed => reset' = {} /\ Checker(c) \in open[c]
  BY <1>1, <1>2, <1>18 DEF TcpInv, Orderly
<1>20. pc["server"] = "accept1" \/ backlog = << 1 >> => s # "client"
  BY <1>1 DEF TcpInv, Control, Side
<1>21. \A d \in Conn, t \in Side : d # c \/ t \notin open[c] => stream'[d][t] = stream[d][t]
  BY <1>10, <1>18
<1>. HIDE DEF ready
<1>. QED
  BY <1>1, <1>2, <1>13, <1>14, <1>15, <1>16, <1>17, <1>19, <1>20, <1>21, TransferKeepsInv
  DEF Checking

\* One read of echo.
LEMMA EchoReadKeepsInv ==
  ASSUME TcpInv, NEW s \in Side, EchoRead(s)
  PROVE  TcpInv'
<1>. DEFINE c == fd[s]
            k == Peer(s)
            ready == stream[c][s]
<1>1. /\ c \in Conn /\ s = Echoer(c) /\ k = Checker(c) /\ k \in Side /\ k # s
      /\ \A t \in Side : t = s \/ t = k
      /\ pc[s] = "echo"
  BY AtWork, Roles DEF Echoing, EchoRead
<1>2. UNCHANGED <<size, fd, timeout, got, result, open, reset, backlog, listening, failed>>
  BY DEF EchoRead
<1>3. PICK n \in 1..Len(ready) :
        /\ n <= Buf
        /\ data' = [data EXCEPT ![s] = SubSeq(ready, 1, n)]
        /\ stream' = [stream EXCEPT ![c][s] = SubSeq(@, n + 1, Len(@))]
        /\ pc' = [pc EXCEPT ![s] = "echoWrite"]
  BY DEF EchoRead, AfterEcho, Goes
<1>. DEFINE x == SubSeq(ready, 1, n)
            y == SubSeq(ready, n + 1, Len(ready))
<1>4. /\ ready \in Seq(1..size) /\ stream \in Pipes /\ size \in Nat
  BY <1>1, Types
<1>5. /\ x \in Seq(1..size) /\ Len(x) = n /\ y \in Seq(1..size) /\ Len(y) = Len(ready) - n
  BY <1>4, OctetTake
<1>6. Len(x) <= size /\ Len(x) <= Buf /\ 0 < Len(x) /\ Len(y) <= size /\ Len(y) <= Cap
  <2>1. PICK i \in Nat : i = Len(ready)
    BY <1>4
  <2>2. i <= size /\ i <= Cap /\ Cap \in Nat
    BY <1>1, <2>1, TcpAssumption DEF TcpInv, Typed
  <2>3. n \in 1..i
    BY <2>1
  <2>4. n <= size /\ 0 < n /\ i - n <= size /\ i - n <= Cap
    BY <1>4, <2>2, <2>3
  <2>. QED
    BY <1>3, <1>5, <2>1, <2>4
<1>7. ready # <<>>
  BY <1>5, <1>6, EmptyRun
<1>8. ASSUME fd[k] = c
      PROVE  Chain(got[k], stream[c][k], x, y, written[k])
  <2>1. Rest(s) = <<>> /\ s \in open[c]
    BY <1>1, OpenEnds DEF Rest
  <2>2. Chain(got[k], stream[c][k], <<>>, ready, written[k])
    BY <1>1, <1>8, <2>1 DEF TcpInv, Round
  <2>3. got[k] \in Seq(1..size) /\ stream[c][k] \in Seq(1..size)
    BY <1>1, Types
  <2>4. written[k] \in Nat
    BY <1>1 DEF TcpInv, Typed
  <2>. QED
    BY <1>4, <2>2, <2>3, <2>4, ChainEchoes
<1>9. stream' = [stream EXCEPT ![c][s] = y] /\ data' = [data EXCEPT ![s] = x]
      /\ written' = [written EXCEPT ![s] = 0]
  BY <1>3 DEF EchoRead
<1>10. SubSeq(x, 1, Len(x)) = x
  <2>. HIDE DEF x
  <2>. QED
    BY <1>5, SubSeqFull
<1>. HIDE DEF x, y
<1>11. /\ stream' \in Pipes' /\ data' \in [Side -> Seq(1..size)] /\ written' \in [Side -> Nat]
       /\ \A d \in Conn, t \in Side : stream'[d][t] = IF d = c /\ t = s THEN y ELSE stream[d][t]
       /\ data'[s] = x /\ \A t \in Side : t # s => data'[t] = data[t]
       /\ written'[s] = 0 /\ \A t \in Side : t # s => written'[t] = written[t]
  BY <1>1, <1>2, <1>4, <1>5, <1>9 DEF Pipes, TcpInv, Typed
<1>12. /\ pc' \in [Side -> ServerPlace \cup ClientPlace]
       /\ \A t \in Side : t # s => pc'[t] = pc[t]
       /\ pc'[s] = "echoWrite"
  BY <1>3 DEF TcpInv, Typed, ServerPlace
<1>13. Typed'
  <2>1. pc'["server"] \in ServerPlace /\ pc'["client"] \in ClientPlace
    BY <1>12 DEF TcpInv, Typed, ServerPlace, ClientPlace, Side
  <2>2. \A d \in Conn, t \in Side : Len(stream'[d][t]) <= Cap /\ Len(stream'[d][t]) <= size
    BY <1>6, <1>11 DEF TcpInv, Typed
  <2>3. \A t \in Side : /\ Len(data'[t]) <= size /\ (pc'[t] = "echoWrite" => Len(data'[t]) <= Buf)
                        /\ written'[t] <= Len(data'[t]) /\ Len(got[t]) <= size
    <3>1. 0 <= Len(x)
      BY <1>5
    <3>2. \A t \in Side : /\ Len(data[t]) <= size /\ (pc[t] = "echoWrite" => Len(data[t]) <= Buf)
                          /\ written[t] <= Len(data[t]) /\ Len(got[t]) <= size
      BY DEF TcpInv, Typed
    <3>. QED
      BY <1>6, <1>11, <1>12, <3>1, <3>2
  <2>. QED
    BY <1>2, <1>11, <1>12, <2>1, <2>2, <2>3 DEF TcpInv, Typed
<1>14. Locals'
  BY <1>1, <1>2, <1>6, <1>11, <1>12 DEF TcpInv, Locals, Data
<1>15. EchoedExactly'
  BY <1>2 DEF TcpInv, EchoedExactly
<1>16. Round(c)'
  <2>. SUFFICES ASSUME fd[k] = c PROVE Round(c)'
    BY <1>1, <1>2 DEF Round
  <2>1. Rest(s)' = x
    <3>1. 0 + 1 = 1
      OBVIOUS
    <3>. QED
      BY <1>10, <1>11, <1>12, <3>1 DEF Rest
  <2>2. stream'[c][k] = stream[c][k] /\ stream'[c][s] = y /\ written'[k] = written[k]
    BY <1>1, <1>11
  <2>3. Chain(got[k], stream'[c][k], Rest(s)', stream'[c][s], written'[k])
    BY <1>8, <2>1, <2>2
  <2>4. Run(got[k], 0) /\ Run(stream'[c][k], Len(got[k]))
    BY <2>3 DEF Chain
  <2>. QED
    BY <1>1, <1>2, <2>3, <2>4 DEF Round
<1>17. s \in open[c]
  BY <1>1, OpenEnds
<1>18. ~failed => reset' = {} /\ Checker(c) \in open[c]
  BY <1>1, <1>2, <1>7, <1>17 DEF TcpInv, Orderly
<1>19. pc["server"] = "accept1" \/ backlog = << 1 >> => s # "client"
  <2>1. pc["server"] = "accept1" \/ backlog = << 1 >> => stream[1]["client"] = <<>>
    BY DEF TcpInv, Quiet, Side
  <2>2. s = "client" => c = 1
    BY <1>1 DEF TcpInv, Control, Echoing
  <2>. QED
    BY <1>7, <2>1, <2>2
<1>20. \A d \in Conn, t \in Side : d # c \/ t \notin open[c] => stream'[d][t] = stream[d][t]
  BY <1>11, <1>17
<1>. HIDE DEF ready
<1>. QED
  BY <1>1, <1>2, <1>12, <1>13, <1>14, <1>15, <1>16, <1>18, <1>19, <1>20, TransferKeepsInv
  DEF Echoing


-----------------------------------------------------------------------------
(* Steps in which an end is closed. *)

LEMMA UnownedFacts ==
  ASSUME TcpInv, NEW s \in Side, Unowned(s, fd[s]), UNCHANGED size
  PROVE  /\ stream' \in Pipes' /\ open' \in [Conn -> SUBSET Side] /\ reset' \subseteq Conn
         /\ \A d \in Conn : open'[d] = IF d = fd[s] THEN open[d] \ {s} ELSE open[d]
         /\ \A d \in Conn, t \in Side :
              stream'[d][t] = IF d = fd[s] /\ t = s THEN <<>> ELSE stream[d][t]
         /\ \A d \in Conn : d = fd[s] /\ stream[d][s] = <<>> => reset' = reset
         /\ fd[s] = NoConn => UNCHANGED <<stream, open, reset>>
<1>1. /\ stream \in Pipes /\ open \in [Conn -> SUBSET Side] /\ reset \subseteq Conn
      /\ fd[s] \in Conn \cup {NoConn} /\ <<>> \in Seq(1..size)
  BY EmptySeq DEF TcpInv, Typed
<1>2. CASE fd[s] = NoConn
  <2>1. UNCHANGED <<stream, open, reset>>
    BY <1>2 DEF Unowned
  <2>2. \A d \in Conn : d # fd[s]
    BY <1>2 DEF NoConn, Conn
  <2>. QED
    BY <1>1, <2>1, <2>2 DEF Pipes
<1>3. CASE fd[s] \in Conn
  <2>1. fd[s] # NoConn
    BY <1>3 DEF NoConn, Conn
  <2>2. /\ open' = [open EXCEPT ![fd[s]] = @ \ {s}]
        /\ reset' = IF stream[fd[s]][s] = <<>> THEN reset ELSE reset \cup {fd[s]}
        /\ stream' = [stream EXCEPT ![fd[s]][s] = <<>>]
    BY <2>1 DEF Unowned
  <2>3. stream' \in Pipes'
    BY <1>1, <1>3, <2>2 DEF Pipes
  <2>4. \A d \in Conn, t \in Side :
          stream'[d][t] = IF d = fd[s] /\ t = s THEN <<>> ELSE stream[d][t]
    BY <1>1, <1>3, <2>2 DEF Pipes
  <2>5. reset' \subseteq Conn /\ \A d \in Conn : d = fd[s] /\ stream[d][s] = <<>> => reset' = reset
    BY <1>1, <1>3, <2>2
  <2>6. /\ open' \in [Conn -> SUBSET Side]
        /\ \A d \in Conn : open'[d] = IF d = fd[s] THEN open[d] \ {s} ELSE open[d]
    BY <1>1, <1>3, <2>2
  <2>. QED
    BY <2>1, <2>3, <2>4, <2>5, <2>6
<1>. QED
  BY <1>1, <1>2, <1>3

\* A thread closes what it has and goes on without a connection.
LEMMA LeaveKeepsInv ==
  ASSUME TcpInv, NEW s \in Side, NEW where,
         \/ s = "server" /\ where \in {"accept2", "done", "failed"}
         \/ s = "client" /\ where = "get",
         Unowned(s, fd[s]), fd' = [fd EXCEPT ![s] = NoConn], Goes(s, where),
         UNCHANGED <<size, timeout, data, written, got, result, backlog, listening>>,
         failed' \in BOOLEAN, Control', Orderly'
  PROVE  TcpInv'
<1>1. /\ stream' \in Pipes' /\ open' \in [Conn -> SUBSET Side] /\ reset' \subseteq Conn
      /\ \A d \in Conn : open'[d] = IF d = fd[s] THEN open[d] \ {s} ELSE open[d]
      /\ \A d \in Conn, t \in Side :
           stream'[d][t] = IF d = fd[s] /\ t = s THEN <<>> ELSE stream[d][t]
  BY UnownedFacts
<1>2. /\ pc' \in [Side -> ServerPlace \cup ClientPlace]
      /\ pc'[s] = where /\ \A t \in Side : t # s => pc'[t] = pc[t]
      /\ fd' \in [Side -> Conn \cup {NoConn}]
      /\ fd'[s] = NoConn /\ \A t \in Side : t # s => fd'[t] = fd[t]
  BY DEF TcpInv, Typed, Goes, ServerPlace, ClientPlace
<1>3. Typed'
  <2>1. pc'["server"] \in ServerPlace /\ pc'["client"] \in ClientPlace
    BY <1>2 DEF TcpInv, Typed, ServerPlace, ClientPlace, Side
  <2>2. \A d \in Conn, t \in Side : Len(stream'[d][t]) <= Cap /\ Len(stream'[d][t]) <= size
    <3>1. 0 <= Cap /\ 0 <= size /\ Len(<<>>) = 0
      BY TcpAssumption, Types, EmptyRun
    <3>2. \A d \in Conn, t \in Side : Len(stream[d][t]) <= Cap /\ Len(stream[d][t]) <= size
      BY DEF TcpInv, Typed
    <3>. QED
      BY <1>1, <3>1, <3>2
  <2>3. \A t \in Side : /\ Len(data[t]) <= size /\ (pc'[t] = "echoWrite" => Len(data[t]) <= Buf)
                        /\ written[t] <= Len(data[t]) /\ Len(got[t]) <= size
    BY <1>2 DEF TcpInv, Typed
  <2>. QED
    BY <1>1, <1>2, <2>1, <2>2, <2>3 DEF TcpInv, Typed
<1>4. backlog \in {<<>>, << 1 >>, << 2 >>} /\ \A d \in Conn : backlog = <<d>> => fd["server"] # d
  BY DEF TcpInv, Control, Checking, Echoing, NoConn, Conn
<1>5. Owned'
  <2>1. Owned
    BY OpenEnds
  <2>2. NoConn \notin Conn
    BY DEF NoConn, Conn
  <2>. QED
    BY <1>1, <1>2, <1>4, <2>1, <2>2 DEF Owned, Side
<1>6. EndsOwned'
  BY <1>4, <1>5, OwnedIff
<1>7. Locals'
  <2>1. Data' = Data
    BY DEF Data
  <2>. QED
    BY <1>2, <2>1 DEF TcpInv, Locals
<1>8. Quiet'
  <2>1. \A d \in Conn, t \in Side : t \notin open'[d] => stream'[d][t] = <<>>
    BY <1>1 DEF TcpInv, Quiet
  <2>2. ASSUME pc'["server"] = "accept1" \/ backlog' = << 1 >>
        PROVE  stream'[1] = [t \in Side |-> <<>>]
    <3>1. pc'["client"] \in {"connect1", "echo"}
      BY <2>2 DEF Control
    <3>2. s = "server" /\ backlog = << 1 >>
      BY <1>2, <2>2, <3>1 DEF Side
    <3>3. stream[1] = [t \in Side |-> <<>>] /\ 1 \in Conn
      BY <3>2 DEF TcpInv, Quiet, Conn
    <3>4. \A t \in Side : stream'[1][t] = <<>>
      BY <1>1, <3>3
    <3>. QED
      BY <1>1, <3>3, <3>4 DEF Pipes
  <2>3. pc'["client"] = "connect2" => "server" \notin open'[1] /\ stream'[1]["client"] = <<>>
    BY <1>1, <1>2 DEF TcpInv, Quiet, Side, Conn
  <2>. QED
    BY <2>1, <2>2, <2>3 DEF Quiet
<1>9. \A c \in Conn : Round(c)'
  <2>. SUFFICES ASSUME NEW c \in Conn, fd'[Checker(c)] = c PROVE Round(c)'
    BY DEF Round, Checker
  <2>. DEFINE k == Checker(c)
  <2>1. k # s /\ s = Echoer(c) /\ k \in Side /\ fd[k] = c /\ fd'[k] = c
    BY <1>2, Roles DEF NoConn, Conn
  <2>2. stream'[c][k] = stream[c][k]
    BY <1>1, <2>1
  <2>3. Run(got[k], 0) /\ Run(stream[c][k], Len(got[k]))
    BY <2>1 DEF TcpInv, Round
  <2>4. ASSUME s \in open'[c]
        PROVE  Chain(got[k], stream'[c][k], Rest(s)', stream'[c][s], written[k])
    <3>1. s = "server" /\ backlog = <<c>>
      BY <1>2, <1>5, <2>4 DEF Owned, Side, NoConn, Conn
    <3>2. pc[s] # "echoWrite" /\ pc'[s] # "echoWrite"
      BY <1>2, <3>1 DEF TcpInv, Control, Conn
    <3>3. Rest(s)' = Rest(s)
      BY <3>2 DEF Rest
    <3>4. fd[s] # c /\ s \in open[c]
      BY <1>1, <1>4, <2>4, <3>1
    <3>. QED
      BY <1>1, <2>1, <3>3, <3>4 DEF TcpInv, Round
  <2>. QED
    BY <2>1, <2>2, <2>3, <2>4 DEF Round, Checker, Echoer
<1>10. EchoedExactly'
  BY DEF TcpInv, EchoedExactly
<1>. QED
  BY <1>3, <1>6, <1>7, <1>8, <1>9, <1>10 DEF TcpInv

LEMMA ServerThrowsKeepsInv ==
  ASSUME TcpInv, ServerThrows, failed' = TRUE,
         pc["server"] \notin {"start", "done", "failed", "terminated"}
  PROVE  TcpInv'
<1>1. /\ Unowned("server", fd["server"]) /\ fd' = [fd EXCEPT !["server"] = NoConn]
      /\ Goes("server", "failed")
      /\ UNCHANGED <<size, timeout, data, written, got, result, backlog, listening>>
  BY DEF ServerThrows
<1>2. /\ pc'["server"] = "failed" /\ pc'["client"] = pc["client"]
      /\ fd'["server"] = NoConn /\ fd'["client"] = fd["client"]
  BY <1>1 DEF Goes, TcpInv, Typed, Side
<1>3. Control'
  BY <1>1, <1>2 DEF TcpInv, Control, Checking, Echoing
<1>4. Orderly'
  BY DEF Orderly
<1>. QED
  BY <1>1, <1>3, <1>4, LeaveKeepsInv DEF Side

LEMMA TerminateKeepsInv ==
  ASSUME TcpInv, Terminate, failed' = TRUE
  PROVE  TcpInv'
<1>1. /\ UNCHANGED <<size, timeout, data, written, got, result, reset>>
      /\ \A s \in Side : pc'[s] = "terminated" /\ fd'[s] = NoConn
      /\ \A c \in Conn : open'[c] = {} /\ stream'[c] = [s \in Side |-> <<>>]
      /\ \A c \in Conn, s \in Side : stream'[c][s] = <<>>
      /\ backlog' = <<>> /\ listening' = FALSE
  BY DEF Terminate
<1>2. Typed'
  <2>1. /\ pc' \in [Side -> ServerPlace \cup ClientPlace] /\ fd' \in [Side -> Conn \cup {NoConn}]
        /\ open' \in [Conn -> SUBSET Side]
    BY DEF Terminate, ServerPlace
  <2>2. stream' \in Pipes'
    <3>1. <<>> \in Seq(1..size')
      BY EmptySeq
    <3>. QED
      BY <3>1 DEF Terminate, Pipes
  <2>3. \A c \in Conn, s \in Side : Len(stream'[c][s]) <= Cap /\ Len(stream'[c][s]) <= size
    <3>1. 0 <= Cap /\ 0 <= size /\ Len(<<>>) = 0
      BY TcpAssumption, Types, EmptyRun
    <3>. QED
      BY <1>1, <3>1
  <2>4. pc'["server"] \in ServerPlace /\ pc'["client"] \in ClientPlace
    BY <1>1 DEF ServerPlace, ClientPlace, Side
  <2>5. \A t \in Side : /\ Len(data[t]) <= size /\ (pc'[t] = "echoWrite" => Len(data[t]) <= Buf)
                        /\ written[t] <= Len(data[t]) /\ Len(got[t]) <= size
    BY <1>1 DEF TcpInv, Typed
  <2>. QED
    BY <1>1, <2>1, <2>2, <2>3, <2>4, <2>5 DEF TcpInv, Typed
<1>3. Control'
  BY <1>1 DEF Control, Checking, Echoing, Side
<1>4. EndsOwned'
  <2>1. Owned'
    BY <1>1 DEF Owned, Side, Conn, NoConn
  <2>. QED
    BY <1>1, <2>1, OwnedIff
<1>5. Locals' /\ EchoedExactly' /\ Orderly'
  BY <1>1 DEF TcpInv, Locals, EchoedExactly, Orderly
<1>6. Quiet'
  BY <1>1 DEF Quiet, Side, Conn
<1>7. \A c \in Conn : Round(c)'
  BY <1>1, Roles DEF Round, NoConn, Conn, Checker
<1>. QED
  BY <1>2, <1>3, <1>4, <1>5, <1>6, <1>7 DEF TcpInv

LEMMA ThrowsKeepsInv ==
  ASSUME TcpInv, NEW s \in Side, Throws(s), failed' = TRUE, pc[s] \in Checking \cup Echoing
  PROVE  TcpInv'
<1>1. CASE s = "client"
  BY <1>1, TerminateKeepsInv DEF Throws
<1>2. CASE s = "server"
  BY <1>2, ServerThrowsKeepsInv DEF Throws, Checking, Echoing
<1>. QED
  BY <1>1, <1>2 DEF Side

\* What ends a call without a failure of its own has another one behind it.
LEMMA BrokenMeansFailed ==
  ASSUME TcpInv, NEW s \in Side, WriteBroken(s) \/ ReadExactEnds(s) \/ EchoReset(s)
  PROVE  failed
<1>1. ASSUME ~failed PROVE reset = {} /\ \A c \in Conn : Checker(c) \in open[c] => Echoer(c) \in open[c]
  BY <1>1 DEF TcpInv, Orderly
<1>2. CASE WriteBroken(s) \/ EchoReset(s)
  BY <1>1, <1>2 DEF WriteBroken, EchoReset
<1>3. CASE ReadExactEnds(s)
  <2>1. fd[s] \in Conn /\ s = Checker(fd[s]) /\ Peer(s) = Echoer(fd[s])
    BY <1>3, AtWork, Roles DEF ReadExactEnds, Checking
  <2>2. s \in open[fd[s]]
    BY <2>1, OpenEnds
  <2>. QED
    BY <1>1, <1>3, <2>1, <2>2 DEF ReadExactEnds, AtEnd
<1>. QED
  BY <1>2, <1>3

LEMMA BrokenKeepsInv ==
  ASSUME TcpInv, NEW s \in Side,
         WriteTimesOut(s) \/ WriteBroken(s) \/ ReadExactEnds(s) \/ EchoReset(s)
  PROVE  TcpInv'
<1>1. failed' = TRUE
  BY BrokenMeansFailed DEF WriteTimesOut, WriteBroken, ReadExactEnds, EchoReset, TcpInv, Typed
<1>2. (Throws(s) \/ Terminate) /\ pc[s] \in Checking \cup Echoing
  BY DEF WriteTimesOut, WriteBroken, ReadExactEnds, EchoReset, Checking, Echoing
<1>. QED
  BY <1>1, <1>2, ThrowsKeepsInv, TerminateKeepsInv

\* check_read_write has read all it wrote: nothing is left on the way.
LEMMA Complete ==
  ASSUME TcpInv, NEW s \in Side, pc[s] = "close", Peer(s) \in open[fd[s]]
  PROVE  /\ stream[fd[s]][s] = <<>> /\ stream[fd[s]][Peer(s)] = <<>>
         /\ pc[Peer(s)] # "echoWrite"
<1>. DEFINE c == fd[s]
            e == Peer(s)
<1>1. c \in Conn /\ s = Checker(c) /\ e = Echoer(c) /\ e \in Side
  BY AtWork, Roles DEF Checking
<1>2. Chain(got[s], stream[c][s], Rest(e), stream[c][e], written[s])
  BY <1>1 DEF TcpInv, Round
<1>3. written[s] = size /\ Len(got[s]) = size
  BY DEF TcpInv, Locals
<1>4. /\ got[s] \in Seq(1..size) /\ stream[c][s] \in Seq(1..size) /\ stream[c][e] \in Seq(1..size)
      /\ Rest(e) \in Seq(1..size) /\ size \in Nat
  BY <1>1, Types, RestType
<1>5. size <= size
  BY <1>4
<1>6. Chain(got[s], stream[c][s], Rest(e), stream[c][e], size)
  BY <1>2, <1>3
<1>7. Len(stream[c][s]) = 0 /\ Len(Rest(e)) = 0 /\ Len(stream[c][e]) = 0
  BY <1>3, <1>4, <1>5, <1>6, ChainBound
<1>8. stream[c][s] = <<>> /\ stream[c][e] = <<>>
  BY <1>4, <1>7, EmptySeq
<1>9. ASSUME pc[e] = "echoWrite" PROVE FALSE
  <2>1. Len(Rest(e)) = Len(data[e]) - written[e] /\ written[e] < Len(data[e])
    BY <1>1, <1>9, RestType DEF TcpInv, Locals
  <2>2. PICK i \in Nat, j \in Nat : i = Len(data[e]) /\ j = written[e]
    BY <1>1, Types DEF TcpInv, Typed
  <2>3. i - j = 0 /\ j < i
    BY <1>7, <2>1, <2>2
  <2>. QED
    BY <2>3
<1>. QED
  BY <1>8, <1>9

LEMMA CloseKeepsInv ==
  ASSUME TcpInv, NEW s \in Side, Close(s)
  PROVE  TcpInv'
<1>. DEFINE c == fd[s]
            e == Peer(s)
            where == IF s = "server" THEN "accept2" ELSE "get"
<1>1. /\ pc[s] = "close" /\ Unowned(s, fd[s]) /\ fd' = [fd EXCEPT ![s] = NoConn] /\ Goes(s, where)
      /\ UNCHANGED <<size, timeout, data, written, got, result, backlog, listening, failed>>
  BY DEF Close
<1>2. c \in Conn /\ s = Checker(c) /\ e = Echoer(c) /\ e \in Side /\ e # s
  BY <1>1, AtWork, Roles DEF Checking
<1>3. /\ pc'[s] = where /\ \A t \in Side : t # s => pc'[t] = pc[t]
      /\ fd'[s] = NoConn /\ \A t \in Side : t # s => fd'[t] = fd[t]
  BY <1>1 DEF Goes, TcpInv, Typed
<1>4. Control'
  <2>1. CASE s = "server"
    <3>1. /\ pc["server"] = "close" /\ pc'["server"] = "accept2" /\ pc'["client"] = pc["client"]
          /\ fd'["server"] = NoConn /\ fd'["client"] = fd["client"] /\ backlog' = backlog
      BY <1>1, <1>3, <2>1 DEF Side
    <3>. QED
      BY <3>1 DEF TcpInv, Control, Checking, Echoing
  <2>2. CASE s = "client"
    <3>1. /\ pc["client"] = "close" /\ pc'["client"] = "get" /\ pc'["server"] = pc["server"]
          /\ fd'["client"] = NoConn /\ fd'["server"] = fd["server"] /\ backlog' = backlog
      BY <1>1, <1>3, <2>2 DEF Side
    <3>. QED
      BY <3>1 DEF TcpInv, Control, Checking, Echoing
  <2>. QED
    BY <2>1, <2>2 DEF Side
<1>5. Orderly'
  <2>. SUFFICES ASSUME ~failed PROVE Orderly'
    BY <1>1 DEF Orderly
  <2>1. /\ reset = {} /\ \A t \in Side : pc[t] \notin {"failed", "terminated"}
        /\ \A d \in Conn : Checker(d) \in open[d] => Echoer(d) \in open[d]
        /\ \A d \in Conn : Checker(d) \notin open[d] /\ Echoer(d) \in open[d] =>
              stream[d][Echoer(d)] = <<>> /\ pc[Echoer(d)] # "echoWrite"
    BY DEF TcpInv, Orderly
  <2>2. stream[c][s] = <<>> /\ stream[c][e] = <<>> /\ pc[e] # "echoWrite"
    BY <1>1, <1>2, <2>1, OpenEnds, Complete
  <2>3. /\ \A d \in Conn : open'[d] = IF d = c THEN open[d] \ {s} ELSE open[d]
        /\ \A d \in Conn, t \in Side : stream'[d][t] = IF d = c /\ t = s THEN <<>> ELSE stream[d][t]
        /\ \A d \in Conn : d = fd[s] /\ stream[d][s] = <<>> => reset' = reset
    BY <1>1, UnownedFacts
  <2>4. reset' = {}
    BY <1>2, <2>1, <2>2, <2>3
  <2>5. \A t \in Side : pc'[t] \notin {"failed", "terminated"}
    BY <1>3, <2>1
  <2>6. ASSUME NEW d \in Conn
        PROVE  /\ Checker(d) \in open'[d] => Echoer(d) \in open'[d]
               /\ Checker(d) \notin open'[d] /\ Echoer(d) \in open'[d] =>
                    stream'[d][Echoer(d)] = <<>> /\ pc'[Echoer(d)] # "echoWrite"
    <3>1. CASE d = c
      <4>1. open'[c] = open[c] \ {s} /\ stream'[c][e] = stream[c][e] /\ pc'[e] = pc[e]
        BY <1>2, <1>3, <2>3
      <4>. QED
        BY <1>2, <2>2, <3>1, <4>1
    <3>2. CASE d # c
      <4>1. open'[d] = open[d] /\ Echoer(d) = s /\ stream'[d][s] = stream[d][s]
        BY <1>2, <2>3, <3>2, Roles
      <4>2. pc'[s] # "echoWrite"
        BY <1>3
      <4>. QED
        BY <2>1, <4>1, <4>2
    <3>. QED
      BY <3>1, <3>2
  <2>. QED
    BY <2>4, <2>5, <2>6 DEF Orderly, Checker, Echoer
<1>6. failed' \in BOOLEAN
  BY <1>1 DEF TcpInv, Typed
<1>7. \/ s = "server" /\ where \in {"accept2", "done", "failed"}
      \/ s = "client" /\ where = "get"
  BY DEF Side
<1>. HIDE DEF where
<1>. QED
  BY <1>1, <1>4, <1>5, <1>6, <1>7, LeaveKeepsInv

\* echo has met the end of its input, and the thread of the server ends with it.
LEMMA ServerEchoEndsKeepsInv ==
  ASSUME TcpInv, EchoEnds("server")
  PROVE  TcpInv'
<1>1. /\ pc["server"] = "echo" /\ AtEnd("server") /\ fd["server"] \notin reset
      /\ Unowned("server", fd["server"]) /\ fd' = [fd EXCEPT !["server"] = NoConn]
      /\ Goes("server", "done")
      /\ UNCHANGED <<size, timeout, data, written, got, result, backlog, listening, failed>>
  BY DEF EchoEnds
<1>2. fd["server"] = 2 /\ 2 \in Conn /\ "server" \in Side /\ "client" \in Side
  BY <1>1 DEF TcpInv, Control, Echoing, Conn, Side
<1>3. stream[2]["server"] = <<>> /\ "client" \notin open[2]
  BY <1>1, <1>2 DEF AtEnd, Peer
<1>4. /\ pc'["server"] = "done" /\ pc'["client"] = pc["client"]
      /\ fd'["server"] = NoConn /\ fd'["client"] = fd["client"]
  BY <1>1 DEF Goes, TcpInv, Typed, Side
<1>5. Control'
  BY <1>1, <1>4 DEF TcpInv, Control, Checking, Echoing
<1>6. Orderly'
  <2>. SUFFICES ASSUME ~failed PROVE Orderly'
    BY <1>1 DEF Orderly
  <2>1. /\ reset = {} /\ \A t \in Side : pc[t] \notin {"failed", "terminated"}
        /\ \A d \in Conn : Checker(d) \in open[d] => Echoer(d) \in open[d]
        /\ \A d \in Conn : Checker(d) \notin open[d] /\ Echoer(d) \in open[d] =>
              stream[d][Echoer(d)] = <<>> /\ pc[Echoer(d)] # "echoWrite"
    BY DEF TcpInv, Orderly
  <2>2. /\ \A d \in Conn : open'[d] = IF d = 2 THEN open[d] \ {"server"} ELSE open[d]
        /\ \A d \in Conn, t \in Side :
             stream'[d][t] = IF d = 2 /\ t = "server" THEN <<>> ELSE stream[d][t]
        /\ reset' = reset
    <3>1. /\ \A d \in Conn :
               open'[d] = IF d = fd["server"] THEN open[d] \ {"server"} ELSE open[d]
          /\ \A d \in Conn, t \in Side :
               stream'[d][t] = IF d = fd["server"] /\ t = "server" THEN <<>> ELSE stream[d][t]
          /\ \A d \in Conn : d = fd["server"] /\ stream[d]["server"] = <<>> => reset' = reset
      BY <1>1, <1>2, UnownedFacts
    <3>. QED
      BY <1>2, <1>3, <3>1
  <2>3. \A t \in Side : pc'[t] \notin {"failed", "terminated"}
    BY <1>4, <2>1 DEF Side
  <2>4. Checker(2) = "client" /\ Echoer(2) = "server" /\ Checker(1) = "server" /\ Echoer(1) = "client"
    BY DEF Checker, Echoer, Peer
  <2>5. ASSUME NEW d \in Conn
        PROVE  /\ Checker(d) \in open'[d] => Echoer(d) \in open'[d]
               /\ Checker(d) \notin open'[d] /\ Echoer(d) \in open'[d] =>
                    stream'[d][Echoer(d)] = <<>> /\ pc'[Echoer(d)] # "echoWrite"
    <3>1. CASE d = 1
      <4>1. open'[1] = open[1] /\ stream'[1]["client"] = stream[1]["client"] /\ 1 \in Conn
        BY <1>2, <2>2 DEF Conn
      <4>. QED
        BY <1>4, <2>1, <2>4, <3>1, <4>1
    <3>2. CASE d = 2
      <4>1. "client" \notin open'[2] /\ stream'[2]["server"] = <<>> /\ 2 \in Conn
        BY <1>2, <1>3, <2>2
      <4>2. pc'["server"] = "done"
        BY <1>4
      <4>. QED
        BY <2>4, <3>2, <4>1, <4>2
    <3>. QED
      BY <3>1, <3>2 DEF Conn
  <2>. QED
    BY <2>1, <2>2, <2>3, <2>5 DEF Orderly, Checker, Echoer
<1>7. failed' \in BOOLEAN
  BY <1>1 DEF TcpInv, Typed
<1>. QED
  BY <1>1, <1>2, <1>5, <1>6, <1>7, LeaveKeepsInv

-----------------------------------------------------------------------------
(* The other steps of the two threads. *)

\* Only the places of the threads and the Server's socket change.
LEMMA MoveKeepsInv ==
  ASSUME TcpInv,
         UNCHANGED <<size, fd, timeout, data, written, got, result, stream, open, reset, backlog, failed>>,
         listening' \in BOOLEAN, pc' \in [Side -> ServerPlace \cup ClientPlace],
         pc'["server"] \in ServerPlace, pc'["client"] \in ClientPlace, Control',
         \A s \in Side : pc'[s] = pc[s]
                         \/ /\ pc[s] # "echoWrite"
                            /\ pc'[s] \in {"accept1", "connect1", "connect2", "done"},
         pc'["server"] = "accept1" => stream[1] = [s \in Side |-> <<>>],
         pc'["client"] = "connect2" => "server" \notin open[1] /\ stream[1]["client"] = <<>>
  PROVE  TcpInv'
<1>1. Typed'
  <2>1. \A s \in Side : /\ Len(data[s]) <= size /\ (pc'[s] = "echoWrite" => Len(data[s]) <= Buf)
                        /\ written[s] <= Len(data[s]) /\ Len(got[s]) <= size
    BY DEF TcpInv, Typed
  <2>. QED
    BY <2>1 DEF TcpInv, Typed, Pipes
<1>2. EndsOwned' /\ EchoedExactly'
  BY DEF TcpInv, EndsOwned, EchoedExactly
<1>3. Locals'
  <2>1. Data' = Data
    BY DEF Data
  <2>. QED
    BY <2>1 DEF TcpInv, Locals
<1>4. Quiet'
  BY DEF TcpInv, Quiet
<1>5. \A c \in Conn : Round(c)'
  <2>. SUFFICES ASSUME NEW c \in Conn PROVE Round(c)'
    OBVIOUS
  <2>1. Rest(Echoer(c))' = Rest(Echoer(c))
    <3>1. CASE Echoer(c) = "server"
      BY <3>1 DEF Rest, Side, Echoer, Checker
    <3>2. CASE Echoer(c) = "client"
      BY <3>2 DEF Rest, Side, Echoer, Checker
    <3>. QED
      BY <3>1, <3>2, Roles DEF Side
  <2>. QED
    BY <2>1 DEF TcpInv, Round, Checker, Echoer
<1>6. Orderly'
  <2>1. \A c \in Conn : pc'[Echoer(c)] = "echoWrite" => pc[Echoer(c)] = "echoWrite"
    BY Roles
  <2>. QED
    BY <2>1 DEF TcpInv, Orderly, Checker, Echoer
<1>. QED
  BY <1>1, <1>2, <1>3, <1>4, <1>5, <1>6 DEF TcpInv

LEMMA OpenKeepsInv ==
  ASSUME TcpInv, Open
  PROVE  TcpInv'
<1>1. /\ pc["client"] = "start" /\ pc["server"] = "start" /\ listening' = TRUE
      /\ UNCHANGED <<size, fd, timeout, data, written, got, result, stream, open, reset, backlog, failed>>
      /\ pc' \in [Side -> ServerPlace \cup ClientPlace]
      /\ pc'["server"] = "accept1" /\ pc'["client"] = "connect1"
  BY DEF Open, TcpInv, Typed, Control, Side, ServerPlace, ClientPlace
<1>2. Control'
  BY <1>1 DEF TcpInv, Control, Checking, Echoing
<1>3. stream[1] = [s \in Side |-> <<>>]
  <2>1. 1 \in Conn /\ fd["server"] = NoConn /\ fd["client"] = NoConn /\ backlog # << 1 >>
    BY <1>1 DEF TcpInv, Control, Checking, Echoing, Conn
  <2>2. \A s \in Side : s \notin open[1]
    BY <2>1, OpenEnds DEF Owned, Side, NoConn
  <2>3. \A s \in Side : stream[1][s] = <<>>
    BY <2>1, <2>2 DEF TcpInv, Quiet
  <2>. QED
    BY <2>1, <2>3, Types DEF Pipes
<1>. QED
  BY <1>1, <1>2, <1>3, MoveKeepsInv DEF Side, ServerPlace, ClientPlace

\* echo has met the end of its input, and main goes on to its second connect.
LEMMA ClientEchoEndsKeepsInv ==
  ASSUME TcpInv, EchoEnds("client")
  PROVE  TcpInv'
<1>1. /\ pc["client"] = "echo" /\ AtEnd("client") /\ fd["client"] \notin reset
      /\ Goes("client", "connect2")
      /\ UNCHANGED <<size, fd, timeout, data, written, got, result, stream, open, reset, backlog,
                     listening, failed>>
  BY DEF EchoEnds
<1>2. fd["client"] = 1 /\ 1 \in Conn
  BY <1>1 DEF TcpInv, Control, Echoing, Conn
<1>3. stream[1]["client"] = <<>> /\ "server" \notin open[1]
  BY <1>1, <1>2 DEF AtEnd, Peer
<1>4. /\ pc' \in [Side -> ServerPlace \cup ClientPlace]
      /\ pc'["server"] = pc["server"] /\ pc'["client"] = "connect2"
  BY <1>1 DEF Goes, TcpInv, Typed, Side, ClientPlace
<1>5. fd["server"] # 1 /\ backlog # << 1 >>
  BY <1>2, <1>3, OpenEnds DEF Owned
<1>6. Control'
  BY <1>1, <1>4, <1>5 DEF TcpInv, Control, Checking, Echoing
<1>7. listening' \in BOOLEAN /\ pc'["server"] \in ServerPlace /\ pc'["client"] \in ClientPlace
  BY <1>1, <1>4 DEF TcpInv, Typed, ClientPlace
<1>8. pc'["server"] # "accept1"
  BY <1>4, <1>6 DEF Control
<1>. QED
  BY <1>1, <1>3, <1>4, <1>6, <1>7, <1>8, MoveKeepsInv DEF Side

LEMMA GetKeepsInv ==
  ASSUME TcpInv, Get
  PROVE  TcpInv'
<1>1. CASE pc["server"] = "failed"
  <2>1. failed = TRUE
    BY <1>1 DEF TcpInv, Orderly, Typed, Side
  <2>. QED
    BY <1>1, <2>1, TerminateKeepsInv DEF Get
<1>2. CASE pc["server"] # "failed"
  <2>1. /\ pc["client"] = "get" /\ pc["server"] = "done" /\ Goes("client", "done") /\ listening' = FALSE
        /\ UNCHANGED <<size, fd, timeout, data, written, got, result, stream, open, reset, backlog, failed>>
    BY <1>2 DEF Get
  <2>2. /\ pc' \in [Side -> ServerPlace \cup ClientPlace]
        /\ pc'["server"] = "done" /\ pc'["client"] = "done"
    BY <2>1 DEF Goes, TcpInv, Typed, Side, ClientPlace
  <2>3. Control'
    BY <2>1, <2>2 DEF TcpInv, Control, Checking, Echoing
  <2>. QED
    BY <2>1, <2>2, <2>3, MoveKeepsInv DEF Side, ServerPlace, ClientPlace
<1>. QED
  BY <1>1, <1>2

\* What check_read_write and echo start with.
LEMMA StartsFacts ==
  ASSUME TcpInv, NEW s \in Side, NEW where \in {"write", "echo"}, Starts(s, where), UNCHANGED size
  PROVE  /\ pc' \in [Side -> ServerPlace \cup ClientPlace]
         /\ pc'["server"] \in ServerPlace /\ pc'["client"] \in ClientPlace
         /\ data' \in [Side -> Seq(1..size)] /\ written' \in [Side -> Nat]
         /\ got' \in [Side -> Seq(1..size)] /\ timeout' \in [Side -> BOOLEAN]
         /\ pc'[s] = where /\ written'[s] = 0 /\ got'[s] = <<>>
         /\ where = "write" => data'[s] = Data
         /\ \A t \in Side : t # s => /\ pc'[t] = pc[t] /\ data'[t] = data[t]
                                     /\ written'[t] = written[t] /\ got'[t] = got[t]
         /\ \A t \in Side : /\ Len(data'[t]) <= size /\ (pc'[t] = "echoWrite" => Len(data'[t]) <= Buf)
                            /\ written'[t] <= Len(data'[t]) /\ Len(got'[t]) <= size
         /\ Locals'
<1>. DEFINE x == IF where = "write" THEN Data ELSE <<>>
<1>1. /\ pc' = [pc EXCEPT ![s] = where] /\ data' = [data EXCEPT ![s] = x]
      /\ written' = [written EXCEPT ![s] = 0] /\ got' = [got EXCEPT ![s] = <<>>]
      /\ \E b \in BOOLEAN : timeout' = [timeout EXCEPT ![s] = b]
  BY DEF Starts, Goes
<1>2. size \in Nat /\ <<>> \in Seq(1..size) /\ Len(<<>>) = 0
  BY Types, EmptySeq, EmptyRun
<1>3. x \in Seq(1..size) /\ Len(x) <= size /\ 0 <= Len(x) /\ 0 <= size
  <2>1. CASE where = "write"
    BY <1>2, <2>1, DataFacts
  <2>2. CASE where # "write"
    BY <1>2, <2>2
  <2>. QED
    BY <2>1, <2>2
<1>4. where = "write" => x = Data
  OBVIOUS
<1>. HIDE DEF x
<1>5. /\ pc \in [Side -> ServerPlace \cup ClientPlace] /\ data \in [Side -> Seq(1..size)]
      /\ written \in [Side -> Nat] /\ got \in [Side -> Seq(1..size)] /\ timeout \in [Side -> BOOLEAN]
      /\ pc["server"] \in ServerPlace /\ pc["client"] \in ClientPlace
      /\ \A t \in Side : /\ Len(data[t]) <= size /\ (pc[t] = "echoWrite" => Len(data[t]) <= Buf)
                         /\ written[t] <= Len(data[t]) /\ Len(got[t]) <= size
  BY DEF TcpInv, Typed
<1>6. /\ pc' \in [Side -> ServerPlace \cup ClientPlace] /\ data' \in [Side -> Seq(1..size)]
      /\ written' \in [Side -> Nat] /\ got' \in [Side -> Seq(1..size)]
      /\ timeout' \in [Side -> BOOLEAN]
  BY <1>1, <1>2, <1>3, <1>5 DEF ServerPlace
<1>7. /\ pc'[s] = where /\ written'[s] = 0 /\ got'[s] = <<>> /\ data'[s] = x
      /\ \A t \in Side : t # s => /\ pc'[t] = pc[t] /\ data'[t] = data[t]
                                  /\ written'[t] = written[t] /\ got'[t] = got[t]
  BY <1>1, <1>5
<1>8. pc'["server"] \in ServerPlace /\ pc'["client"] \in ClientPlace
  BY <1>5, <1>7 DEF ServerPlace, ClientPlace, Side
<1>9. \A t \in Side : /\ Len(data'[t]) <= size /\ (pc'[t] = "echoWrite" => Len(data'[t]) <= Buf)
                      /\ written'[t] <= Len(data'[t]) /\ Len(got'[t]) <= size
  BY <1>2, <1>3, <1>5, <1>7
<1>10. Locals'
  <2>1. Data' = Data
    BY DEF Data
  <2>. QED
    BY <1>4, <1>7, <2>1 DEF TcpInv, Locals
<1>. QED
  BY <1>4, <1>6, <1>7, <1>8, <1>9, <1>10

\* A round trip starts with nothing anywhere.
LEMMA EmptyChain == Chain(<<>>, <<>>, <<>>, <<>>, 0) /\ Run(<<>>, 0) /\ Run(<<>>, Len(<<>>))
<1>1. Len(<<>>) = 0 /\ 0 + 0 = 0
  BY EmptyRun
<1>. QED
  BY <1>1, EmptyRun DEF Chain

LEMMA AcceptKeepsInv ==
  ASSUME TcpInv, Accept
  PROVE  TcpInv'
<1>. DEFINE where == IF pc["server"] = "accept1" THEN "write" ELSE "echo"
            c == IF pc["server"] = "accept1" THEN 1 ELSE 2
<1>1. /\ pc["server"] \in {"accept1", "accept2"} /\ backlog # <<>> /\ Unowned("server", fd["server"])
      /\ fd' = [fd EXCEPT !["server"] = Head(backlog)] /\ backlog' = Tail(backlog)
      /\ Starts("server", where) /\ UNCHANGED <<size, result, listening, failed>>
  BY DEF Accept
<1>2. /\ fd["server"] = NoConn /\ backlog = <<c>> /\ c \in Conn /\ "server" \in Side /\ "client" \in Side
      /\ pc["server"] = "accept1" => pc["client"] = "echo"
      /\ pc["server"] = "accept2" => pc["client"] \in Checking \cup {"get"}
  BY <1>1 DEF TcpInv, Control, Checking, Echoing, Conn, Side
<1>3. UNCHANGED <<stream, open, reset>>
  BY <1>1, <1>2 DEF Unowned
<1>4. Head(backlog) = c /\ backlog' = <<>>
  <2>1. Head(<<c>>) = c /\ Tail(<<c>>) = <<>>
    OBVIOUS
  <2>. QED
    BY <1>1, <1>2, <2>1
<1>5. fd' \in [Side -> Conn \cup {NoConn}] /\ fd'["server"] = c /\ fd'["client"] = fd["client"]
  BY <1>1, <1>2, <1>4 DEF TcpInv, Typed
<1>6. /\ pc' \in [Side -> ServerPlace \cup ClientPlace]
      /\ pc'["server"] \in ServerPlace /\ pc'["client"] \in ClientPlace
      /\ data' \in [Side -> Seq(1..size)] /\ written' \in [Side -> Nat]
      /\ got' \in [Side -> Seq(1..size)] /\ timeout' \in [Side -> BOOLEAN]
      /\ pc'["server"] = where /\ written'["server"] = 0 /\ got'["server"] = <<>>
      /\ \A t \in Side : t # "server" => /\ pc'[t] = pc[t] /\ data'[t] = data[t]
                                         /\ written'[t] = written[t] /\ got'[t] = got[t]
      /\ \A t \in Side : /\ Len(data'[t]) <= size /\ (pc'[t] = "echoWrite" => Len(data'[t]) <= Buf)
                         /\ written'[t] <= Len(data'[t]) /\ Len(got'[t]) <= size
      /\ Locals'
  <2>1. where \in {"write", "echo"}
    OBVIOUS
  <2>. HIDE DEF where
  <2>. QED
    BY <1>1, <1>2, <2>1, StartsFacts
<1>7. /\ pc'["client"] = pc["client"] /\ data'["client"] = data["client"]
      /\ written'["client"] = written["client"] /\ got'["client"] = got["client"]
  BY <1>2, <1>6
<1>8. Typed'
  BY <1>1, <1>3, <1>5, <1>6 DEF TcpInv, Typed, Pipes
<1>9. Control'
  <2>1. CASE pc["server"] = "accept1"
    BY <1>2, <1>4, <1>5, <1>6, <1>7, <2>1 DEF TcpInv, Control, Checking, Echoing
  <2>2. CASE pc["server"] = "accept2"
    BY <1>2, <1>4, <1>5, <1>6, <1>7, <2>2 DEF TcpInv, Control, Checking, Echoing
  <2>. QED
    BY <1>1, <2>1, <2>2
<1>10. EndsOwned'
  <2>1. Owned
    BY OpenEnds
  <2>2. \A d \in Conn : (backlog = <<d>> <=> d = c) /\ backlog' # <<d>> /\ d # NoConn
    BY <1>2, <1>4 DEF NoConn, Conn
  <2>3. Owned'
    BY <1>2, <1>3, <1>5, <2>1, <2>2 DEF Owned
  <2>. QED
    BY <1>4, <2>3, OwnedIff
<1>11. Quiet'
  <2>1. pc'["server"] # "accept1" /\ backlog' # << 1 >>
    BY <1>4, <1>6
  <2>. QED
    BY <1>3, <1>7, <2>1 DEF TcpInv, Quiet
<1>12. Round(1)'
  <2>. SUFFICES ASSUME c = 1 PROVE Round(1)'
    BY <1>5 DEF Round, Checker
  <2>1. pc["server"] = "accept1" /\ pc'["client"] = "echo"
    BY <1>2, <1>7
  <2>2. stream'[1]["server"] = <<>> /\ stream'[1]["client"] = <<>>
    BY <1>2, <1>3, <2>1 DEF TcpInv, Quiet
  <2>3. Rest("client")' = <<>>
    BY <2>1 DEF Rest
  <2>. QED
    BY <1>6, <2>2, <2>3, EmptyChain DEF Round, Checker, Echoer, Peer
<1>13. Round(2)'
  <2>1. Rest("server")' = <<>> /\ Rest("server") = <<>>
    BY <1>1, <1>6 DEF Rest
  <2>2. Round(2)
    BY DEF TcpInv, Conn
  <2>. QED
    BY <1>3, <1>5, <1>7, <2>1, <2>2 DEF Round, Checker, Echoer, Peer
<1>14. EchoedExactly'
  BY <1>1 DEF TcpInv, EchoedExactly
<1>15. Orderly'
  <2>1. \A t \in Side : pc'[t] # "echoWrite" \/ pc'[t] = pc[t]
    BY <1>6
  <2>2. \A d \in Conn : Echoer(d) \in Side
    BY Roles
  <2>3. \A t \in Side : pc'[t] \in {"failed", "terminated"} => pc[t] \in {"failed", "terminated"}
    BY <1>6
  <2>. QED
    BY <1>1, <1>3, <2>1, <2>2, <2>3 DEF TcpInv, Orderly, Checker, Echoer
<1>. QED
  BY <1>6, <1>8, <1>9, <1>10, <1>11, <1>12, <1>13, <1>14, <1>15 DEF TcpInv, Conn

LEMMA ConnectKeepsInv ==
  ASSUME TcpInv, Connect
  PROVE  TcpInv'
<1>. DEFINE where == IF pc["client"] = "connect1" THEN "echo" ELSE "write"
            c == IF pc["client"] = "connect1" THEN 1 ELSE 2
            old == fd["client"]
<1>1. /\ pc["client"] \in {"connect1", "connect2"}
      /\ fd' = [fd EXCEPT !["client"] = c] /\ backlog' = Append(backlog, c)
      /\ open' = [d \in Conn |-> IF d = c THEN Side
                                 ELSE IF d = old THEN open[d] \ {"client"} ELSE open[d]]
      /\ reset' = reset \cup {d \in Conn : d = old /\ stream[d]["client"] # <<>>}
      /\ stream' = [d \in Conn |-> IF d = old THEN [stream[d] EXCEPT !["client"] = <<>>] ELSE stream[d]]
      /\ Starts("client", where) /\ UNCHANGED <<size, result, listening, failed>>
  BY DEF Connect
<1>2. /\ c \in Conn /\ old = c - 1 /\ "server" \in Side /\ "client" \in Side
      /\ pc["client"] = "connect1" => pc["server"] \in {"accept1", "failed"}
      /\ pc["client"] = "connect2" => pc["server"] \in {"accept2", "failed"}
      /\ backlog = <<>> /\ fd["server"] = NoConn
  <2>1. /\ pc["client"] = "connect1" => pc["server"] \in {"accept1", "failed"}
        /\ pc["client"] = "connect2" => pc["server"] \in {"accept2", "failed"}
    BY <1>1 DEF TcpInv, Typed, ServerPlace, Control, Checking, Echoing
  <2>2. backlog = <<>> /\ fd["server"] = NoConn
    BY <1>1, <2>1 DEF TcpInv, Control, Checking, Echoing
  <2>3. old = c - 1
    BY <1>1 DEF TcpInv, Control, Checking, Echoing, NoConn
  <2>. QED
    BY <2>1, <2>2, <2>3 DEF Conn, Side
<1>3. \A d \in Conn, s \in Side : s \in open[d] => d = old /\ s = "client"
  <2>1. \A d \in Conn : backlog # <<d>> /\ d # NoConn
    BY <1>2 DEF NoConn, Conn
  <2>. QED
    BY <1>2, <2>1, OpenEnds DEF Owned, Side
<1>4. \A d \in Conn, s \in Side : stream[d][s] = <<>>
  <2>1. \A d \in Conn, s \in Side : s \notin open[d] => stream[d][s] = <<>>
    BY DEF TcpInv, Quiet
  <2>2. old \in Conn => stream[old]["client"] = <<>>
    BY <1>1, <1>2 DEF TcpInv, Quiet, Conn
  <2>. QED
    BY <1>3, <2>1, <2>2
<1>5. reset' = reset
  BY <1>1, <1>2, <1>4
<1>6. \A d \in Conn, s \in Side : stream'[d][s] = <<>>
  BY <1>1, <1>4, Types DEF Pipes
<1>7. stream' \in Pipes'
  <2>1. <<>> \in Seq(1..size)
    BY EmptySeq
  <2>. QED
    BY <1>1, <2>1, Types DEF Pipes
<1>8. open' \in [Conn -> SUBSET Side] /\ \A d \in Conn : open'[d] = IF d = c THEN Side ELSE {}
  <2>1. \A d \in Conn : open[d] \subseteq Side
    BY DEF TcpInv, Typed
  <2>. QED
    BY <1>1, <1>3, <2>1
<1>9. backlog' = <<c>>
  <2>1. Append(<<>>, c) = <<c>>
    OBVIOUS
  <2>. QED
    BY <1>1, <1>2, <2>1
<1>10. fd' \in [Side -> Conn \cup {NoConn}] /\ fd'["client"] = c /\ fd'["server"] = NoConn
  BY <1>1, <1>2 DEF TcpInv, Typed
<1>11. /\ pc' \in [Side -> ServerPlace \cup ClientPlace]
       /\ pc'["server"] \in ServerPlace /\ pc'["client"] \in ClientPlace
       /\ data' \in [Side -> Seq(1..size)] /\ written' \in [Side -> Nat]
       /\ got' \in [Side -> Seq(1..size)] /\ timeout' \in [Side -> BOOLEAN]
       /\ pc'["client"] = where /\ written'["client"] = 0 /\ got'["client"] = <<>>
       /\ \A t \in Side : t # "client" => /\ pc'[t] = pc[t] /\ data'[t] = data[t]
                                          /\ written'[t] = written[t] /\ got'[t] = got[t]
       /\ \A t \in Side : /\ Len(data'[t]) <= size /\ (pc'[t] = "echoWrite" => Len(data'[t]) <= Buf)
                          /\ written'[t] <= Len(data'[t]) /\ Len(got'[t]) <= size
       /\ Locals'
  <2>1. where \in {"write", "echo"}
    OBVIOUS
  <2>. HIDE DEF where
  <2>. QED
    BY <1>1, <1>2, <2>1, StartsFacts
<1>12. pc'["server"] = pc["server"]
  BY <1>2, <1>11
<1>13. Typed'
  <2>1. \A d \in Conn, s \in Side : Len(stream'[d][s]) <= Cap /\ Len(stream'[d][s]) <= size
    <3>1. 0 <= Cap /\ 0 <= size /\ Len(<<>>) = 0
      BY TcpAssumption, Types, EmptyRun
    <3>. QED
      BY <1>6, <3>1
  <2>2. /\ size \in Sizes /\ pc["server"] \in ServerPlace
        /\ result \in [Side -> {"none", "true", "false"}]
        /\ reset \subseteq Conn /\ listening \in BOOLEAN /\ failed \in BOOLEAN
    BY DEF TcpInv, Typed
  <2>. QED
    BY <1>1, <1>5, <1>7, <1>8, <1>10, <1>11, <1>12, <2>1, <2>2, SMTT(30) DEF Typed
<1>14. Control'
  <2>1. << 1 >> # << 2 >> /\ << 1 >> # <<>> /\ << 2 >> # <<>>
    OBVIOUS
  <2>2. CASE pc["client"] = "connect1"
    BY <1>2, <1>9, <1>10, <1>11, <1>12, <2>1, <2>2 DEF Control, Checking, Echoing
  <2>3. CASE pc["client"] = "connect2"
    BY <1>2, <1>9, <1>10, <1>11, <1>12, <2>1, <2>3 DEF Control, Checking, Echoing
  <2>. QED
    BY <1>1, <2>2, <2>3
<1>15. EndsOwned'
  <2>1. \A d \in Conn : (backlog' = <<d>> <=> d = c) /\ d # NoConn
    BY <1>2, <1>9 DEF NoConn, Conn
  <2>2. Owned'
    BY <1>2, <1>8, <1>10, <2>1 DEF Owned
  <2>3. backlog' \in {<<>>, << 1 >>, << 2 >>}
    BY <1>9
  <2>. QED
    BY <2>2, <2>3, OwnedIff
<1>16. Quiet'
  <2>1. stream'[1] = [s \in Side |-> <<>>]
    BY <1>6, <1>7 DEF Pipes, Conn
  <2>. QED
    BY <1>6, <1>11, <2>1 DEF Quiet
<1>17. Round(1)'
  BY <1>10 DEF Round, Checker, NoConn
<1>18. Round(2)'
  <2>1. Rest("server")' = <<>>
    BY <1>1, <1>2, <1>12 DEF Rest
  <2>2. stream'[2]["server"] = <<>> /\ stream'[2]["client"] = <<>>
    BY <1>2, <1>6 DEF Conn
  <2>. QED
    BY <1>11, <2>1, <2>2, EmptyChain DEF Round, Checker, Echoer, Peer
<1>19. EchoedExactly'
  BY <1>1 DEF TcpInv, EchoedExactly
<1>20. Orderly'
  <2>. SUFFICES ASSUME ~failed PROVE Orderly'
    BY <1>1 DEF Orderly
  <2>1. reset = {} /\ \A t \in Side : pc[t] \notin {"failed", "terminated"}
    BY DEF TcpInv, Orderly
  <2>2. \A t \in Side : pc'[t] \notin {"failed", "terminated"}
    BY <1>11, <2>1
  <2>3. \A d \in Conn : /\ Checker(d) \in open'[d] => Echoer(d) \in open'[d]
                        /\ Checker(d) \notin open'[d] => Echoer(d) \notin open'[d]
    BY <1>8, Roles
  <2>. QED
    BY <1>5, <2>1, <2>2, <2>3 DEF Orderly, Checker, Echoer
<1>. QED
  BY <1>11, <1>13, <1>14, <1>15, <1>16, <1>17, <1>18, <1>19, <1>20 DEF TcpInv, Conn

-----------------------------------------------------------------------------
(* The theorems. *)

LEMMA InitInv == Init => TcpInv
<1>. SUFFICES ASSUME Init PROVE TcpInv
  OBVIOUS
<1>1. /\ size \in Sizes /\ size \in Nat /\ Cap \in Nat /\ Len(<<>>) = 0 /\ <<>> \in Seq(1..size)
      /\ \A s \in Side : /\ pc[s] = "start" /\ fd[s] = NoConn /\ data[s] = <<>> /\ written[s] = 0
                         /\ got[s] = <<>> /\ result[s] = "none"
      /\ \A c \in Conn : open[c] = {} /\ stream[c] = [s \in Side |-> <<>>]
      /\ \A c \in Conn, s \in Side : stream[c][s] = <<>>
      /\ reset = {} /\ backlog = <<>> /\ failed = FALSE
  BY TcpAssumption, EmptyRun, EmptySeq DEF Init
<1>2. Typed
  <2>1. /\ pc \in [Side -> ServerPlace \cup ClientPlace] /\ fd \in [Side -> Conn \cup {NoConn}]
        /\ timeout \in [Side -> BOOLEAN] /\ open \in [Conn -> SUBSET Side]
        /\ result \in [Side -> {"none", "true", "false"}] /\ listening \in BOOLEAN
    BY DEF Init, ServerPlace
  <2>2. /\ data \in [Side -> Seq(1..size)] /\ got \in [Side -> Seq(1..size)]
        /\ written \in [Side -> Nat] /\ stream \in Pipes
    BY <1>1 DEF Init, Pipes
  <2>3. 0 <= size /\ 0 <= Cap /\ 0 <= 0
    BY <1>1
  <2>4. pc["server"] \in ServerPlace /\ pc["client"] \in ClientPlace
    BY <1>1 DEF ServerPlace, ClientPlace, Side
  <2>. QED
    BY <1>1, <2>1, <2>2, <2>3, <2>4 DEF Typed
<1>3. Control
  BY <1>1 DEF Control, Checking, Echoing, Side
<1>4. EndsOwned
  <2>1. Owned
    BY <1>1 DEF Owned, Side, NoConn, Conn
  <2>. QED
    BY <1>1, <2>1, OwnedIff
<1>5. Locals /\ EchoedExactly
  BY <1>1 DEF Locals, EchoedExactly
<1>6. Quiet
  BY <1>1 DEF Quiet, Conn, Side
<1>7. \A c \in Conn : Round(c)
  BY <1>1, Roles DEF Round, NoConn, Conn
<1>8. Orderly
  BY <1>1, Roles DEF Orderly
<1>. QED
  BY <1>2, <1>3, <1>4, <1>5, <1>6, <1>7, <1>8 DEF TcpInv

LEMMA TransferInv ==
  ASSUME TcpInv, NEW s \in Side, Transfer(s)
  PROVE  TcpInv'
<1>1. CASE Write(s)
  BY <1>1, WriteKeepsInv, EchoWriteKeepsInv DEF Write
<1>2. CASE WriteTimesOut(s) \/ WriteBroken(s) \/ ReadExactEnds(s) \/ EchoReset(s)
  BY <1>2, BrokenKeepsInv
<1>3. CASE ReadExact(s)
  BY <1>3, ReadExactKeepsInv
<1>4. CASE EchoRead(s)
  BY <1>4, EchoReadKeepsInv
<1>5. CASE EchoEnds(s)
  BY <1>5, ServerEchoEndsKeepsInv, ClientEchoEndsKeepsInv DEF Side
<1>6. CASE Close(s)
  BY <1>6, CloseKeepsInv
<1>. QED
  BY <1>1, <1>2, <1>3, <1>4, <1>5, <1>6 DEF Transfer

LEMMA NextInv == TcpInv /\ [Next]_vars => TcpInv'
<1>. SUFFICES ASSUME TcpInv, [Next]_vars PROVE TcpInv'
  OBVIOUS
<1>1. CASE Accept
  BY <1>1, AcceptKeepsInv
<1>2. CASE AcceptFails
  BY <1>2, ServerThrowsKeepsInv DEF AcceptFails
<1>3. CASE \E s \in Side : Transfer(s)
  BY <1>3, TransferInv
<1>4. CASE Open
  BY <1>4, OpenKeepsInv
<1>5. CASE OpenFails \/ ConnectFails
  BY <1>5, TerminateKeepsInv DEF OpenFails, ConnectFails
<1>6. CASE Connect
  BY <1>6, ConnectKeepsInv
<1>7. CASE Get
  BY <1>7, GetKeepsInv
<1>8. CASE UNCHANGED vars
  <2>. USE <1>8 DEF vars, threadVars, kernelVars
  <2>1. Typed' /\ Control' /\ EndsOwned'
    BY DEF TcpInv, Typed, Pipes, Control, EndsOwned
  <2>2. Locals' /\ Quiet' /\ EchoedExactly' /\ Orderly'
    BY DEF TcpInv, Locals, Data, Quiet, EchoedExactly, Orderly, Checker, Echoer
  <2>3. \A c \in Conn : Round(c)'
    <3>1. \A s : Rest(s)' = Rest(s)
      BY DEF Rest
    <3>. QED
      BY <3>1 DEF TcpInv, Round
  <2>. QED
    BY <2>1, <2>2, <2>3 DEF TcpInv
<1>. QED
  BY <1>1, <1>2, <1>3, <1>4, <1>5, <1>6, <1>7, <1>8 DEF Next, ServerThread, MainThread, Side

LEMMA TcpInvariant == Spec => []TcpInv
BY InitInv, NextInv, PTL DEF Spec

\* Every variable of the two threads and of the kernel stays in its type: no
\* direction of a connection holds more than the kernel keeps, no buffer of
\* readExact or of echo more than its size, and writeExact never counts past its
\* argument.
THEOREM TcpTyped == Spec => []TcpTypeOK
<1>1. TcpInv => TcpTypeOK
  <2>. SUFFICES ASSUME TcpInv PROVE TcpTypeOK
    OBVIOUS
  <2>1. /\ size \in Sizes /\ pc["server"] \in ServerPlace /\ pc["client"] \in ClientPlace
        /\ reset \subseteq Conn /\ listening \in BOOLEAN /\ failed \in BOOLEAN
    BY DEF TcpInv, Typed
  <2>2. ASSUME NEW s \in Side
        PROVE  /\ fd[s] \in Conn \cup {NoConn} /\ timeout[s] \in BOOLEAN
               /\ Octets(data[s], IF pc[s] = "echoWrite" THEN Buf ELSE size)
               /\ written[s] \in 0..Len(data[s]) /\ Octets(got[s], size)
               /\ result[s] \in {"none", "true", "false"}
    <3>1. fd[s] \in Conn \cup {NoConn} /\ timeout[s] \in BOOLEAN /\ result[s] \in {"none", "true", "false"}
      BY DEF TcpInv, Typed
    <3>2. /\ data[s] \in Seq(1..size) /\ got[s] \in Seq(1..size) /\ written[s] \in 0..Len(data[s])
      BY Types
    <3>3. Len(data[s]) <= size /\ (pc[s] = "echoWrite" => Len(data[s]) <= Buf) /\ Len(got[s]) <= size
      BY DEF TcpInv, Typed
    <3>. QED
      BY <3>1, <3>2, <3>3 DEF Octets
  <2>3. \A c \in Conn : open[c] \subseteq Side /\ \A s \in Side : Octets(stream[c][s], Cap)
    BY Types DEF TcpInv, Typed, Octets
  <2>4. backlog \in Seq(Conn)
    <3>1. <<>> \in Seq(Conn) /\ << 1 >> \in Seq(Conn) /\ << 2 >> \in Seq(Conn)
      BY DEF Conn
    <3>. QED
      BY <3>1 DEF TcpInv, Control
  <2>. QED
    BY <2>1, <2>2, <2>3, <2>4 DEF TcpTypeOK, ServerPlace, ClientPlace
<1>. QED
  BY <1>1, TcpInvariant, PTL

\* Whatever the sizes, however the kernel splits what is written and read, and
\* however the two threads alternate, what readExact returns to check_read_write
\* is what writeExact sent: the comparison never fails.
THEOREM EchoIsExact == Spec => []EchoedExactly
<1>1. TcpInv => EchoedExactly
  BY DEF TcpInv
<1>. QED
  BY <1>1, TcpInvariant, PTL

\* Connect, accept, the move assignment, the destructors and the exceptions leave
\* no socket open without an owner and close none that has one.
THEOREM SocketsOwned == Spec => []EndsOwned
<1>1. TcpInv => EndsOwned
  BY DEF TcpInv
<1>. QED
  BY <1>1, TcpInvariant, PTL

\* Unless a call has failed no connection is ever closed with octets left to read
\* or written to after its peer has closed: the program never resets its own
\* connections.
THEOREM NeverResetsItself == Spec => []OrderlyClose
<1>1. TcpInv => OrderlyClose
  BY DEF TcpInv, Orderly, OrderlyClose
<1>. QED
  BY <1>1, TcpInvariant, PTL

-----------------------------------------------------------------------------
(* The two threads never wait for each other. *)

\* write finds room for an octet, or a peer that has gone; read finds an octet or
\* the end of the input.
CanWrite(s) ==
  /\ pc[s] \in {"write", "echoWrite"}
  /\ \/ fd[s] \in reset \/ Peer(s) \notin open[fd[s]]
     \/ Len(stream[fd[s]][Peer(s)]) < Cap
CanRead(s) ==
  /\ pc[s] \in {"read", "echo"}
  /\ stream[fd[s]][s] # <<>> \/ fd[s] \in reset \/ Peer(s) \notin open[fd[s]]

\* The next call of the thread returns.
CanGo(s) ==
  \/ CanWrite(s) \/ CanRead(s) \/ pc[s] = "close"
  \/ s = "server" /\ pc[s] \in {"accept1", "accept2"} /\ backlog # <<>>
  \/ s = "client" /\ pc[s] \in {"start", "connect1", "connect2"}
  \/ s = "client" /\ pc[s] = "get" /\ pc["server"] \in {"done", "failed"}

OneCanGo ==
  Fits /\ ~failed => pc["client"] = "done" \/ \E s \in Side : CanGo(s)

\* What TcpInv does not say: nothing is read before everything is written, the
\* loops of writeExact and readExact have octets left, and the server accepts
\* again before main has connected again or with that connection in the backlog.
Ahead ==
  /\ \A s \in Side :
       /\ pc[s] = "write" => got[s] = <<>> /\ written[s] < size
       /\ pc[s] = "read" => Len(got[s]) < size
  /\ pc["server"] = "accept2" =>
       pc["client"] \in {"echo", "echoWrite", "connect2"} \/ backlog = << 2 >>

LEMMA AheadTransfer ==
  ASSUME TcpInv, Ahead, NEW s \in Side, Transfer(s)
  PROVE  Ahead'
<1>0. pc \in [Side -> ServerPlace \cup ClientPlace] /\ got \in [Side -> Seq(1..size)]
      /\ written \in [Side -> Nat]
  BY DEF TcpInv, Typed
<1>1. size \in Nat \ {0}
  BY TcpAssumption DEF TcpInv, Typed
<1>2. CASE Write(s)
  <2>1. PICK n \in 1..(Len(data[s]) - written[s]) :
          /\ written' = [written EXCEPT ![s] = @ + n]
          /\ IF written[s] + n < Len(data[s]) THEN UNCHANGED pc
             ELSE Goes(s, IF pc[s] = "write" THEN "read" ELSE "echo")
    BY <1>2 DEF Write
  <2>2. got' = got /\ size' = size /\ backlog' = backlog /\ pc[s] \in {"write", "echoWrite"}
    BY <1>2 DEF Write
  <2>3. written'[s] = written[s] + n /\ \A t \in Side : t # s => written'[t] = written[t]
    BY <1>0, <2>1
  <2>4. \A t \in Side : t # s => pc'[t] = pc[t]
    BY <1>0, <2>1 DEF Goes
  <2>5. /\ pc'[s] = "write" => pc[s] = "write" /\ written'[s] < size
        /\ pc'[s] = "read" => pc[s] = "write"
        /\ pc'[s] \in {"write", "read"} \/ (pc'[s] \in {"echo", "echoWrite"} /\ pc[s] = "echoWrite")
    <3>1. pc[s] = "write" => Len(data[s]) = size
      <4>1. pc[s] = "write" => data[s] = Data
        BY DEF TcpInv, Locals
      <4>. QED
        BY <1>1, <4>1, DataFacts
    <3>2. CASE written[s] + n < Len(data[s])
      BY <2>1, <2>2, <2>3, <3>1, <3>2
    <3>3. CASE ~(written[s] + n < Len(data[s]))
      <4>1. pc'[s] = IF pc[s] = "write" THEN "read" ELSE "echo"
        BY <1>0, <2>1, <3>3 DEF Goes
      <4>. QED
        BY <2>2, <4>1
    <3>. QED
      BY <3>2, <3>3
  <2>6. Len(<<>>) = 0 /\ 0 < size
    BY <1>1
  <2>7. ASSUME NEW t \in Side
        PROVE  /\ pc'[t] = "write" => got'[t] = <<>> /\ written'[t] < size'
               /\ pc'[t] = "read" => Len(got'[t]) < size'
    <3>1. CASE t = s
      BY <3>1, <2>2, <2>5, <2>6 DEF Ahead
    <3>2. CASE t # s
      BY <3>2, <2>2, <2>3, <2>4 DEF Ahead
    <3>. QED
      BY <3>1, <3>2
  <2>8. ASSUME pc'["server"] = "accept2"
        PROVE  pc'["client"] \in {"echo", "echoWrite", "connect2"} \/ backlog' = << 2 >>
    <3>1. s = "client" /\ pc["server"] = "accept2"
      BY <2>4, <2>5, <2>8 DEF Side
    <3>2. pc["client"] \in {"echo", "echoWrite", "connect2"} \/ backlog = << 2 >>
      BY <3>1 DEF Ahead
    <3>. QED
      BY <2>2, <2>5, <3>1, <3>2
  <2>. QED
    BY <2>7, <2>8 DEF Ahead
<1>3. CASE WriteTimesOut(s) \/ WriteBroken(s) \/ ReadExactEnds(s) \/ EchoReset(s)
  <2>1. Terminate \/ (s = "server" /\ ServerThrows)
    BY <1>3 DEF WriteTimesOut, WriteBroken, ReadExactEnds, EchoReset, Throws, Side
  <2>2. CASE Terminate
    BY <2>2 DEF Terminate, Ahead, Side
  <2>3. CASE ServerThrows
    BY <1>0, <2>3 DEF ServerThrows, Goes, Ahead, Side
  <2>. QED
    BY <2>1, <2>2, <2>3
<1>4. CASE ReadExact(s)
  <2>1. /\ pc[s] = "read" /\ size' = size /\ written' = written /\ backlog' = backlog
        /\ \A t \in Side : t # s => got'[t] = got[t]
    BY <1>0, <1>4 DEF ReadExact
  <2>2. \/ Len(got'[s]) < size /\ pc' = pc
        \/ pc' = [pc EXCEPT ![s] = "close"]
    BY <1>4 DEF ReadExact, Goes
  <2>3. /\ \A t \in Side : t # s => pc'[t] = pc[t]
        /\ pc'[s] = "close" \/ (pc'[s] = "read" /\ Len(got'[s]) < size)
    BY <1>0, <2>1, <2>2
  <2>4. ASSUME NEW t \in Side
        PROVE  /\ pc'[t] = "write" => got'[t] = <<>> /\ written'[t] < size'
               /\ pc'[t] = "read" => Len(got'[t]) < size'
    <3>1. CASE t = s
      BY <3>1, <2>1, <2>3
    <3>2. CASE t # s
      BY <3>2, <2>1, <2>3 DEF Ahead
    <3>. QED
      BY <3>1, <3>2
  <2>5. ASSUME pc'["server"] = "accept2"
        PROVE  backlog' = << 2 >> \/ pc'["client"] \in {"echo", "echoWrite", "connect2"}
    <3>1. s = "client" /\ pc["server"] = "accept2"
      BY <2>3, <2>5 DEF Side
    <3>. QED
      BY <2>1, <3>1 DEF Ahead
  <2>. QED
    BY <2>4, <2>5 DEF Ahead
<1>5. CASE EchoRead(s)
  BY <1>0, <1>5 DEF EchoRead, AfterEcho, Goes, Ahead, Side
<1>6. CASE EchoEnds(s)
  BY <1>0, <1>6 DEF EchoEnds, Goes, Ahead, Side
<1>7. CASE Close(s)
  <2>1. /\ pc[s] = "close" /\ Goes(s, IF s = "server" THEN "accept2" ELSE "get")
        /\ UNCHANGED <<size, written, got, backlog>>
    BY <1>7 DEF Close
  <2>2. s = "server" => pc["client"] \in Echoing
    BY <2>1 DEF TcpInv, Control, Checking
  <2>. QED
    BY <1>0, <2>1, <2>2 DEF Goes, Ahead, Side, Echoing
<1>. QED
  BY <1>2, <1>3, <1>4, <1>5, <1>6, <1>7 DEF Transfer

LEMMA AheadNext == TcpInv /\ Ahead /\ [Next]_vars => Ahead'
<1>. SUFFICES ASSUME TcpInv, Ahead, [Next]_vars PROVE Ahead'
  OBVIOUS
<1>0. pc \in [Side -> ServerPlace \cup ClientPlace] /\ got \in [Side -> Seq(1..size)]
      /\ written \in [Side -> Nat]
  BY DEF TcpInv, Typed
<1>1. size \in Nat \ {0}
  BY TcpAssumption DEF TcpInv, Typed
<1>2. CASE Accept
  BY <1>0, <1>1, <1>2 DEF Accept, Starts, Goes, Ahead, Side
<1>3. CASE AcceptFails
  BY <1>0, <1>3 DEF AcceptFails, ServerThrows, Goes, Ahead, Side
<1>4. CASE \E s \in Side : Transfer(s)
  BY <1>4, AheadTransfer
<1>5. CASE Open
  BY <1>0, <1>5 DEF Open, Ahead, Side
<1>6. CASE OpenFails \/ ConnectFails
  BY <1>6 DEF OpenFails, ConnectFails, Terminate, Ahead, Side
<1>7. CASE Connect
  <2>1. /\ pc["client"] \in {"connect1", "connect2"} /\ size' = size
        /\ Starts("client", IF pc["client"] = "connect1" THEN "echo" ELSE "write")
        /\ backlog' = Append(backlog, IF pc["client"] = "connect1" THEN 1 ELSE 2)
    BY <1>7 DEF Connect
  <2>2. backlog = <<>> /\ (pc["client"] = "connect1" => pc["server"] # "accept2")
    BY <2>1 DEF TcpInv, Control, Checking
  <2>3. pc["client"] = "connect2" => backlog' = << 2 >>
    BY <2>1, <2>2
  <2>4. /\ pc'["client"] = IF pc["client"] = "connect1" THEN "echo" ELSE "write"
        /\ pc'["server"] = pc["server"] /\ got'["server"] = got["server"]
        /\ written'["server"] = written["server"]
        /\ got'["client"] = <<>> /\ written'["client"] = 0
    BY <1>0, <2>1 DEF Starts, Goes, Side
  <2>. QED
    BY <1>1, <2>1, <2>2, <2>3, <2>4 DEF Ahead, Side
<1>8. CASE Get
  <2>1. CASE Terminate
    BY <2>1 DEF Terminate, Ahead, Side
  <2>2. CASE pc["server"] # "failed" /\ Goes("client", "done") /\ UNCHANGED <<size, written, got>>
    BY <1>0, <1>8, <2>2 DEF Get, Goes, Ahead, Side
  <2>. QED
    BY <1>8, <2>1, <2>2 DEF Get
<1>9. CASE UNCHANGED vars
  BY <1>9 DEF vars, threadVars, kernelVars, Ahead
<1>. QED
  BY <1>2, <1>3, <1>4, <1>5, <1>6, <1>7, <1>8, <1>9 DEF Next, ServerThread, MainThread, Side

\* While a connection is checked at one end and echoed at the other, not both
\* ends wait: with both directions full there are more octets than were sent,
\* with both empty every octet has come back.
LEMMA RoundGoesOn ==
  ASSUME TcpInv, Ahead, Fits, NEW c \in Conn,
         fd[Checker(c)] = c, fd[Echoer(c)] = c, pc[Echoer(c)] \in Echoing
  PROVE  CanGo(Checker(c)) \/ CanGo(Echoer(c))
<1>. DEFINE k == Checker(c)
            e == Echoer(c)
            g == got[k]
            b == stream[c][k]
            f == stream[c][e]
<1>1. k \in Side /\ e \in Side /\ Peer(k) = e /\ Peer(e) = k
  BY Roles
<1>2. e \in open[c]
  BY <1>1, OpenEnds
<1>3. Chain(g, b, Rest(e), f, written[k])
  BY <1>2 DEF TcpInv, Round
<1>4. pc[k] \in Checking /\ pc[e] \in Echoing
  BY ChecksThere
<1>5. PICK i \in Nat, j \in Nat, r \in Nat, l \in Nat :
        i = Len(g) /\ j = Len(b) /\ r = Len(Rest(e)) /\ l = Len(f)
  <2>1. Len(g) \in Nat /\ Len(b) \in Nat /\ Len(f) \in Nat
    BY <1>1, Types
  <2>2. Len(Rest(e)) \in Nat
    BY <1>1, RestType, LenProperties
  <2>. QED
    BY <2>1, <2>2
<1>6. i + j + r + l = written[k]
  BY <1>3, <1>5 DEF Chain
<1>7. size \in Nat /\ Cap \in Nat \ {0} /\ size <= 2 * Cap + 1
  BY Types, TcpAssumption DEF Fits
<1>8. /\ b \in Seq(1..size) /\ f \in Seq(1..size)
      /\ j # 0 => b # <<>>
      /\ l # 0 => f # <<>>
  BY <1>1, <1>5, Types
<1>9. pc[e] = "echoWrite" => r > 0
  <2>1. pc[e] = "echoWrite" => written[e] < Len(data[e]) /\ Len(Rest(e)) = Len(data[e]) - written[e]
    BY <1>1, RestType DEF TcpInv, Locals
  <2>2. written[e] \in Nat /\ Len(data[e]) \in Nat
    BY <1>1, Types
  <2>. QED
    BY <1>5, <2>1, <2>2
<1>10. pc[e] = "echo" => r = 0
  BY <1>5 DEF Rest
<1>11. /\ pc[k] = "write" => i = 0 /\ written[k] < size
       /\ pc[k] = "read" => i < size /\ written[k] = size
  <2>1. pc[k] = "write" => Len(g) = 0
    BY <1>1 DEF Ahead
  <2>. QED
    BY <1>1, <1>5, <2>1 DEF Ahead, TcpInv, Locals
<1>12. /\ pc[k] = "write" /\ l < Cap => CanGo(k)
       /\ pc[k] = "read" /\ j # 0 => CanGo(k)
       /\ pc[k] = "close" => CanGo(k)
  BY <1>1, <1>5, <1>8 DEF CanGo, CanWrite, CanRead
<1>13. /\ pc[e] = "echo" /\ l # 0 => CanGo(e)
       /\ pc[e] = "echoWrite" /\ j < Cap => CanGo(e)
  BY <1>1, <1>5, <1>8 DEF CanGo, CanWrite, CanRead
<1>14. CASE pc[k] = "write" /\ pc[e] = "echo"
  <2>1. l < Cap \/ l # 0
    BY <1>7
  <2>. QED
    BY <1>12, <1>13, <1>14, <2>1
<1>15. CASE pc[k] = "write" /\ pc[e] = "echoWrite"
  <2>1. l < Cap \/ j < Cap
    <3>. SUFFICES ASSUME l >= Cap, j >= Cap PROVE FALSE
      BY <1>7
    <3>1. written[k] >= 2 * Cap + 1
      BY <1>6, <1>7, <1>9, <1>15
    <3>2. written[k] < size /\ written[k] \in Nat
      BY <1>1, <1>11, <1>15, Types
    <3>. QED
      BY <1>7, <3>1, <3>2
  <2>. QED
    BY <1>12, <1>13, <1>15, <2>1
<1>16. CASE pc[k] = "read" /\ pc[e] = "echo"
  <2>1. j # 0 \/ l # 0
    BY <1>6, <1>10, <1>11, <1>16
  <2>. QED
    BY <1>12, <1>13, <1>16, <2>1
<1>17. CASE pc[k] = "read" /\ pc[e] = "echoWrite"
  <2>1. j # 0 \/ j < Cap
    BY <1>7
  <2>. QED
    BY <1>12, <1>13, <1>17, <2>1
<1>18. CASE pc[k] = "close"
  BY <1>12, <1>18
<1>. QED
  BY <1>4, <1>14, <1>15, <1>16, <1>17, <1>18 DEF Checking, Echoing

\* A side that echoes to one that has gone finds the end of the input, or may
\* write without room.
LEMMA EchoesToNobody ==
  ASSUME NEW s \in Side, pc[s] \in Echoing, Peer(s) \notin open[fd[s]]
  PROVE  CanGo(s)
BY DEF CanGo, CanWrite, CanRead, Echoing

LEMMA OneGoesOn == TcpInv /\ Ahead => OneCanGo
<1>. SUFFICES ASSUME TcpInv, Ahead, Fits, ~failed, pc["client"] # "done"
              PROVE  CanGo("server") \/ CanGo("client")
  BY DEF OneCanGo, Side
<1>1. Control /\ Owned /\ 1 \in Conn /\ 2 \in Conn
  BY OpenEnds DEF TcpInv, Conn
<1>2. /\ pc["server"] \in ServerPlace \ {"failed", "terminated"}
      /\ pc["client"] \in ClientPlace \ {"terminated"}
  BY DEF TcpInv, Typed, Orderly, Side
<1>3. "client" \in open[2] => "server" \in open[2]
  BY <1>1, Roles DEF TcpInv, Orderly, Checker, Echoer, Peer
<1>4. CASE pc["client"] \in {"start", "connect1", "connect2", "close"}
  BY <1>4 DEF CanGo
<1>5. CASE pc["client"] \in Echoing
  <2>1. fd["client"] = 1
    BY <1>1, <1>5 DEF Control
  <2>2. CASE pc["server"] = "accept1"
    <3>1. backlog = << 1 >>
      BY <1>1, <1>5, <2>2 DEF Control, Echoing
    <3>2. backlog # <<>>
      BY <3>1
    <3>. QED
      BY <2>2, <3>2 DEF CanGo
  <2>3. CASE pc["server"] \in Checking
    <3>1. fd["server"] = 1
      BY <1>1, <2>3 DEF Control
    <3>. QED
      BY <1>1, <1>5, <2>1, <3>1, RoundGoesOn DEF Checker, Echoer, Peer
  <2>4. CASE pc["server"] = "accept2"
    <3>1. fd["server"] = NoConn /\ backlog # << 1 >>
      BY <1>1, <2>4 DEF Control, Checking, Echoing
    <3>2. "server" \notin open[1]
      BY <1>1, <3>1 DEF Owned, NoConn
    <3>. QED
      BY <1>5, <2>1, <3>2, EchoesToNobody DEF Side, Peer
  <2>5. pc["server"] \notin Echoing \cup {"start", "done"}
    BY <1>1, <1>5 DEF Control, Checking, Echoing
  <2>. QED
    BY <1>2, <2>2, <2>3, <2>4, <2>5 DEF ServerPlace, Checking, Echoing
<1>6. CASE pc["client"] \in {"write", "read"}
  <2>1. fd["client"] = 2 /\ "client" \in open[2]
    BY <1>1, <1>6 DEF Control, Owned, Checking
  <2>2. fd["server"] = 2 \/ backlog = << 2 >>
    BY <1>1, <1>3, <2>1 DEF Owned
  <2>3. CASE backlog = << 2 >>
    <3>1. pc["server"] = "accept2"
      BY <1>1, <1>2, <2>3 DEF Control
    <3>2. backlog # <<>>
      BY <2>3
    <3>. QED
      BY <3>1, <3>2 DEF CanGo
  <2>4. CASE fd["server"] = 2
    <3>1. pc["server"] \in Echoing
      BY <1>1, <2>4 DEF Control, NoConn, Checking, Echoing
    <3>. QED
      BY <1>1, <2>1, <2>4, <3>1, RoundGoesOn DEF Checker, Echoer, Peer
  <2>. QED
    BY <2>2, <2>3, <2>4
<1>7. CASE pc["client"] = "get"
  <2>1. "client" \notin open[2]
    BY <1>1, <1>7 DEF Control, Owned, NoConn, Checking, Echoing
  <2>2. CASE pc["server"] = "done"
    BY <1>7, <2>2 DEF CanGo
  <2>3. CASE pc["server"] = "accept2"
    <3>1. backlog # <<>>
      BY <1>7, <2>3 DEF Ahead
    <3>. QED
      BY <2>3, <3>1 DEF CanGo
  <2>4. CASE pc["server"] \in Echoing
    <3>1. fd["server"] = 2
      BY <1>1, <2>4 DEF Control
    <3>. QED
      BY <2>1, <2>4, <3>1, EchoesToNobody DEF Side, Peer
  <2>5. pc["server"] \notin Checking \cup {"start", "accept1"}
    BY <1>1, <1>7 DEF Control, Echoing
  <2>. QED
    BY <1>2, <2>2, <2>3, <2>4, <2>5 DEF ServerPlace, Checking, Echoing
<1>. QED
  BY <1>2, <1>4, <1>5, <1>6, <1>7 DEF ClientPlace, Echoing

\* check_read_write writes all of its data before it reads any of it.  Whatever
\* the sizes, as long as the data fits into the two directions of the connection
\* and one octet of echo's buffer and no call has failed, the two threads never
\* wait for each other: until main returns, the next call of one of them does.
THEOREM NeverBothWait == Spec => []OneCanGo
<1>1. Init => Ahead
  BY DEF Init, Ahead, Side
<1>2. Spec => [](TcpInv /\ Ahead)
  BY <1>1, InitInv, NextInv, AheadNext, PTL DEF Spec
<1>. QED
  BY <1>2, OneGoesOn, PTL

=============================================================================
