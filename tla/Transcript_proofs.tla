-------------------------- MODULE Transcript_proofs --------------------------
(***************************************************************************)
(* What holds of the stored responses for every number of processes and    *)
(* responses, every limit and every size of the buffer and the queue: that  *)
(* what is said of a text is true of it, that a text without its final form *)
(* is a prefix of what was shown, and that no writer touches a response     *)
(* that is no longer active.                                               *)
(***************************************************************************)
EXTENDS Transcript, Lists_proofs

(* The bytes after a, up to b; and those of an authoritative text.           *)
Bytes(a, b) == [k \in 1 .. (b - a) |-> a + k]
Zeros(n) == [k \in 1 .. n |-> 0]

States == {"none", "ACTIVE", "PARTIAL", "INTERRUPTED", "COMPLETED", "TRUNCATED", "FAILED"}
RowType == [state : States, retained : Nat, total : Nat, dropped : Nat]
ItemType == [kind : {"none", "flush", "stop"}, text : Seq(Nat)]

(* Where a main thread has a turn, and where it has none.                    *)
AtRest == {"idle", "openprune"}
InTurn == {"stream", "put", "flushput", "flushwait", "stopput", "stopwait",
           "replace", "prune", "abort"}

TypeDb ==
  schema \in BOOLEAN /\ rows \in [Turns -> RowType] /\ chunks \in [Turns -> Seq(Nat)]

TypeProc ==
  /\ store \in [Procs -> BOOLEAN] /\ foreign_keys \in [Procs -> BOOLEAN]
  /\ pc \in [Procs -> AtRest \cup InTurn] /\ turn \in [Procs -> 0 .. MaxTurns]
  /\ item \in [Procs -> ItemType] /\ canonical \in [Procs -> Seq(Nat)]

TypeSink ==
  /\ owner \in [Turns -> Procs \cup {Nobody}] /\ buffer \in [Turns -> Seq(Nat)]
  /\ flush_queue \in [Turns -> Seq(ItemType)] /\ writing \in [Turns -> ItemType]
  /\ writer_error \in [Turns -> BOOLEAN]
  /\ writer \in [Turns -> {"none", "runs", "stopped"}]

TypeHist ==
  /\ started \in 0 .. MaxTurns /\ streamed \in [Turns -> 0 .. MaxBytes]
  /\ crashes \in 0 .. MaxCrashes /\ clears \in 0 .. MaxClears /\ unpruned \in BOOLEAN

Types == TypeDb /\ TypeProc /\ TypeSink /\ TypeHist

(* Buffers and queues keep their limits, and a turn needs an open store.     *)
Limits ==
  /\ \A t \in Turns : Len(buffer[t]) < FlushBytes /\ Len(flush_queue[t]) <= PendingFlushes
  /\ \A p \in Procs : pc[p] # "idle" => store[p]

(* A turn that has not begun has left no trace, and a turn that a process is *)
(* in is its own.                                                            *)
Unborn ==
  \A t \in Turns : t > started =>
    /\ rows[t] = NoRow /\ chunks[t] = <<>> /\ streamed[t] = 0
    /\ buffer[t] = <<>> /\ flush_queue[t] = <<>> /\ writing[t] = NoItem
    /\ writer_error[t] = FALSE

Owned ==
  \A p \in Procs : /\ pc[p] \in AtRest => turn[p] = 0
                   /\ pc[p] \in InTurn => turn[p] \in 1 .. started /\ owner[turn[p]] = p

(* What is said of a text.                                                   *)
Sums(t) ==
  rows[t].state # "none" =>
    /\ rows[t].retained = Len(chunks[t]) /\ rows[t].retained <= MaxResponse
    /\ rows[t].total = rows[t].retained + rows[t].dropped
    /\ rows[t].state = "COMPLETED" => rows[t].dropped = 0

(* In a database that was there before every connection cascades.            *)
Cascades ==
  ~Fresh => /\ schema /\ \A p \in Procs : store[p] => foreign_keys[p]
            /\ NoOrphans

(* What a text may be: one that replaced the streamed text, or a prefix of   *)
(* what has been streamed.                                                   *)
FromStream(text, n) == text = Bytes(0, Len(text)) /\ Len(text) <= n

Kept(t) ==
  rows[t].state # "none" =>
    \/ chunks[t] = Zeros(Len(chunks[t])) /\ rows[t].total <= MaxBytes
    \/ FromStream(chunks[t], streamed[t]) /\ rows[t].total <= streamed[t]

Canonical ==
  \A p \in Procs :
    \/ canonical[p] = Zeros(Len(canonical[p])) /\ Len(canonical[p]) <= MaxBytes
    \/ turn[p] \in Turns /\ FromStream(canonical[p], streamed[turn[p]])

(* The items of a queue are the bytes from one position to another, without  *)
(* a gap and in order.                                                       *)
Queued(q, from, to) ==
  \E pos \in [0 .. Len(q) -> 0 .. MaxBytes] :
    /\ pos[0] = from /\ pos[Len(q)] = to
    /\ \A i, j \in 0 .. Len(q) : i <= j => pos[i] <= pos[j]
    /\ \A i \in 1 .. Len(q) : q[i].text = Bytes(pos[i - 1], pos[i])

(* What a main thread has not put into the queue yet.                        *)
Pending(p, from) ==
  LET t == turn[p] IN
  /\ pc[p] = "stream" => buffer[t] = Bytes(from, streamed[t])
  /\ pc[p] \in {"put", "flushput"} =>
       \E to \in from .. streamed[t] : /\ item[p].text = Bytes(from, to)
                                       /\ buffer[t] = Bytes(to, streamed[t])
  /\ pc[p] = "stopput" => item[p].text = <<>>

(* What the writer may still add to an active row is what follows in it.     *)
Writes(t) == rows[t].state = "ACTIVE" /\ ~writer_error[t] /\ writer[t] = "runs"

Cut(n) == IF n <= MaxResponse THEN n ELSE MaxResponse

Told(t) ==
  chunks[t] = Bytes(0, rows[t].retained) /\ rows[t].retained = Cut(rows[t].total)

Parts(t, a, b) ==
  /\ rows[t].total <= a /\ a <= b
  /\ writing[t].text = Bytes(rows[t].total, a)
  /\ Queued(flush_queue[t], a, b)
  /\ \A p \in Procs : turn[p] = t => Pending(p, b)

Flow(t) ==
  Writes(t) => Told(t) /\ \E a, b \in 0 .. streamed[t] : Parts(t, a, b)

StoreInv ==
  /\ Types /\ Limits /\ Unborn /\ Owned /\ Cascades /\ Canonical
  /\ \A t \in Turns : Sums(t) /\ Kept(t) /\ Flow(t)
------------------------------------------------------------------------------
(* Texts.                                                                    *)

LEMMA BytesAre ==
  ASSUME NEW a \in Nat, NEW b \in Nat, a <= b
  PROVE  /\ Bytes(a, b) \in Seq(Nat) /\ Len(Bytes(a, b)) = b - a
         /\ \A k \in 1 .. (b - a) : Bytes(a, b)[k] = a + k
         /\ Bytes(a, b) = <<>> <=> a = b
<1>1. b - a \in Nat /\ \A k \in 1 .. (b - a) : a + k \in Nat
  OBVIOUS
<1>2. Bytes(a, b) \in Seq(Nat) /\ Len(Bytes(a, b)) = b - a
  BY <1>1 DEF Bytes
<1>3. Bytes(a, b) = <<>> <=> Len(Bytes(a, b)) = 0
  BY <1>2, EmptySeq
<1> QED BY <1>1, <1>2, <1>3 DEF Bytes

LEMMA NoBytes ==
  ASSUME NEW a \in Nat
  PROVE  Bytes(a, a) = <<>>
BY BytesAre

LEMMA BytesAppend ==
  ASSUME NEW a \in Nat, NEW b \in Nat, a <= b
  PROVE  Append(Bytes(a, b), b + 1) = Bytes(a, b + 1)
<1>1. /\ Bytes(a, b) \in Seq(Nat) /\ Len(Bytes(a, b)) = b - a
      /\ \A k \in 1 .. (b - a) : Bytes(a, b)[k] = a + k
  BY BytesAre
<1>2. /\ Bytes(a, b + 1) \in Seq(Nat) /\ Len(Bytes(a, b + 1)) = b + 1 - a
      /\ \A k \in 1 .. (b + 1 - a) : Bytes(a, b + 1)[k] = a + k
  BY BytesAre
<1>3. /\ Append(Bytes(a, b), b + 1) \in Seq(Nat)
      /\ Len(Append(Bytes(a, b), b + 1)) = b - a + 1
      /\ \A k \in 1 .. (b - a) : Append(Bytes(a, b), b + 1)[k] = Bytes(a, b)[k]
      /\ Append(Bytes(a, b), b + 1)[b - a + 1] = b + 1
  BY <1>1, AppendProperties
<1>4. \A k \in 1 .. (b + 1 - a) : Append(Bytes(a, b), b + 1)[k] = a + k
  <2>1. ASSUME NEW k \in 1 .. (b + 1 - a)
        PROVE  Append(Bytes(a, b), b + 1)[k] = a + k
    <3>1. CASE k \in 1 .. (b - a)
      BY <1>1, <1>3, <3>1
    <3>2. CASE k = b - a + 1
      BY <1>3, <3>2
    <3>3. k \in 1 .. (b - a) \/ k = b - a + 1
      OBVIOUS
    <3> QED BY <3>1, <3>2, <3>3
  <2> QED BY <2>1
<1>5. Len(Append(Bytes(a, b), b + 1)) = Len(Bytes(a, b + 1))
  BY <1>2, <1>3
<1>6. \A k \in 1 .. Len(Append(Bytes(a, b), b + 1)) :
        Append(Bytes(a, b), b + 1)[k] = Bytes(a, b + 1)[k]
  BY SMTT(30), <1>2, <1>3, <1>4
<1> QED BY <1>2, <1>3, <1>5, <1>6, SeqEqual

LEMMA BytesConcat ==
  ASSUME NEW a \in Nat, NEW b \in Nat, NEW c \in Nat, a <= b, b <= c
  PROVE  Bytes(a, b) \o Bytes(b, c) = Bytes(a, c)
<1> DEFINE s == Bytes(a, b) \o Bytes(b, c)
<1>1. /\ Bytes(a, b) \in Seq(Nat) /\ Len(Bytes(a, b)) = b - a
      /\ \A k \in 1 .. (b - a) : Bytes(a, b)[k] = a + k
  BY BytesAre
<1>2. /\ Bytes(b, c) \in Seq(Nat) /\ Len(Bytes(b, c)) = c - b
      /\ \A k \in 1 .. (c - b) : Bytes(b, c)[k] = b + k
  BY BytesAre
<1>3. /\ Bytes(a, c) \in Seq(Nat) /\ Len(Bytes(a, c)) = c - a
      /\ \A k \in 1 .. (c - a) : Bytes(a, c)[k] = a + k
  BY BytesAre
<1>4. /\ s \in Seq(Nat) /\ Len(s) = (b - a) + (c - b)
      /\ \A k \in 1 .. (b - a) + (c - b) :
           s[k] = IF k <= b - a THEN Bytes(a, b)[k] ELSE Bytes(b, c)[k - (b - a)]
  <2>1. PICK x : x = Bytes(a, b)
    OBVIOUS
  <2>2. PICK y : y = Bytes(b, c)
    OBVIOUS
  <2>3. x \in Seq(Nat) /\ y \in Seq(Nat) /\ Len(x) = b - a /\ Len(y) = c - b
    BY <1>1, <1>2, <2>1, <2>2
  <2>4. /\ x \o y \in Seq(Nat) /\ Len(x \o y) = Len(x) + Len(y)
        /\ \A k \in 1 .. Len(x) + Len(y) :
             (x \o y)[k] = IF k <= Len(x) THEN x[k] ELSE y[k - Len(x)]
    BY <2>3, ConcatProperties
  <2> QED BY <2>1, <2>2, <2>3, <2>4
<1>5. ASSUME NEW k \in 1 .. (c - a)
      PROVE  s[k] = a + k
  <2>1. CASE k <= b - a
    BY <1>1, <1>4, <2>1
  <2>2. CASE ~(k <= b - a)
    <3>1. k - (b - a) \in 1 .. (c - b)
      BY <2>2
    <3>2. Bytes(b, c)[k - (b - a)] = b + (k - (b - a))
      BY <1>2, <3>1
    <3> QED BY <1>4, <2>2, <3>2
  <2> QED BY <2>1, <2>2
<1> HIDE DEF s
<1>6. Len(s) = Len(Bytes(a, c)) /\ \A k \in 1 .. Len(s) : s[k] = Bytes(a, c)[k]
  BY <1>3, <1>4, <1>5
<1>7. s = Bytes(a, c)
  BY <1>3, <1>4, <1>6, SeqEqual
<1> QED BY <1>7 DEF s

LEMMA PrefixIs ==
  ASSUME NEW text \in Seq(Nat), NEW n \in Nat
  PROVE  LET p == Prefix(text, n)
         IN /\ p \in Seq(Nat) /\ Len(p) = IF Len(text) < n THEN Len(text) ELSE n
            /\ \A k \in 1 .. Len(p) : p[k] = text[k]
<1> DEFINE m == IF Len(text) < n THEN Len(text) ELSE n
<1>1. m \in Nat /\ m <= Len(text)
  BY LenProperties
<1>2. \A i \in 1 .. m : text[i] \in Nat
  BY <1>1, LenProperties
<1>3. /\ SubSeq(text, 1, m) \in Seq(Nat)
      /\ Len(SubSeq(text, 1, m)) = IF 1 <= m THEN m - 1 + 1 ELSE 0
      /\ \A i \in 1 .. m - 1 + 1 : SubSeq(text, 1, m)[i] = text[1 + i - 1]
  <2> HIDE DEF m
  <2> QED BY <1>1, <1>2, SubSeqProperties
<1>4. Prefix(text, n) = SubSeq(text, 1, m)
  BY DEF Prefix
<1>5. Len(SubSeq(text, 1, m)) = m
  BY <1>1, <1>3
<1>6. \A i \in 1 .. m : SubSeq(text, 1, m)[i] = text[i]
  <2> HIDE DEF m
  <2> QED BY <1>1, <1>3
<1> QED BY <1>3, <1>4, <1>5, <1>6

LEMMA BytesPrefix ==
  ASSUME NEW a \in Nat, NEW b \in Nat, a <= b, NEW n \in Nat
  PROVE  Prefix(Bytes(a, b), n) = Bytes(a, IF b - a < n THEN b ELSE a + n)
<1>1. /\ Bytes(a, b) \in Seq(Nat) /\ Len(Bytes(a, b)) = b - a
      /\ \A k \in 1 .. (b - a) : Bytes(a, b)[k] = a + k
  BY BytesAre
<1>2. PICK c : c = IF b - a < n THEN b ELSE a + n
  OBVIOUS
<1>3. c \in Nat /\ a <= c /\ c <= b /\ c - a = IF b - a < n THEN b - a ELSE n
  BY <1>2
<1>4. /\ Bytes(a, c) \in Seq(Nat) /\ Len(Bytes(a, c)) = c - a
      /\ \A k \in 1 .. (c - a) : Bytes(a, c)[k] = a + k
  BY <1>3, BytesAre
<1>5. PICK p : p = Prefix(Bytes(a, b), n)
  OBVIOUS
<1>6. /\ p \in Seq(Nat) /\ Len(p) = IF Len(Bytes(a, b)) < n THEN Len(Bytes(a, b)) ELSE n
      /\ \A k \in 1 .. Len(p) : p[k] = Bytes(a, b)[k]
  BY <1>1, <1>5, PrefixIs
<1>7. Len(p) = c - a
  BY <1>1, <1>3, <1>6
<1>8. \A k \in 1 .. Len(p) : p[k] = Bytes(a, c)[k]
  BY <1>1, <1>3, <1>4, <1>6, <1>7
<1>9. p = Bytes(a, c)
  BY <1>4, <1>6, <1>7, <1>8, SeqEqual
<1> QED BY <1>2, <1>5, <1>9

LEMMA ZerosAre ==
  ASSUME NEW n \in Nat
  PROVE  /\ Zeros(n) \in Seq(Nat) /\ Len(Zeros(n)) = n
         /\ \A k \in 1 .. n : Zeros(n)[k] = 0
<1>1. Zeros(n) \in Seq(Nat) /\ Len(Zeros(n)) = n
  BY DEF Zeros
<1> QED BY <1>1 DEF Zeros

LEMMA ZerosPrefix ==
  ASSUME NEW text \in Seq(Nat), text = Zeros(Len(text)), NEW n \in Nat
  PROVE  Prefix(text, n) = Zeros(Len(Prefix(text, n)))
<1>1. Len(text) \in Nat
  BY LenProperties
<1>2. PICK p : p = Prefix(text, n)
  OBVIOUS
<1>3. /\ p \in Seq(Nat) /\ Len(p) = IF Len(text) < n THEN Len(text) ELSE n
      /\ \A k \in 1 .. Len(p) : p[k] = text[k]
  BY <1>2, PrefixIs
<1>4. Len(p) \in Nat /\ Len(p) <= Len(text)
  BY <1>1, <1>3
<1>5. \A k \in 1 .. Len(p) : p[k] = 0
  <2>1. \A k \in 1 .. Len(text) : text[k] = 0
    BY <1>1, ZerosAre
  <2> QED BY <1>1, <1>3, <1>4, <2>1
<1>6. p = Zeros(Len(p))
  BY <1>3, <1>4, <1>5, ZerosAre, SeqEqual
<1> QED BY <1>2, <1>6

(* The text of a turn that streamed, and a prefix of it.                     *)
LEMMA StreamPrefix ==
  ASSUME NEW text \in Seq(Nat), NEW n \in Nat, FromStream(text, n), NEW m \in Nat
  PROVE  FromStream(Prefix(text, m), n)
<1>1. Len(text) \in Nat /\ text = Bytes(0, Len(text)) /\ Len(text) <= n
  BY LenProperties DEF FromStream
<1>2. PICK c : c = IF Len(text) - 0 < m THEN Len(text) ELSE 0 + m
  OBVIOUS
<1>3. c \in Nat /\ c <= Len(text)
  BY <1>1, <1>2
<1>4. Prefix(text, m) = Bytes(0, c)
  BY <1>1, <1>2, BytesPrefix
<1>5. Len(Bytes(0, c)) = c
  BY <1>3, BytesAre
<1> QED BY <1>1, <1>3, <1>4, <1>5 DEF FromStream

(* Queues.                                                                   *)
LEMMA EmptyQueued ==
  ASSUME NEW a \in 0 .. MaxBytes
  PROVE  Queued(<<>>, a, a)
<1>1. Len(<<>>) = 0
  OBVIOUS
<1>2. PICK pos : pos = [i \in 0 .. 0 |-> a]
  OBVIOUS
<1>3. /\ pos \in [0 .. 0 -> 0 .. MaxBytes] /\ pos[0] = a
      /\ \A i, j \in 0 .. 0 : pos[i] <= pos[j]
  BY <1>2
<1>4. \A i \in 1 .. 0 : FALSE
  OBVIOUS
<1> QED BY <1>1, <1>3, <1>4 DEF Queued

LEMMA AppendQueued ==
  ASSUME NEW q \in Seq(ItemType), NEW next \in ItemType, NEW a, NEW b \in 0 .. MaxBytes,
         NEW c \in b .. MaxBytes, Queued(q, a, b), next.text = Bytes(b, c)
  PROVE  Queued(Append(q, next), a, c)
<1>1. Len(q) \in Nat /\ MaxBytes \in Nat
  BY LenProperties, TranscriptAssumption
<1>2. PICK pos \in [0 .. Len(q) -> 0 .. MaxBytes] :
        /\ pos[0] = a /\ pos[Len(q)] = b
        /\ \A i, j \in 0 .. Len(q) : i <= j => pos[i] <= pos[j]
        /\ \A i \in 1 .. Len(q) : q[i].text = Bytes(pos[i - 1], pos[i])
  BY DEF Queued
<1>3. PICK n : n = Len(q) + 1
  OBVIOUS
<1>4. n \in Nat /\ n - 1 = Len(q) /\ n > 0
  BY <1>1, <1>3
<1>5. PICK new : new = [i \in 0 .. n |-> IF i = n THEN c ELSE pos[i]]
  OBVIOUS
<1>6. \A i \in 0 .. n : i # n => i \in 0 .. Len(q)
  BY <1>1, <1>3
<1>7. new \in [0 .. n -> 0 .. MaxBytes]
  BY <1>1, <1>2, <1>5, <1>6
<1>8. /\ Append(q, next) \in Seq(ItemType) /\ Len(Append(q, next)) = n
      /\ \A i \in 1 .. Len(q) : Append(q, next)[i] = q[i]
      /\ Append(q, next)[n] = next
  <2> HIDE DEF ItemType
  <2> QED BY <1>3, AppendProperties
<1>9. new[0] = a /\ new[n] = c
  BY <1>1, <1>2, <1>4, <1>5
<1>10. \A i, j \in 0 .. n : i <= j => new[i] <= new[j]
  <2>1. ASSUME NEW i \in 0 .. n, NEW j \in 0 .. n, i <= j
        PROVE  new[i] <= new[j]
    <3>1. CASE j # n
      <4>1. i # n
        BY <1>4, <2>1, <3>1
      <4> QED BY <1>2, <1>5, <1>6, <2>1, <3>1, <4>1
    <3>2. CASE j = n /\ i # n
      <4>1. pos[i] <= pos[Len(q)]
        BY <1>1, <1>2, <1>6, <3>2
      <4>2. new[i] = pos[i] /\ new[j] = c
        BY <1>5, <3>2
      <4>3. pos[i] \in 0 .. MaxBytes
        BY <1>2, <1>6, <3>2
      <4>4. b <= c
        BY <1>1
      <4> QED BY <1>1, <1>2, <4>1, <4>2, <4>3, <4>4
    <3>3. CASE j = n /\ i = n
      BY <1>9, <3>3
    <3> QED BY <3>1, <3>2, <3>3
  <2> QED BY <2>1
<1>11. \A i \in 1 .. n : Append(q, next)[i].text = Bytes(new[i - 1], new[i])
  <2>1. ASSUME NEW i \in 1 .. n
        PROVE  Append(q, next)[i].text = Bytes(new[i - 1], new[i])
    <3>1. i - 1 \in 0 .. n /\ i - 1 # n /\ i \in 0 .. n
      BY <1>4
    <3>2. new[i - 1] = pos[i - 1]
      BY <1>5, <3>1
    <3>3. CASE i # n
      <4>1. i \in 1 .. Len(q) /\ new[i] = pos[i]
        BY <1>4, <1>5, <3>1, <3>3
      <4> QED BY <1>2, <1>8, <3>2, <4>1
    <3>4. CASE i = n
      <4>1. new[i - 1] = b
        BY <1>2, <1>4, <3>2, <3>4
      <4> QED BY <1>8, <1>9, <3>4, <4>1
    <3> QED BY <3>3, <3>4
  <2> QED BY <2>1
<1> QED BY <1>7, <1>8, <1>9, <1>10, <1>11 DEF Queued

LEMMA TailQueued ==
  ASSUME NEW q \in Seq(ItemType), q # <<>>, NEW a, NEW b, Queued(q, a, b)
  PROVE  \E c \in 0 .. MaxBytes : /\ a <= c /\ c <= b
                                  /\ Head(q).text = Bytes(a, c) /\ Queued(Tail(q), c, b)
<1>1. Len(q) \in Nat /\ Len(q) > 0
  BY LenProperties, EmptySeq
<1>2. PICK pos \in [0 .. Len(q) -> 0 .. MaxBytes] :
        /\ pos[0] = a /\ pos[Len(q)] = b
        /\ \A i, j \in 0 .. Len(q) : i <= j => pos[i] <= pos[j]
        /\ \A i \in 1 .. Len(q) : q[i].text = Bytes(pos[i - 1], pos[i])
  BY DEF Queued
<1>3. PICK n : n = Len(q) - 1
  OBVIOUS
<1>4. n \in Nat /\ n + 1 = Len(q)
  BY <1>1, <1>3
<1>5. /\ Tail(q) \in Seq(ItemType) /\ Len(Tail(q)) = n
      /\ \A i \in 1 .. n : Tail(q)[i] = q[i + 1]
      /\ Head(q) = q[1]
  <2> HIDE DEF ItemType
  <2>1. /\ Tail(q) \in Seq(ItemType) /\ Len(Tail(q)) = n
        /\ \A i \in 1 .. n : Tail(q)[i] = q[i + 1]
    BY <1>3, HeadTailProperties
  <2> QED BY <2>1
<1>6. PICK new : new = [i \in 0 .. n |-> pos[i + 1]]
  OBVIOUS
<1>7. \A i \in 0 .. n : i + 1 \in 0 .. Len(q) /\ new[i] = pos[i + 1]
  BY <1>4, <1>6
<1>8. new \in [0 .. n -> 0 .. MaxBytes]
  BY <1>2, <1>6, <1>7
<1>9. new[0] = pos[1] /\ new[n] = b
  BY <1>2, <1>4, <1>7
<1>10. \A i, j \in 0 .. n : i <= j => new[i] <= new[j]
  BY <1>2, <1>4, <1>7
<1>11. \A i \in 1 .. n : Tail(q)[i].text = Bytes(new[i - 1], new[i])
  <2>1. ASSUME NEW i \in 1 .. n
        PROVE  Tail(q)[i].text = Bytes(new[i - 1], new[i])
    <3>1. i - 1 \in 0 .. n /\ i \in 0 .. n /\ i + 1 \in 1 .. Len(q) /\ (i - 1) + 1 = i
          /\ (i + 1) - 1 = i
      BY <1>4
    <3>2. new[i - 1] = pos[i] /\ new[i] = pos[i + 1]
      BY <1>7, <3>1
    <3>3. q[i + 1].text = Bytes(pos[i], pos[i + 1])
      BY <1>2, <3>1
    <3> QED BY <1>5, <3>2, <3>3
  <2> QED BY <2>1
<1>12. Queued(Tail(q), pos[1], b)
  BY <1>5, <1>8, <1>9, <1>10, <1>11 DEF Queued
<1>13. /\ pos[1] \in 0 .. MaxBytes /\ a <= pos[1] /\ pos[1] <= b
       /\ Head(q).text = Bytes(a, pos[1])
  <2>1. 0 \in 0 .. Len(q) /\ 1 \in 0 .. Len(q) /\ Len(q) \in 0 .. Len(q) /\ 1 \in 1 .. Len(q)
    BY <1>1
  <2>2. pos[0] <= pos[1] /\ pos[1] <= pos[Len(q)]
    BY <1>1, <1>2, <2>1
  <2>3. q[1].text = Bytes(pos[1 - 1], pos[1])
    BY <1>2, <2>1
  <2> QED BY <1>2, <1>5, <2>1, <2>2, <2>3
<1> QED BY <1>12, <1>13

LEMMA CutIs ==
  ASSUME NEW n \in Nat
  PROVE  Cut(n) \in Nat /\ Cut(n) <= n /\ Cut(n) <= MaxResponse /\ MaxResponse - Cut(n) \in Nat
BY TranscriptAssumption DEF Cut

(* The text of a row after a write: a limit cuts it where it is reached.     *)
LEMMA WrittenBytes ==
  ASSUME NEW n \in Nat, NEW a \in Nat, n <= a
  PROVE  LET accepted == Prefix(Bytes(n, a), MaxResponse - Cut(n))
         IN /\ Bytes(0, Cut(n)) \o accepted = Bytes(0, Cut(a))
            /\ Cut(n) + Len(accepted) = Cut(a)
<1>1. /\ MaxResponse \in Nat /\ MaxResponse - Cut(n) \in Nat
      /\ Cut(n) \in Nat /\ Cut(a) \in Nat /\ Cut(n) <= Cut(a)
  BY TranscriptAssumption DEF Cut
<1>2. PICK e : e = IF a - n < MaxResponse - Cut(n) THEN a ELSE n + (MaxResponse - Cut(n))
  OBVIOUS
<1>3. PICK accepted : accepted = Prefix(Bytes(n, a), MaxResponse - Cut(n))
  OBVIOUS
<1>4. accepted = Bytes(n, e)
  BY <1>1, <1>2, <1>3, BytesPrefix
<1>5. e \in Nat /\ n <= e
  BY <1>1, <1>2
<1>6. Len(accepted) = e - n
  BY <1>4, <1>5, BytesAre
<1>7. CASE n <= MaxResponse
  <2>1. Cut(n) = n /\ e = Cut(a)
    BY <1>1, <1>2, <1>7 DEF Cut
  <2>2. Bytes(0, Cut(n)) \o Bytes(Cut(n), Cut(a)) = Bytes(0, Cut(a))
    <3>1. 0 \in Nat /\ 0 <= Cut(n)
      BY <1>1
    <3> QED BY <1>1, <3>1, BytesConcat
  <2>3. n + (e - n) = e
    BY <1>5
  <2> QED BY <1>3, <1>4, <1>6, <2>1, <2>2, <2>3
<1>8. CASE ~(n <= MaxResponse)
  <2>1. Cut(n) = MaxResponse /\ e = n /\ Cut(a) = MaxResponse
    BY <1>1, <1>2, <1>8 DEF Cut
  <2>2. accepted = <<>> /\ Bytes(0, Cut(n)) \in Seq(Nat)
    BY <1>1, <1>4, <2>1, NoBytes, BytesAre
  <2>3. Bytes(0, Cut(n)) \o <<>> = Bytes(0, Cut(n))
    BY <2>2, ConcatEmptySeq
  <2>4. Cut(n) + (e - n) = Cut(n)
    BY <1>1, <1>5, <2>1
  <2> QED BY <1>3, <1>6, <2>1, <2>2, <2>3, <2>4
<1> QED BY <1>7, <1>8
------------------------------------------------------------------------------
(* Types.                                                                    *)

LEMMA RecordsAre ==
  /\ NoRow \in RowType /\ NoItem \in ItemType /\ Stop \in ItemType
  /\ \A text \in Seq(Nat) : Flush(text) \in ItemType /\ Flush(text).text = text
  /\ NoItem.text = <<>> /\ Stop.text = <<>>
  /\ \A x \in ItemType : x.text \in Seq(Nat)
  /\ \A r \in RowType : /\ r.state \in States
                        /\ r.retained \in Nat /\ r.total \in Nat /\ r.dropped \in Nat
<1>1. <<>> \in Seq(Nat)
  OBVIOUS
<1>2. NoRow \in RowType
  BY DEF NoRow, RowType, States
<1>3. NoItem \in ItemType /\ Stop \in ItemType
  BY <1>1 DEF NoItem, Stop, ItemType
<1>4. \A text \in Seq(Nat) : Flush(text) \in ItemType /\ Flush(text).text = text
  BY DEF Flush, ItemType
<1>5. NoItem.text = <<>> /\ Stop.text = <<>>
  BY DEF NoItem, Stop
<1>6. \A x \in ItemType : x.text \in Seq(Nat)
  BY DEF ItemType
<1>7. \A r \in RowType : /\ r.state \in States
                         /\ r.retained \in Nat /\ r.total \in Nat /\ r.dropped \in Nat
  BY DEF RowType
<1> QED BY <1>2, <1>3, <1>4, <1>5, <1>6, <1>7

(* Whoever has a turn has begun it, and is its owner.                        *)
LEMMA TurnsAre ==
  ASSUME Types, Owned, NEW p \in Procs, pc[p] \in InTurn
  PROVE  /\ turn[p] \in Turns /\ turn[p] \in 1 .. started /\ owner[turn[p]] = p
         /\ started \in Nat /\ started <= MaxTurns /\ MaxTurns \in Nat
<1>1. turn[p] \in 1 .. started /\ owner[turn[p]] = p
  BY DEF Owned
<1>2. started \in Nat /\ started <= MaxTurns /\ MaxTurns \in Nat
  BY TranscriptAssumption DEF Types, TypeHist
<1> QED BY <1>1, <1>2 DEF Turns

(* What the writer adds to an active row.                                    *)
LEMMA AddedIs ==
  ASSUME Types, NEW t \in Turns, Sums(t), rows[t].state = "ACTIVE"
  PROVE  LET row == rows[t]
             text == writing[t].text
             accepted == Prefix(text, MaxResponse - row.retained)
             retained == row.retained + Len(accepted)
             total == row.total + Len(text)
         IN /\ accepted \in Seq(Nat) /\ chunks[t] \o accepted \in Seq(Nat)
            /\ Len(chunks[t] \o accepted) = retained
            /\ retained \in Nat /\ total \in Nat /\ total - retained \in Nat
            /\ retained <= MaxResponse
<1>1. /\ rows[t] \in RowType /\ chunks[t] \in Seq(Nat) /\ writing[t] \in ItemType
  BY DEF Types, TypeDb, TypeSink
<1>2. PICK text : text = writing[t].text
  OBVIOUS
<1>3. PICK row : row = rows[t]
  OBVIOUS
<1>4. PICK r : r = row.retained
  OBVIOUS
<1>5. /\ text \in Seq(Nat) /\ r \in Nat /\ row.total \in Nat /\ row.dropped \in Nat
  BY <1>1, <1>2, <1>3, <1>4, RecordsAre
<1>6. /\ r = Len(chunks[t]) /\ r <= MaxResponse /\ row.total = r + row.dropped
  BY <1>3, <1>4 DEF Sums
<1>7. MaxResponse - r \in Nat
  BY <1>5, <1>6, TranscriptAssumption
<1>8. PICK accepted : accepted = Prefix(text, MaxResponse - r)
  OBVIOUS
<1>9. PICK n : n = Len(accepted)
  OBVIOUS
<1>10. /\ accepted \in Seq(Nat)
       /\ n = IF Len(text) < MaxResponse - r THEN Len(text) ELSE MaxResponse - r
  BY <1>5, <1>7, <1>8, <1>9, PrefixIs
<1>11. Len(text) \in Nat
  BY <1>5, LenProperties
<1>12. chunks[t] \o accepted \in Seq(Nat) /\ Len(chunks[t] \o accepted) = Len(chunks[t]) + n
  BY ZenonT(60), <1>1, <1>9, <1>10, ConcatProperties
<1>13. n \in Nat /\ n <= Len(text) /\ r + n <= MaxResponse
  BY <1>5, <1>7, <1>10, <1>11, TranscriptAssumption
<1>14. r + n \in Nat /\ row.total + Len(text) \in Nat
       /\ (row.total + Len(text)) - (r + n) \in Nat
  BY SMTT(30), <1>5, <1>6, <1>11, <1>13
<1> QED BY <1>2, <1>3, <1>4, <1>6, <1>8, <1>9, <1>10, <1>12, <1>13, <1>14

LEMMA TypeDbKept ==
  ASSUME StoreInv, Next
  PROVE  TypeDb'
<1>1. TypeDb /\ Types /\ Owned
  BY DEF StoreInv, Types
<1>2. ASSUME NEW p \in Procs, Open(p)
      PROVE  TypeDb'
  <2>1. \A r \in RowType : [r EXCEPT !.state = Recovered(r)] \in RowType
    BY DEF Recovered, RowType, States
  <2>2. rows' \in [Turns -> RowType]
    <3> HIDE DEF RowType
    <3> QED BY <1>1, <1>2, <2>1 DEF Open, TypeDb
  <2> QED BY <1>1, <1>2, <2>2 DEF Open, TypeDb
<1>3. ASSUME NEW p \in Procs, ClearScope(p)
      PROVE  TypeDb'
  BY <1>1, <1>3, RecordsAre DEF ClearScope, TypeDb
<1>4. ASSUME NEW p \in Procs, StartResponse(p)
      PROVE  TypeDb'
  <2>1. [NoRow EXCEPT !.state = "ACTIVE"] \in RowType
    BY DEF NoRow, RowType, States
  <2> QED BY <1>1, <1>4, <2>1 DEF StartResponse, TypeDb
<1>5. ASSUME NEW p \in Procs, Replace(p)
      PROVE  TypeDb'
  <2>1. turn[p] \in Turns
    BY <1>1, <1>5, TurnsAre DEF Replace, InTurn
  <2>2. PICK kept : kept = Prefix(canonical[p], MaxResponse)
    OBVIOUS
  <2>3. canonical[p] \in Seq(Nat) /\ MaxResponse \in Nat
    BY <1>1, TranscriptAssumption DEF Types, TypeProc
  <2>4. /\ kept \in Seq(Nat)
        /\ Len(kept) = IF Len(canonical[p]) < MaxResponse THEN Len(canonical[p])
                                                         ELSE MaxResponse
    BY <2>2, <2>3, PrefixIs
  <2>5. /\ Len(canonical[p]) \in Nat /\ Len(kept) \in Nat
        /\ Len(canonical[p]) - Len(kept) \in Nat
    BY <2>3, <2>4, LenProperties
  <2>6. \A outcome \in {"COMPLETED", "FAILED"} :
          [state |-> FinalState(outcome, canonical[p]), retained |-> Len(kept),
           total |-> Len(canonical[p]), dropped |-> Len(canonical[p]) - Len(kept)] \in RowType
    BY <2>5 DEF FinalState, RowType, States
  <2>7. CASE UNCHANGED <<rows, chunks>>
    BY <1>1, <1>5, <2>7 DEF Replace, TypeDb
  <2>8. CASE /\ chunks' = [chunks EXCEPT ![turn[p]] = kept]
             /\ \E outcome \in {"COMPLETED", "FAILED"} :
                  rows' = [rows EXCEPT ![turn[p]] =
                    [state |-> FinalState(outcome, canonical[p]), retained |-> Len(kept),
                     total |-> Len(canonical[p]),
                     dropped |-> Len(canonical[p]) - Len(kept)]]
    <3>1. chunks' \in [Turns -> Seq(Nat)]
      BY <1>1, <2>4, <2>8 DEF TypeDb
    <3>2. rows' \in [Turns -> RowType]
      BY <1>1, <2>6, <2>8 DEF TypeDb
    <3> QED BY <1>1, <1>5, <3>1, <3>2 DEF Replace, TypeDb
  <2> QED BY <1>5, <2>2, <2>7, <2>8 DEF Replace
<1>6. ASSUME NEW p \in Procs, Prune(p)
      PROVE  TypeDb'
  <2>1. PICK gone : /\ rows' = [t \in Turns |-> IF t \in gone THEN NoRow ELSE rows[t]]
                    /\ chunks' = [t \in Turns |-> IF t \in gone THEN <<>> ELSE chunks[t]]
    BY <1>6 DEF Prune
  <2> QED BY <1>1, <1>6, <2>1, RecordsAre DEF Prune, TypeDb
<1>7. ASSUME NEW t \in Turns, WriterAppends(t)
      PROVE  TypeDb'
  <2>1. CASE UNCHANGED <<rows, chunks>>
    BY <1>1, <1>7, <2>1 DEF WriterAppends, TypeDb
  <2>2. CASE rows[t].state = "ACTIVE" /\ ~(UNCHANGED <<rows, chunks>>)
    <3>1. Sums(t)
      BY DEF StoreInv
    <3>2. PICK accepted : accepted = Prefix(writing[t].text, MaxResponse - rows[t].retained)
      OBVIOUS
    <3>3. PICK retained : retained = rows[t].retained + Len(accepted)
      OBVIOUS
    <3>4. PICK total : total = rows[t].total + Len(writing[t].text)
      OBVIOUS
    <3>5. /\ chunks[t] \o accepted \in Seq(Nat)
          /\ retained \in Nat /\ total \in Nat /\ total - retained \in Nat
      BY <1>1, <2>2, <3>1, <3>2, <3>3, <3>4, AddedIs
    <3>6. /\ rows' = [rows EXCEPT ![t].retained = retained, ![t].total = total,
                                  ![t].dropped = total - retained]
          /\ chunks' = [chunks EXCEPT ![t] = @ \o accepted]
      BY <1>7, <2>2, <3>2, <3>3, <3>4 DEF WriterAppends
    <3>7. rows' \in [Turns -> RowType]
      BY <1>1, <3>5, <3>6 DEF TypeDb, RowType
    <3>8. chunks' \in [Turns -> Seq(Nat)]
      BY <1>1, <3>5, <3>6 DEF TypeDb
    <3> QED BY <1>1, <1>7, <3>7, <3>8 DEF WriterAppends, TypeDb
  <2> QED BY <1>7, <2>1, <2>2 DEF WriterAppends, Appendable
<1>8. ASSUME UNCHANGED <<schema, rows, chunks>>
      PROVE  TypeDb'
  BY <1>1, <1>8 DEF TypeDb
<1> QED
  BY <1>2, <1>3, <1>4, <1>5, <1>6, <1>7, <1>8
     DEF Next, Sinking, Writer, db, CloseStore, AppendDelta, FinalizeBegins, Crash, Put,
         WaitTimesOut, FlushAcknowledged, WriterStopped, PruneFails, Abort, WriterTakes,
         WriterEnters

LEMMA PutsAre ==
  /\ DOMAIN AfterPut = {"put", "flushput", "stopput"}
  /\ AfterPut["put"] = "stream" /\ AfterPut["flushput"] = "flushwait"
  /\ AfterPut["stopput"] = "stopwait"
BY DEF AfterPut

LEMMA TypeProcKept ==
  ASSUME StoreInv, Next
  PROVE  TypeProc'
<1>1. TypeProc /\ TypeSink /\ TypeHist /\ TypeDb /\ Types /\ Owned
  BY DEF StoreInv, Types
<1>2. MaxTurns \in Nat /\ MaxBytes \in Nat /\ <<>> \in Seq(Nat)
  BY TranscriptAssumption
<1>3. ASSUME NEW p \in Procs, Open(p)
      PROVE  TypeProc'
  <2>1. PragmaWorks \in BOOLEAN
    BY <1>1 DEF PragmaWorks, TypeDb
  <2> HIDE DEF ItemType
  <2> QED BY <1>1, <1>3, <2>1 DEF Open, GoTo, TypeProc, AtRest
<1>4. ASSUME NEW p \in Procs, \/ Prune(p) \/ CloseStore(p) \/ Put(p) \/ WaitTimesOut(p)
                              \/ FlushAcknowledged(p) \/ WriterStopped(p) \/ Replace(p)
                              \/ PruneFails(p) \/ Abort(p) \/ Crash(p)
      PROVE  TypeProc'
  <2>1. /\ store' \in [Procs -> BOOLEAN] /\ foreign_keys' \in [Procs -> BOOLEAN]
    BY <1>1, <1>4 DEF TypeProc, Prune, CloseStore, Put, WaitTimesOut, FlushAcknowledged,
                      WriterStopped, Replace, PruneFails, Abort, Crash
  <2>2. pc' \in [Procs -> AtRest \cup InTurn]
    <3>1. pc' = pc \/ \E to \in AtRest \cup InTurn : pc' = [pc EXCEPT ![p] = to]
      <4>1. CASE Put(p)
        BY <4>1, PutsAre DEF Put, GoTo, InTurn
      <4>2. CASE ~Put(p)
        BY <1>4, <4>2 DEF Prune, CloseStore, WaitTimesOut, FlushAcknowledged,
                          WriterStopped, Replace, PruneFails, Abort, Crash, GoTo, LeaveTurn,
                          AtRest, InTurn
      <4> QED BY <4>1, <4>2
    <3> QED BY <1>1, <3>1 DEF TypeProc
  <2>3. turn' \in [Procs -> 0 .. MaxTurns]
    BY <1>1, <1>2, <1>4
       DEF TypeProc, Prune, CloseStore, Put, WaitTimesOut, FlushAcknowledged,
           WriterStopped, Replace, PruneFails, Abort, Crash, LeaveTurn
  <2>4. canonical' \in [Procs -> Seq(Nat)]
    BY ZenonT(60), <1>1, <1>2, <1>4
       DEF TypeProc, Prune, CloseStore, Put, WaitTimesOut, FlushAcknowledged,
           WriterStopped, Replace, PruneFails, Abort, Crash, LeaveTurn
  <2>5. item' \in [Procs -> ItemType]
    <3> HIDE DEF ItemType
    <3> QED BY <1>1, <1>4, RecordsAre
               DEF TypeProc, Prune, CloseStore, Put, WaitTimesOut, FlushAcknowledged,
                   WriterStopped, Replace, PruneFails, Abort, Crash
  <2> QED BY <2>1, <2>2, <2>3, <2>4, <2>5 DEF TypeProc
<1>5. ASSUME NEW p \in Procs, StartResponse(p)
      PROVE  TypeProc'
  <2>1. started + 1 \in 0 .. MaxTurns
    BY <1>1, <1>2, <1>5 DEF StartResponse, TypeHist
  <2> HIDE DEF ItemType
  <2> QED BY <1>1, <1>5, <2>1 DEF StartResponse, GoTo, TypeProc, InTurn
<1>6. ASSUME NEW p \in Procs, AppendDelta(p)
      PROVE  TypeProc'
  <2>1. turn[p] \in Turns
    BY <1>1, <1>6, TurnsAre DEF AppendDelta, InTurn
  <2>2. buffer[turn[p]] \in Seq(Nat) /\ streamed[turn[p]] + 1 \in Nat
    BY <1>1, <1>2, <2>1 DEF TypeSink, TypeHist
  <2>3. PICK text : text = Append(buffer[turn[p]], streamed[turn[p]] + 1)
    OBVIOUS
  <2>4. text \in Seq(Nat)
    BY <2>2, <2>3, AppendProperties
  <2>5. item' \in [Procs -> ItemType]
    <3> HIDE DEF ItemType
    <3>1. item' = item \/ item' = [item EXCEPT ![p] = Flush(text)]
      BY <1>6, <2>3 DEF AppendDelta
    <3> QED BY <1>1, <2>4, <3>1, RecordsAre DEF TypeProc
  <2>6. pc' \in [Procs -> AtRest \cup InTurn]
    BY <1>1, <1>6 DEF AppendDelta, GoTo, TypeProc, InTurn
  <2> QED BY <1>1, <1>6, <2>5, <2>6 DEF AppendDelta, TypeProc
<1>7. ASSUME NEW p \in Procs, FinalizeBegins(p)
      PROVE  TypeProc'
  <2>1. turn[p] \in Turns
    BY <1>1, <1>7, TurnsAre DEF FinalizeBegins, InTurn
  <2>2. buffer[turn[p]] \in Seq(Nat) /\ streamed[turn[p]] \in Nat
    BY <1>1, <1>2, <2>1 DEF TypeSink, TypeHist
  <2>3. \A text \in Finals(turn[p]) : text \in Seq(Nat)
    BY <1>2, <2>2 DEF Finals
  <2>4. item' \in [Procs -> ItemType]
    <3> HIDE DEF ItemType
    <3> QED BY <1>1, <1>7, <2>2, RecordsAre DEF FinalizeBegins, TypeProc
  <2>5. canonical' \in [Procs -> Seq(Nat)]
    BY <1>1, <1>7, <2>3 DEF FinalizeBegins, TypeProc
  <2>6. pc' \in [Procs -> AtRest \cup InTurn]
    BY <1>1, <1>7 DEF FinalizeBegins, GoTo, TypeProc, InTurn
  <2> QED BY <1>1, <1>7, <2>4, <2>5, <2>6 DEF FinalizeBegins, TypeProc
<1>8. ASSUME UNCHANGED proc
      PROVE  TypeProc'
  BY <1>1, <1>8 DEF TypeProc, proc
<1> QED
  BY <1>3, <1>4, <1>5, <1>6, <1>7, <1>8
     DEF Next, Sinking, Writer, WriterTakes, WriterEnters, WriterAppends, ClearScope

LEMMA TypeSinkKept ==
  ASSUME StoreInv, Next
  PROVE  TypeSink'
<1>1. TypeProc /\ TypeSink /\ TypeHist /\ TypeDb /\ Types /\ Owned
  BY DEF StoreInv, Types
<1>2. <<>> \in Seq(Nat) /\ <<>> \in Seq(ItemType)
  OBVIOUS
<1>3. ASSUME NEW p \in Procs, StartResponse(p)
      PROVE  TypeSink'
  <2> HIDE DEF ItemType
  <2> QED BY <1>1, <1>3 DEF StartResponse, TypeSink
<1>4. ASSUME NEW p \in Procs, AppendDelta(p)
      PROVE  TypeSink'
  <2>1. turn[p] \in Turns
    BY <1>1, <1>4, TurnsAre DEF AppendDelta, InTurn
  <2>2. buffer[turn[p]] \in Seq(Nat) /\ streamed[turn[p]] + 1 \in Nat
    BY <1>1, <2>1, TranscriptAssumption DEF TypeSink, TypeHist
  <2>3. PICK text : text = Append(buffer[turn[p]], streamed[turn[p]] + 1)
    OBVIOUS
  <2>4. text \in Seq(Nat)
    BY <2>2, <2>3, AppendProperties
  <2>5. \/ buffer' = [buffer EXCEPT ![turn[p]] = text]
        \/ buffer' = [buffer EXCEPT ![turn[p]] = <<>>]
    BY <1>4, <2>3 DEF AppendDelta
  <2>6. buffer' \in [Turns -> Seq(Nat)]
    BY <1>1, <1>2, <2>4, <2>5 DEF TypeSink
  <2> HIDE DEF ItemType
  <2> QED BY <1>1, <1>4, <2>6 DEF AppendDelta, TypeSink
<1>5. ASSUME NEW p \in Procs, FinalizeBegins(p)
      PROVE  TypeSink'
  <2> HIDE DEF ItemType
  <2> QED BY <1>1, <1>2, <1>5 DEF FinalizeBegins, TypeSink
<1>6. ASSUME NEW p \in Procs, Put(p) \/ Abort(p)
      PROVE  TypeSink'
  <2>1. turn[p] \in Turns
    BY <1>1, <1>6, TurnsAre DEF Put, Abort, AfterPut, InTurn
  <2>2. flush_queue[turn[p]] \in Seq(ItemType) /\ item[p] \in ItemType
    BY <1>1, <2>1 DEF TypeSink, TypeProc
  <2>3. \A x \in ItemType : Append(flush_queue[turn[p]], x) \in Seq(ItemType)
    <3> HIDE DEF ItemType
    <3> QED BY <2>2, AppendProperties
  <2>4. flush_queue' \in [Turns -> Seq(ItemType)]
    <3> HIDE DEF ItemType
    <3>1. \/ flush_queue' = flush_queue
          \/ \E x \in ItemType :
               flush_queue' = [flush_queue EXCEPT ![turn[p]]
                                 = Append(flush_queue[turn[p]], x)]
      BY <1>1, <1>6, <2>1, <2>2, RecordsAre DEF Put, Abort, TypeSink
    <3> QED BY ZenonT(60), <1>1, <2>3, <3>1 DEF TypeSink
  <2>5. buffer' \in [Turns -> Seq(Nat)]
    BY <1>1, <1>2, <1>6 DEF Put, Abort, TypeSink
  <2> HIDE DEF ItemType
  <2> QED BY <1>1, <1>6, <2>4, <2>5 DEF Put, Abort, TypeSink
<1>7. ASSUME NEW t \in Turns, WriterTakes(t)
      PROVE  TypeSink'
  <2>1. flush_queue[t] \in Seq(ItemType) /\ flush_queue[t] # <<>>
    BY <1>1, <1>7 DEF WriterTakes, TypeSink
  <2>2. Head(flush_queue[t]) \in ItemType /\ Tail(flush_queue[t]) \in Seq(ItemType)
    <3> HIDE DEF ItemType
    <3> QED BY <2>1, HeadTailProperties
  <2> HIDE DEF ItemType
  <2>3. flush_queue' \in [Turns -> Seq(ItemType)]
    BY <1>1, <1>7, <2>2 DEF WriterTakes, TypeSink
  <2>4. writing' \in [Turns -> ItemType] /\ writer' \in [Turns -> {"none", "runs", "stopped"}]
    BY <1>1, <1>7, <2>2 DEF WriterTakes, TypeSink
  <2> QED BY <1>1, <1>7, <2>3, <2>4 DEF WriterTakes, TypeSink
<1>8. ASSUME NEW t \in Turns, WriterAppends(t)
      PROVE  TypeSink'
  <2> HIDE DEF ItemType
  <2>1. writer_error' \in [Turns -> BOOLEAN]
    BY <1>1, <1>8 DEF WriterAppends, TypeSink
  <2> QED BY <1>1, <1>8, <2>1, RecordsAre DEF WriterAppends, TypeSink
<1>9. ASSUME NEW p \in Procs, Crash(p)
      PROVE  TypeSink'
  <2> HIDE DEF ItemType
  <2> QED BY <1>1, <1>2, <1>9, RecordsAre DEF Crash, TypeSink
<1>10. ASSUME UNCHANGED <<owner, buffer, flush_queue, writing, writer_error, writer>>
       PROVE  TypeSink'
  BY <1>1, <1>10 DEF TypeSink
<1> QED
  BY <1>3, <1>4, <1>5, <1>6, <1>7, <1>8, <1>9, <1>10
     DEF Next, Sinking, Writer, Open, Prune, ClearScope, CloseStore, WaitTimesOut,
         FlushAcknowledged, WriterStopped, Replace, PruneFails, WriterEnters, proc, sink

LEMMA TypeHistKept ==
  ASSUME StoreInv, Next
  PROVE  TypeHist'
<1>1. TypeProc /\ TypeHist /\ Types /\ Owned
  BY DEF StoreInv, Types
<1>2. MaxTurns \in Nat /\ MaxBytes \in Nat /\ MaxCrashes \in Nat /\ MaxClears \in Nat
  BY TranscriptAssumption
<1>3. ASSUME NEW p \in Procs, AppendDelta(p)
      PROVE  TypeHist'
  <2>1. turn[p] \in Turns
    BY <1>1, <1>3, TurnsAre DEF AppendDelta, InTurn
  <2>2. streamed[turn[p]] + 1 \in 0 .. MaxBytes
    BY <1>1, <1>2, <1>3, <2>1 DEF AppendDelta, TypeHist
  <2> QED BY <1>1, <1>3, <2>2 DEF AppendDelta, TypeHist
<1>4. ASSUME NEW p \in Procs, \/ StartResponse(p) \/ Prune(p) \/ ClearScope(p)
                              \/ Crash(p) \/ PruneFails(p)
      PROVE  TypeHist'
  <2>1. unpruned' \in BOOLEAN
    BY <1>1, <1>4 DEF StartResponse, Prune, ClearScope, Crash, PruneFails, TypeHist
  <2>2. started' \in 0 .. MaxTurns /\ crashes' \in 0 .. MaxCrashes /\ clears' \in 0 .. MaxClears
    BY <1>1, <1>2, <1>4 DEF StartResponse, Prune, ClearScope, Crash, PruneFails, TypeHist
  <2>3. streamed' \in [Turns -> 0 .. MaxBytes]
    BY <1>1, <1>4 DEF StartResponse, Prune, ClearScope, Crash, PruneFails, TypeHist
  <2> QED BY <2>1, <2>2, <2>3 DEF TypeHist
<1>5. ASSUME UNCHANGED hist
      PROVE  TypeHist'
  BY <1>1, <1>5 DEF TypeHist, hist
<1> QED
  BY <1>3, <1>4, <1>5
     DEF Next, Sinking, Writer, Open, CloseStore, FinalizeBegins, Put, WaitTimesOut,
         FlushAcknowledged, WriterStopped, Replace, Abort, WriterTakes, WriterEnters,
         WriterAppends
------------------------------------------------------------------------------
(* Limits, and who has which turn.                                           *)

LEMMA LimitsKept ==
  ASSUME StoreInv, Next
  PROVE  Limits'
<1>1. TypeProc /\ TypeSink /\ Types /\ Owned /\ Limits
  BY DEF StoreInv, Types
<1>2. TypeSink' /\ TypeProc'
  BY TypeSinkKept, TypeProcKept
<1>3. /\ FlushBytes \in Nat /\ FlushBytes > 0 /\ PendingFlushes \in Nat /\ Len(<<>>) = 0
  BY TranscriptAssumption
<1> DEFINE Short == \A t \in Turns : Len(buffer[t]) < FlushBytes
           Few == \A t \in Turns : Len(flush_queue[t]) <= PendingFlushes
           Opened == \A p \in Procs : pc[p] # "idle" => store[p]
<1>4. Short'
  <2>1. ASSUME NEW p \in Procs, AppendDelta(p)
        PROVE  Short'
    <3>1. turn[p] \in Turns
      BY <1>1, <2>1, TurnsAre DEF AppendDelta, InTurn
    <3>2. PICK text : text = Append(buffer[turn[p]], streamed[turn[p]] + 1)
      OBVIOUS
    <3>3. \/ Len(text) < FlushBytes /\ buffer' = [buffer EXCEPT ![turn[p]] = text]
          \/ buffer' = [buffer EXCEPT ![turn[p]] = <<>>]
      BY <2>1, <3>2 DEF AppendDelta
    <3> QED BY <1>1, <1>3, <3>1, <3>3 DEF Limits, TypeSink
  <2>2. ASSUME NEW p \in Procs, \/ FinalizeBegins(p) \/ Abort(p) \/ Crash(p)
        PROVE  Short'
    <3>1. \A t \in Turns : buffer'[t] = buffer[t] \/ buffer'[t] = <<>>
      BY <1>1, <2>2 DEF FinalizeBegins, Abort, Crash, TypeSink
    <3> QED BY <1>1, <1>3, <3>1 DEF Limits
  <2>3. ASSUME UNCHANGED buffer
        PROVE  Short'
    BY <1>1, <2>3 DEF Limits
  <2> QED
    BY ZenonT(60), <2>1, <2>2, <2>3
       DEF Next, Sinking, Writer, sink, Open, ClearScope, CloseStore, StartResponse, Prune,
           Put, WaitTimesOut, FlushAcknowledged, WriterStopped, Replace, PruneFails,
           WriterTakes, WriterEnters, WriterAppends
<1>5. Few'
  <2>1. ASSUME NEW p \in Procs, Put(p) \/ Abort(p)
        PROVE  Few'
    <3>1. turn[p] \in Turns
      BY <1>1, <2>1, TurnsAre DEF Put, Abort, AfterPut, InTurn
    <3>2. flush_queue[turn[p]] \in Seq(ItemType) /\ item[p] \in ItemType /\ Stop \in ItemType
      BY <1>1, <3>1, RecordsAre DEF TypeSink, TypeProc
    <3>3. \A x \in ItemType : Len(Append(flush_queue[turn[p]], x)) = Len(flush_queue[turn[p]]) + 1
      <4> HIDE DEF ItemType
      <4> QED BY <3>2, AppendProperties
    <3>4. Len(flush_queue[turn[p]]) \in Nat
      BY <3>2, LenProperties
    <3>5. \/ flush_queue' = flush_queue
          \/ \E x \in ItemType :
               /\ Len(flush_queue[turn[p]]) < PendingFlushes
               /\ flush_queue' = [flush_queue EXCEPT ![turn[p]]
                                    = Append(flush_queue[turn[p]], x)]
      BY <1>1, <2>1, <3>1, <3>2 DEF Put, Abort, Room, TypeSink
    <3>6. \A t \in Turns : \/ flush_queue'[t] = flush_queue[t]
                           \/ Len(flush_queue'[t]) <= PendingFlushes
      <4> HIDE DEF ItemType
      <4>1. CASE flush_queue' = flush_queue
        BY <4>1
      <4>2. ASSUME NEW x \in ItemType, Len(flush_queue[turn[p]]) < PendingFlushes,
                   flush_queue' = [flush_queue EXCEPT ![turn[p]]
                                     = Append(flush_queue[turn[p]], x)]
            PROVE  \A t \in Turns : \/ flush_queue'[t] = flush_queue[t]
                                    \/ Len(flush_queue'[t]) <= PendingFlushes
        <5>1. Len(Append(flush_queue[turn[p]], x)) <= PendingFlushes
          BY <1>3, <3>3, <3>4, <4>2
        <5> QED BY <1>1, <4>2, <5>1 DEF TypeSink
      <4> QED BY <3>5, <4>1, <4>2
    <3> QED BY <1>1, <3>6 DEF Limits
  <2>2. ASSUME NEW t \in Turns, WriterTakes(t)
        PROVE  Few'
    <3>1. flush_queue[t] \in Seq(ItemType) /\ flush_queue[t] # <<>>
      BY <1>1, <2>2 DEF WriterTakes, TypeSink
    <3>2. Len(Tail(flush_queue[t])) = Len(flush_queue[t]) - 1 /\ Len(flush_queue[t]) \in Nat
      <4> HIDE DEF ItemType
      <4> QED BY <3>1, HeadTailProperties, LenProperties
    <3>3. Len(Tail(flush_queue[t])) <= PendingFlushes
      BY <1>1, <1>3, <3>2 DEF Limits
    <3>4. \A u \in Turns : \/ flush_queue'[u] = flush_queue[u]
                           \/ u = t /\ flush_queue'[u] = Tail(flush_queue[t])
      BY <1>1, <2>2 DEF WriterTakes, TypeSink
    <3> QED BY <1>1, <3>3, <3>4 DEF Limits
  <2>3. ASSUME NEW p \in Procs, Crash(p)
        PROVE  Few'
    <3>1. \A t \in Turns : flush_queue'[t] = flush_queue[t] \/ flush_queue'[t] = <<>>
      BY <2>3 DEF Crash
    <3> QED BY <1>1, <1>3, <3>1 DEF Limits
  <2>4. ASSUME UNCHANGED flush_queue
        PROVE  Few'
    BY <1>1, <2>4 DEF Limits
  <2> QED
    BY ZenonT(60), <2>1, <2>2, <2>3, <2>4
       DEF Next, Sinking, Writer, sink, Open, ClearScope, CloseStore, StartResponse, Prune,
           AppendDelta, FinalizeBegins, WaitTimesOut, FlushAcknowledged, WriterStopped,
           Replace, PruneFails, WriterEnters, WriterAppends
<1>6. Opened'
  <2>1. ASSUME NEW p \in Procs, Open(p)
        PROVE  Opened'
    BY <1>1, <2>1 DEF Open, GoTo, Limits, TypeProc
  <2>2. ASSUME NEW p \in Procs, CloseStore(p) \/ Crash(p)
        PROVE  Opened'
    BY <1>1, <2>2 DEF CloseStore, Crash, LeaveTurn, GoTo, Limits, TypeProc
  <2>3. ASSUME NEW p \in Procs, store' = store, \A q \in Procs : q # p => pc'[q] = pc[q],
               store[p]
        PROVE  Opened'
    BY <1>1, <2>3 DEF Limits
  <2>4. ASSUME NEW p \in Procs, \/ StartResponse(p) \/ AppendDelta(p) \/ FinalizeBegins(p)
                                \/ Sinking(p)
        PROVE  Opened'
    <3>1. store' = store
      BY <2>4 DEF StartResponse, AppendDelta, FinalizeBegins, Sinking, Put, WaitTimesOut,
                  FlushAcknowledged, WriterStopped, Replace, Prune, PruneFails, Abort
    <3>2. store[p]
      BY <1>1, <2>4, PutsAre
         DEF StartResponse, AppendDelta, FinalizeBegins, Sinking, Put, WaitTimesOut,
             FlushAcknowledged, WriterStopped, Replace, Prune, PruneFails, Abort, Limits
    <3>3. \A q \in Procs : q # p => pc'[q] = pc[q]
      BY <1>1, <2>4
         DEF StartResponse, AppendDelta, FinalizeBegins, Sinking, Put, WaitTimesOut,
             FlushAcknowledged, WriterStopped, Replace, Prune, PruneFails, Abort, LeaveTurn,
             GoTo, TypeProc
    <3> QED BY <2>3, <3>1, <3>2, <3>3
  <2>5. ASSUME UNCHANGED <<store, pc>>
        PROVE  Opened'
    BY <1>1, <2>5 DEF Limits
  <2> QED
    BY <2>1, <2>2, <2>4, <2>5
       DEF Next, Writer, WriterTakes, WriterEnters, WriterAppends, ClearScope, proc
<1> QED BY <1>4, <1>5, <1>6 DEF Limits

LEMMA OwnedKept ==
  ASSUME StoreInv, Next
  PROVE  Owned'
<1>1. TypeProc /\ TypeSink /\ TypeHist /\ Types /\ Owned /\ MaxTurns \in Nat
  BY TranscriptAssumption DEF StoreInv, Types
<1>2. ASSUME NEW p \in Procs, StartResponse(p)
      PROVE  Owned'
  <2>1. /\ started \in Nat /\ started + 1 \in Turns /\ started' = started + 1
    BY <1>1, <1>2 DEF StartResponse, TypeHist, Turns
  <2>2. /\ owner' = [owner EXCEPT ![started + 1] = p] /\ turn' = [turn EXCEPT ![p] = started + 1]
        /\ pc' = [pc EXCEPT ![p] = "stream"]
    BY <1>2 DEF StartResponse, GoTo
  <2>3. ASSUME NEW q \in Procs, q # p, pc[q] \in InTurn
        PROVE  turn'[q] \in 1 .. started' /\ owner'[turn'[q]] = q
    <3>1. turn[q] \in 1 .. started /\ owner[turn[q]] = q
      BY <1>1, <2>3 DEF Owned
    <3>2. turn[q] \in Turns /\ turn[q] # started + 1 /\ turn[q] \in 1 .. started + 1
      BY <1>1, <2>1, <3>1 DEF Turns
    <3>3. turn'[q] = turn[q]
      BY <1>1, <2>2, <2>3 DEF TypeProc
    <3>4. owner'[turn[q]] = owner[turn[q]]
      BY <1>1, <2>2, <3>2 DEF TypeSink
    <3> QED BY <2>1, <3>1, <3>2, <3>3, <3>4
  <2>4. turn'[p] \in 1 .. started' /\ owner'[turn'[p]] = p
    BY <1>1, <2>1, <2>2 DEF TypeProc, TypeSink
  <2>5. pc'[p] = "stream" /\ \A q \in Procs : q # p => pc'[q] = pc[q] /\ turn'[q] = turn[q]
    BY <1>1, <2>2 DEF TypeProc
  <2> QED BY <1>1, <2>3, <2>4, <2>5 DEF Owned, AtRest
<1>3. ASSUME UNCHANGED <<started, owner>>,
             \A p \in Procs :
               \/ pc'[p] = "idle" /\ turn'[p] = 0
               \/ turn'[p] = turn[p] /\ (pc[p] \in InTurn <=> pc'[p] \in InTurn)
                                     /\ (pc'[p] \in AtRest => pc[p] \in AtRest)
      PROVE  Owned'
  BY <1>1, <1>3 DEF Owned, AtRest, InTurn
<1>4. ASSUME NEW p \in Procs, \/ Open(p) \/ CloseStore(p) \/ ClearScope(p) \/ AppendDelta(p)
                              \/ FinalizeBegins(p) \/ Sinking(p) \/ Crash(p)
      PROVE  Owned'
  <2>1. UNCHANGED <<started, owner>>
    BY <1>4 DEF Open, CloseStore, ClearScope, AppendDelta, FinalizeBegins, Sinking, Crash,
                Put, WaitTimesOut, FlushAcknowledged, WriterStopped, Replace, Prune,
                PruneFails, Abort, hist, sink
  <2>2. \A q \in Procs : q # p => pc'[q] = pc[q] /\ turn'[q] = turn[q]
    BY <1>1, <1>4
       DEF Open, CloseStore, ClearScope, AppendDelta, FinalizeBegins, Sinking, Crash, Put,
           WaitTimesOut, FlushAcknowledged, WriterStopped, Replace, Prune, PruneFails,
           Abort, LeaveTurn, GoTo, TypeProc, proc
  <2>3. \/ pc'[p] = "idle" /\ turn'[p] = 0
        \/ turn'[p] = turn[p] /\ (pc[p] \in InTurn <=> pc'[p] \in InTurn)
                              /\ (pc'[p] \in AtRest => pc[p] \in AtRest)
    <3>1. CASE Prune(p) \/ Abort(p) \/ Crash(p)
      BY <1>1, <3>1 DEF Prune, Abort, Crash, LeaveTurn, GoTo, TypeProc
    <3>2. CASE Put(p)
      BY <1>1, <3>2, PutsAre DEF Put, GoTo, TypeProc, InTurn, AtRest
    <3>3. CASE \/ Open(p) \/ CloseStore(p) \/ ClearScope(p) \/ AppendDelta(p)
               \/ FinalizeBegins(p)
      BY <1>1, <3>3 DEF Open, CloseStore, ClearScope, AppendDelta, FinalizeBegins, GoTo,
                        TypeProc, InTurn, AtRest, proc
    <3>4. CASE \/ WaitTimesOut(p) \/ FlushAcknowledged(p) \/ WriterStopped(p) \/ Replace(p)
               \/ PruneFails(p)
      BY <1>1, <3>4, PutsAre
         DEF WaitTimesOut, FlushAcknowledged, WriterStopped, Replace, PruneFails, GoTo,
             TypeProc, InTurn, AtRest
    <3> QED BY <1>4, <3>1, <3>2, <3>3, <3>4 DEF Sinking
  <2> QED BY <1>3, <2>1, <2>2, <2>3
<1>5. ASSUME UNCHANGED <<proc, owner, started>>
      PROVE  Owned'
  BY <1>1, <1>5 DEF Owned, proc
<1> QED
  BY <1>2, <1>4, <1>5 DEF Next, Writer, WriterTakes, WriterEnters, WriterAppends, hist

LEMMA UnbornKept ==
  ASSUME StoreInv, Next
  PROVE  Unborn'
<1>1. /\ TypeDb /\ TypeProc /\ TypeSink /\ TypeHist /\ Types /\ Owned /\ Unborn
      /\ MaxTurns \in Nat /\ started \in Nat
  BY TranscriptAssumption DEF StoreInv, Types, TypeHist
<1> DEFINE Same(t) == /\ rows'[t] = rows[t] /\ chunks'[t] = chunks[t]
                      /\ streamed'[t] = streamed[t] /\ buffer'[t] = buffer[t]
                      /\ flush_queue'[t] = flush_queue[t] /\ writing'[t] = writing[t]
                      /\ writer_error'[t] = writer_error[t]
<1>2. ASSUME \A t \in Turns : t > started => Same(t), started' = started
      PROVE  Unborn'
  BY <1>1, <1>2 DEF Unborn
<1>3. ASSUME NEW p \in Procs, StartResponse(p)
      PROVE  Unborn'
  <2>1. started' = started + 1 /\ \A t \in Turns : t > started + 1 => t > started /\ t # started + 1
    BY <1>1, <1>3 DEF StartResponse, Turns
  <2>2. \A t \in Turns : t # started + 1 => Same(t)
    BY <1>1, <1>3 DEF StartResponse, TypeDb
  <2> QED BY <1>1, <2>1, <2>2 DEF Unborn
<1>4. ASSUME NEW p \in Procs, pc[p] \in InTurn,
             \/ AppendDelta(p) \/ FinalizeBegins(p) \/ Put(p) \/ Abort(p) \/ Replace(p)
      PROVE  Unborn'
  <2>1. turn[p] \in Turns /\ turn[p] \in 1 .. started
    BY <1>1, <1>4, TurnsAre
  <2>2. \A t \in Turns : t # turn[p] => Same(t)
    <3>1. CASE AppendDelta(p)
      BY <1>1, <3>1 DEF AppendDelta, TypeSink, TypeHist, db
    <3>2. CASE FinalizeBegins(p) \/ Put(p) \/ Abort(p)
      BY <1>1, <3>2 DEF FinalizeBegins, Put, Abort, TypeSink, db, hist
    <3>3. CASE Replace(p)
      BY <1>1, <3>3 DEF Replace, TypeDb, sink, hist
    <3> QED BY <1>4, <3>1, <3>2, <3>3
  <2>3. \A t \in Turns : t > started => t # turn[p]
    BY <1>1, <2>1 DEF Turns
  <2>4. started' = started
    BY <1>4 DEF AppendDelta, FinalizeBegins, Put, Abort, Replace, hist
  <2> QED BY <1>2, <2>2, <2>3, <2>4
<1>5. ASSUME NEW p \in Procs, Open(p) \/ Prune(p) \/ ClearScope(p)
      PROVE  Unborn'
  <2>1. \A t \in Turns : rows[t] = NoRow /\ chunks[t] = <<>> =>
          rows'[t] = NoRow /\ chunks'[t] = <<>>
    <3>1. CASE Open(p)
      BY <1>1, <3>1 DEF Open, TypeDb, NoRow
    <3>2. CASE Prune(p)
      BY <1>1, <3>2 DEF Prune
    <3>3. CASE ClearScope(p)
      BY <1>1, <3>3 DEF ClearScope
    <3> QED BY <1>5, <3>1, <3>2, <3>3
  <2>2. UNCHANGED <<streamed, buffer, flush_queue, writing, writer_error, started>>
    BY <1>5 DEF Open, Prune, ClearScope, sink, hist
  <2> QED BY <1>1, <2>1, <2>2 DEF Unborn
<1>6. ASSUME NEW p \in Procs, Crash(p)
      PROVE  Unborn'
  <2>1. \A t \in Turns : /\ buffer[t] = <<>> => buffer'[t] = <<>>
                         /\ flush_queue[t] = <<>> => flush_queue'[t] = <<>>
                         /\ writing[t] = NoItem => writing'[t] = NoItem
    BY <1>6 DEF Crash
  <2>2. UNCHANGED <<rows, chunks, streamed, writer_error, started>>
    BY <1>6 DEF Crash, db
  <2> QED BY <1>1, <2>1, <2>2 DEF Unborn
<1>7. ASSUME NEW t \in Turns, Writer(t)
      PROVE  Unborn'
  <2>1. \A u \in Turns : u # t => Same(u)
    BY <1>1, <1>7
       DEF Writer, WriterTakes, WriterEnters, WriterAppends, TypeDb, TypeSink, db, hist
  <2>2. ~(t > started)
    BY <1>1, <1>7 DEF Writer, WriterTakes, WriterEnters, WriterAppends, Unborn
  <2>3. started' = started
    BY <1>7 DEF Writer, WriterTakes, WriterEnters, WriterAppends, hist
  <2> QED BY <1>2, <2>1, <2>2, <2>3
<1>8. ASSUME UNCHANGED <<db, sink, started, streamed>>
      PROVE  Unborn'
  BY <1>1, <1>8 DEF Unborn, db, sink
<1> QED
  BY ZenonT(60), <1>3, <1>4, <1>5, <1>6, <1>7, <1>8, PutsAre
     DEF Next, Sinking, CloseStore, AppendDelta, FinalizeBegins, Put, Abort, Replace,
         WaitTimesOut, FlushAcknowledged, WriterStopped, PruneFails, InTurn, hist
------------------------------------------------------------------------------
(* What is said of a text.                                                   *)

(* finalize, in its parts.                                                   *)
LEMMA ReplacedIs ==
  ASSUME StoreInv, NEW p \in Procs, Replace(p)
  PROVE  /\ turn[p] \in Turns
         /\ \A t \in Turns : t # turn[p] => rows'[t] = rows[t] /\ chunks'[t] = chunks[t]
         /\ \/ rows' = rows /\ chunks' = chunks
            \/ LET text == canonical[p]
                   kept == Prefix(text, MaxResponse)
                   row == rows'[turn[p]]
               IN /\ chunks'[turn[p]] = kept /\ rows[turn[p]].state # "none"
                  /\ row.state \notin {"none", "ACTIVE"}
                  /\ row.retained = Len(kept) /\ row.total = Len(text)
                  /\ row.dropped = Len(text) - Len(kept)
                  /\ row.state = "COMPLETED" => ~(Len(text) > MaxResponse)
<1>1. TypeDb /\ Types /\ Owned
  BY DEF StoreInv, Types
<1>2. turn[p] \in Turns
  BY <1>1, TurnsAre DEF Replace, InTurn
<1>3. \A t \in Turns : t # turn[p] => rows'[t] = rows[t] /\ chunks'[t] = chunks[t]
  BY <1>1 DEF Replace, TypeDb
<1>4. CASE UNCHANGED <<rows, chunks>>
  BY <1>2, <1>3, <1>4
<1>5. CASE ~(UNCHANGED <<rows, chunks>>)
  <2>1. PICK kept : kept = Prefix(canonical[p], MaxResponse)
    OBVIOUS
  <2>2. chunks' = [chunks EXCEPT ![turn[p]] = kept] /\ rows[turn[p]].state # "none"
    BY <1>5, <2>1 DEF Replace
  <2>3. PICK outcome \in {"COMPLETED", "FAILED"} :
          rows' = [rows EXCEPT ![turn[p]] =
                     [state |-> FinalState(outcome, canonical[p]), retained |-> Len(kept),
                      total |-> Len(canonical[p]),
                      dropped |-> Len(canonical[p]) - Len(kept)]]
    BY <1>5, <2>1 DEF Replace
  <2>4. rows'[turn[p]] = [state |-> FinalState(outcome, canonical[p]),
                          retained |-> Len(kept), total |-> Len(canonical[p]),
                          dropped |-> Len(canonical[p]) - Len(kept)]
    BY <1>1, <1>2, <2>3 DEF TypeDb
  <2>5. chunks'[turn[p]] = kept
    BY <1>1, <1>2, <2>2 DEF TypeDb
  <2>6. /\ FinalState(outcome, canonical[p]) \notin {"none", "ACTIVE"}
        /\ FinalState(outcome, canonical[p]) = "COMPLETED" => ~(Len(canonical[p]) > MaxResponse)
    BY DEF FinalState
  <2> QED BY <1>2, <1>3, <2>1, <2>2, <2>4, <2>5, <2>6
<1> QED BY <1>4, <1>5

(* A write of the writer, in its parts.                                      *)
LEMMA WrittenIs ==
  ASSUME StoreInv, NEW t \in Turns, WriterAppends(t), ~(UNCHANGED <<rows, chunks>>)
  PROVE  LET accepted == Prefix(writing[t].text, MaxResponse - rows[t].retained)
         IN /\ rows[t].state = "ACTIVE" /\ ~writer_error[t] /\ writer_error' = writer_error
            /\ chunks'[t] = chunks[t] \o accepted
            /\ rows'[t].state = "ACTIVE"
            /\ rows'[t].retained = rows[t].retained + Len(accepted)
            /\ rows'[t].total = rows[t].total + Len(writing[t].text)
            /\ rows'[t].dropped = rows'[t].total - rows'[t].retained
<1>1. TypeDb
  BY DEF StoreInv, Types
<1>2. rows[t] \in RowType
  BY <1>1 DEF TypeDb
<1>3. PICK accepted : accepted = Prefix(writing[t].text, MaxResponse - rows[t].retained)
  OBVIOUS
<1>4. /\ rows[t].state = "ACTIVE" /\ ~writer_error[t] /\ writer_error' = writer_error
      /\ chunks' = [chunks EXCEPT ![t] = @ \o accepted]
  BY <1>3 DEF WriterAppends, Appendable, Disabled
<1>5. PICK retained : retained = rows[t].retained + Len(accepted)
  OBVIOUS
<1>6. PICK total : total = rows[t].total + Len(writing[t].text)
  OBVIOUS
<1>7. rows' = [rows EXCEPT ![t].retained = retained, ![t].total = total,
                           ![t].dropped = total - retained]
  BY <1>3, <1>5, <1>6 DEF WriterAppends
<1>8. /\ rows'[t].state = rows[t].state /\ rows'[t].retained = retained
      /\ rows'[t].total = total /\ rows'[t].dropped = total - retained
  BY <1>1, <1>2, <1>7 DEF TypeDb, RowType
<1>9. chunks'[t] = chunks[t] \o accepted
  BY <1>1, <1>4 DEF TypeDb
<1> QED BY <1>3, <1>4, <1>5, <1>6, <1>8, <1>9

(* What each other step leaves of a row and its text.                        *)
Untouched(t) == rows'[t] = rows[t] /\ chunks'[t] = chunks[t]

Restated(t) ==
  /\ rows[t].state = "ACTIVE" /\ rows'[t].state \in {"PARTIAL", "INTERRUPTED"}
  /\ chunks'[t] = chunks[t] /\ rows'[t].retained = rows[t].retained
  /\ rows'[t].total = rows[t].total /\ rows'[t].dropped = rows[t].dropped

Born(t) == /\ t > started /\ chunks'[t] = <<>>
           /\ rows'[t] = [NoRow EXCEPT !.state = "ACTIVE"]

(* Its text stays only if a connection does not cascade.                     *)
Removed(t) ==
  /\ rows'[t] = NoRow
  /\ chunks'[t] # <<>> => /\ chunks'[t] = chunks[t]
                          /\ t \notin Rows \/ \E p \in Procs : store[p] /\ ~foreign_keys[p]

LEMMA StepsOfARow ==
  ASSUME StoreInv, Next, NEW t \in Turns
  PROVE  \/ Untouched(t) \/ Restated(t) \/ Born(t) \/ Removed(t)
         \/ WriterAppends(t) /\ ~(UNCHANGED <<rows, chunks>>)
         \/ \E p \in Procs : turn[p] = t /\ Replace(p) /\ ~(UNCHANGED <<rows, chunks>>)
<1>1. TypeDb /\ TypeHist /\ Types /\ Owned /\ Unborn
  BY DEF StoreInv, Types
<1>2. ASSUME NEW p \in Procs, Open(p)
      PROVE  Untouched(t) \/ Restated(t)
  <2>1. chunks'[t] = chunks[t]
    BY <1>2 DEF Open
  <2>2. CASE rows[t].state = "ACTIVE"
    <3>1. rows'[t] = [rows[t] EXCEPT !.state = Recovered(rows[t])] /\ rows[t] \in RowType
      BY <1>1, <1>2, <2>2 DEF Open, TypeDb
    <3>2. /\ rows'[t].state = Recovered(rows[t]) /\ rows'[t].retained = rows[t].retained
          /\ rows'[t].total = rows[t].total /\ rows'[t].dropped = rows[t].dropped
      BY <3>1 DEF RowType
    <3>3. Recovered(rows[t]) \in {"PARTIAL", "INTERRUPTED"}
      BY DEF Recovered
    <3> QED BY <2>1, <2>2, <3>2, <3>3 DEF Restated
  <2>3. CASE rows[t].state # "ACTIVE"
    BY <1>2, <2>1, <2>3 DEF Open, Untouched
  <2> QED BY <2>2, <2>3
<1>3. ASSUME NEW p \in Procs, Prune(p)
      PROVE  Untouched(t) \/ Removed(t)
  <2>1. PICK gone : /\ rows' = [u \in Turns |-> IF u \in gone THEN NoRow ELSE rows[u]]
                    /\ chunks' = [u \in Turns |-> IF u \in gone THEN <<>> ELSE chunks[u]]
    BY <1>3 DEF Prune
  <2> QED BY <2>1 DEF Untouched, Removed
<1>4. ASSUME NEW p \in Procs, ClearScope(p)
      PROVE  Removed(t)
  BY <1>4 DEF ClearScope, Removed
<1>5. ASSUME NEW p \in Procs, StartResponse(p)
      PROVE  Untouched(t) \/ Born(t)
  <2>1. CASE t = started + 1
    <3>1. t > started /\ chunks[t] = <<>>
      BY <1>1, <2>1 DEF Unborn, TypeHist
    <3> QED BY <1>1, <1>5, <2>1, <3>1 DEF StartResponse, Born, TypeDb
  <2>2. CASE t # started + 1
    BY <1>1, <1>5, <2>2 DEF StartResponse, Untouched, TypeDb
  <2> QED BY <2>1, <2>2
<1>6. ASSUME NEW p \in Procs, Replace(p)
      PROVE  Untouched(t) \/ (turn[p] = t /\ Replace(p) /\ ~(UNCHANGED <<rows, chunks>>))
  BY <1>6, ReplacedIs DEF Untouched
<1>7. ASSUME NEW u \in Turns, WriterAppends(u)
      PROVE  Untouched(t) \/ (WriterAppends(t) /\ ~(UNCHANGED <<rows, chunks>>))
  <2>1. CASE u # t
    BY <1>1, <1>7, <2>1 DEF WriterAppends, Untouched, TypeDb
  <2>2. CASE u = t
    BY <1>7, <2>2 DEF Untouched
  <2> QED BY <2>1, <2>2
<1>8. ASSUME UNCHANGED <<rows, chunks>>
      PROVE  Untouched(t)
  BY <1>8 DEF Untouched
<1>9. ASSUME NEW p \in Procs, Sinking(p)
      PROVE  \/ Untouched(t) \/ Prune(p)
             \/ (turn[p] = t /\ Replace(p) /\ ~(UNCHANGED <<rows, chunks>>))
  BY SMTT(60), <1>6, <1>8, <1>9
     DEF Sinking, db, Put, WaitTimesOut, FlushAcknowledged, WriterStopped, PruneFails, Abort
<1>10. ASSUME NEW p \in Procs, CloseStore(p) \/ AppendDelta(p) \/ FinalizeBegins(p) \/ Crash(p)
       PROVE  Untouched(t)
  BY <1>8, <1>10 DEF db, CloseStore, AppendDelta, FinalizeBegins, Crash
<1>11. ASSUME NEW u \in Turns, Writer(u)
       PROVE  Untouched(t) \/ (WriterAppends(t) /\ ~(UNCHANGED <<rows, chunks>>))
  BY <1>7, <1>8, <1>11 DEF Writer, db, WriterTakes, WriterEnters
<1> QED
  BY SMTT(60), <1>2, <1>3, <1>4, <1>5, <1>8, <1>9, <1>10, <1>11 DEF Next

LEMMA SumsKept ==
  ASSUME StoreInv, Next, NEW t \in Turns
  PROVE  Sums(t)'
<1>1. TypeDb /\ TypeProc /\ Types /\ Sums(t) /\ Len(<<>>) = 0 /\ MaxResponse \in Nat
  BY TranscriptAssumption DEF StoreInv, Types
<1>2. CASE Untouched(t) \/ Restated(t)
  BY <1>1, <1>2 DEF Sums, Untouched, Restated
<1>3. CASE Born(t)
  BY <1>1, <1>3 DEF Sums, Born, NoRow
<1>4. CASE Removed(t)
  BY <1>4 DEF Sums, Removed, NoRow
<1>5. CASE WriterAppends(t) /\ ~(UNCHANGED <<rows, chunks>>)
  <2>1. PICK accepted : accepted = Prefix(writing[t].text, MaxResponse - rows[t].retained)
    OBVIOUS
  <2>2. PICK retained : retained = rows[t].retained + Len(accepted)
    OBVIOUS
  <2>3. PICK total : total = rows[t].total + Len(writing[t].text)
    OBVIOUS
  <2>4. /\ rows[t].state = "ACTIVE" /\ chunks'[t] = chunks[t] \o accepted
        /\ rows'[t].state = "ACTIVE" /\ rows'[t].retained = retained
        /\ rows'[t].total = total /\ rows'[t].dropped = total - retained
    BY <1>5, <2>1, <2>2, <2>3, WrittenIs
  <2>5. /\ Len(chunks[t] \o accepted) = retained /\ retained \in Nat /\ total \in Nat
        /\ retained <= MaxResponse
    BY <1>1, <2>1, <2>2, <2>3, <2>4, AddedIs
  <2>6. total = retained + (total - retained)
    BY <2>5
  <2> QED BY <2>4, <2>5, <2>6 DEF Sums
<1>6. ASSUME NEW p \in Procs, turn[p] = t, Replace(p), ~(UNCHANGED <<rows, chunks>>)
      PROVE  Sums(t)'
  <2>1. PICK text : text = canonical[p]
    OBVIOUS
  <2>2. PICK kept : kept = Prefix(text, MaxResponse)
    OBVIOUS
  <2>3. /\ text \in Seq(Nat) /\ Len(text) \in Nat
    BY <1>1, <2>1, LenProperties DEF TypeProc
  <2>4. /\ kept \in Seq(Nat)
        /\ Len(kept) = IF Len(text) < MaxResponse THEN Len(text) ELSE MaxResponse
    BY <1>1, <2>2, <2>3, PrefixIs
  <2>5. /\ chunks'[t] = kept /\ rows'[t].retained = Len(kept) /\ rows'[t].total = Len(text)
        /\ rows'[t].dropped = Len(text) - Len(kept)
        /\ rows'[t].state = "COMPLETED" => ~(Len(text) > MaxResponse)
    BY <1>6, <2>1, <2>2, ReplacedIs
  <2>6. /\ Len(kept) \in Nat /\ Len(kept) <= MaxResponse
        /\ Len(text) = Len(kept) + (Len(text) - Len(kept))
        /\ ~(Len(text) > MaxResponse) => Len(text) - Len(kept) = 0
    BY <1>1, <2>3, <2>4
  <2> QED BY <2>5, <2>6 DEF Sums
<1> QED BY <1>2, <1>3, <1>4, <1>5, <1>6, StepsOfARow

LEMMA CascadesKept ==
  ASSUME StoreInv, Next
  PROVE  Cascades'
<1>1. TypeDb /\ TypeProc /\ Types /\ Cascades
  BY DEF StoreInv, Types
<1>2. ASSUME ~Fresh
      PROVE  Cascades'
  <2>1. schema /\ NoOrphans /\ \A p \in Procs : store[p] => foreign_keys[p]
    BY <1>1, <1>2 DEF Cascades
  <2>2. schema' = schema \/ schema' = TRUE
    BY ZenonT(60) DEF Next, Sinking, Writer, db, Open, ClearScope, CloseStore, StartResponse, AppendDelta,
           FinalizeBegins, Crash, Put, WaitTimesOut, FlushAcknowledged, WriterStopped,
           Replace, Prune, PruneFails, Abort, WriterTakes, WriterEnters, WriterAppends
  <2>3. ASSUME NEW q \in Procs, store'[q]
        PROVE  foreign_keys'[q]
    <3>1. ASSUME NEW p \in Procs, Open(p)
          PROVE  foreign_keys'[q]
      BY <1>1, <2>1, <2>3, <3>1 DEF Open, PragmaWorks, TypeProc
    <3>2. ASSUME NEW p \in Procs, CloseStore(p) \/ Crash(p)
          PROVE  foreign_keys'[q]
      BY <1>1, <2>1, <2>3, <3>2 DEF CloseStore, Crash, TypeProc
    <3>3. ASSUME UNCHANGED <<store, foreign_keys>>
          PROVE  foreign_keys'[q]
      BY <2>1, <2>3, <3>3
    <3> QED
      BY ZenonT(60), <3>1, <3>2, <3>3
         DEF Next, Sinking, Writer, proc, ClearScope, StartResponse, AppendDelta,
             FinalizeBegins, Put, WaitTimesOut, FlushAcknowledged, WriterStopped, Replace,
             Prune, PruneFails, Abort, WriterTakes, WriterEnters, WriterAppends
  <2>4. ASSUME NEW t \in Turns, chunks'[t] # <<>>
        PROVE  rows'[t].state # "none"
    <3>1. chunks[t] # <<>> => rows[t].state # "none"
      BY <2>1 DEF NoOrphans, Rows
    <3>2. CASE Untouched(t) \/ Restated(t)
      BY <2>4, <3>1, <3>2 DEF Untouched, Restated
    <3>3. CASE Born(t)
      BY <2>4, <3>3 DEF Born
    <3>4. CASE Removed(t)
      BY <2>1, <2>4, <3>1, <3>4 DEF Removed, Rows
    <3>5. CASE WriterAppends(t) /\ ~(UNCHANGED <<rows, chunks>>)
      BY <3>5, WrittenIs
    <3>6. ASSUME NEW p \in Procs, turn[p] = t, Replace(p), ~(UNCHANGED <<rows, chunks>>)
          PROVE  rows'[t].state # "none"
      BY <3>6, ReplacedIs
    <3> QED BY <3>2, <3>3, <3>4, <3>5, <3>6, StepsOfARow
  <2>5. NoOrphans'
    BY <2>4 DEF NoOrphans, Rows
  <2>6. schema'
    BY <2>1, <2>2
  <2> QED BY <2>3, <2>5, <2>6 DEF Cascades
<1> QED BY <1>2 DEF Cascades

(* A turn streams on, and what has been streamed stays so.                   *)
LEMMA StreamGrows ==
  ASSUME StoreInv, Next, NEW t \in Turns
  PROVE  /\ streamed[t] \in Nat /\ streamed'[t] \in Nat /\ streamed[t] <= streamed'[t]
         /\ streamed'[t] <= MaxBytes
<1>1. TypeHist /\ TypeHist' /\ MaxBytes \in Nat
  BY TypeHistKept, TranscriptAssumption DEF StoreInv, Types
<1>2. streamed[t] \in Nat /\ streamed'[t] \in Nat /\ streamed'[t] <= MaxBytes
  BY <1>1 DEF TypeHist
<1>3. streamed' = streamed \/ \E u : streamed' = [streamed EXCEPT ![u] = @ + 1]
  BY ZenonT(60) DEF Next, Sinking, Writer, hist, Open, ClearScope, CloseStore, StartResponse,
         AppendDelta, FinalizeBegins, Crash, Put, WaitTimesOut, FlushAcknowledged,
         WriterStopped, Replace, Prune, PruneFails, Abort, WriterTakes, WriterEnters,
         WriterAppends
<1>4. streamed'[t] = streamed[t] \/ streamed'[t] = streamed[t] + 1
  BY <1>1, <1>3 DEF TypeHist
<1> QED BY <1>2, <1>4

LEMMA CanonicalKept ==
  ASSUME StoreInv, Next
  PROVE  Canonical'
<1>1. /\ TypeDb /\ TypeProc /\ TypeHist /\ Types /\ Owned /\ Canonical
      /\ TypeProc' /\ MaxBytes \in Nat
  BY TypeProcKept, TranscriptAssumption DEF StoreInv, Types
<1> DEFINE Good(text, t) == \/ text = Zeros(Len(text)) /\ Len(text) <= MaxBytes
                            \/ t \in Turns /\ FromStream(text, streamed[t])
<1>2. \A t \in Turns : streamed[t] \in Nat /\ streamed'[t] \in Nat /\ streamed[t] <= streamed'[t]
  BY StreamGrows
<1>3. ASSUME NEW q \in Procs, canonical'[q] = canonical[q],
             turn'[q] = turn[q] \/ turn[q] \notin Turns
      PROVE  Good(canonical[q], turn[q])'
  <2>1. canonical[q] \in Seq(Nat) /\ Len(canonical[q]) \in Nat
    BY <1>1, LenProperties DEF TypeProc
  <2>2. Good(canonical[q], turn[q])
    BY <1>1 DEF Canonical
  <2>3. CASE canonical[q] = Zeros(Len(canonical[q])) /\ Len(canonical[q]) <= MaxBytes
    BY <1>3, <2>3
  <2>4. CASE turn[q] \in Turns /\ FromStream(canonical[q], streamed[turn[q]])
    <3>1. FromStream(canonical[q], streamed'[turn[q]])
      BY <1>2, <2>1, <2>4 DEF FromStream
    <3> QED BY <1>3, <2>4, <3>1
  <2> QED BY <2>2, <2>3, <2>4
<1>4. ASSUME NEW q \in Procs, canonical'[q] = <<>>
      PROVE  Good(canonical[q], turn[q])'
  <2>1. Len(<<>>) = 0 /\ Zeros(0) = <<>>
    BY ZerosAre, EmptySeq
  <2> QED BY <1>1, <1>4, <2>1
<1>5. ASSUME NEW p \in Procs, FinalizeBegins(p)
      PROVE  Good(canonical[p], turn[p])'
  <2>1. turn[p] \in Turns
    BY <1>1, <1>5, TurnsAre DEF FinalizeBegins, InTurn
  <2>2. PICK text \in Finals(turn[p]) : canonical' = [canonical EXCEPT ![p] = text]
    BY <1>5 DEF FinalizeBegins
  <2>3. canonical'[p] = text
    BY <1>1, <2>2 DEF TypeProc
  <2>4. turn'[p] = turn[p] /\ streamed' = streamed
    BY <1>5 DEF FinalizeBegins, hist
  <2>5. PICK n : n = streamed[turn[p]]
    OBVIOUS
  <2>6. n \in Nat
    BY <1>2, <2>1, <2>5
  <2>7. text = Bytes(0, n) \/ text = Zeros(MaxBytes)
    BY <2>5, <2>6 DEF Finals, Bytes, Zeros
  <2>8. CASE text = Bytes(0, n)
    <3>1. Len(text) = n
      BY <2>6, <2>8, BytesAre
    <3>2. FromStream(text, n)
      BY <2>6, <2>8, <3>1 DEF FromStream
    <3> QED BY <2>1, <2>3, <2>4, <2>5, <3>2
  <2>9. CASE text = Zeros(MaxBytes)
    <3>1. Len(text) = MaxBytes
      BY <1>1, <2>9, ZerosAre
    <3> QED BY <1>1, <2>3, <2>9, <3>1
  <2> QED BY <2>7, <2>8, <2>9
<1>6. ASSUME NEW p \in Procs, FinalizeBegins(p), NEW q \in Procs, q # p
      PROVE  canonical'[q] = canonical[q] /\ turn'[q] = turn[q]
  BY <1>1, <1>6 DEF FinalizeBegins, TypeProc
<1>7. ASSUME NEW p \in Procs, NEW q \in Procs, Prune(p) \/ Abort(p) \/ Crash(p)
      PROVE  \/ canonical'[q] = <<>>
             \/ canonical'[q] = canonical[q] /\ turn'[q] = turn[q]
  BY <1>1, <1>7 DEF Prune, Abort, Crash, LeaveTurn, TypeProc
<1>8. ASSUME NEW p \in Procs, NEW q \in Procs, StartResponse(p)
      PROVE  canonical'[q] = canonical[q] /\ (turn'[q] = turn[q] \/ turn[q] \notin Turns)
  <2>1. turn[p] = 0
    BY <1>1, <1>8 DEF StartResponse, Owned, AtRest
  <2> QED BY <1>1, <1>8, <2>1 DEF StartResponse, TypeProc, Turns
<1>9. ASSUME UNCHANGED <<canonical, turn>>, NEW q \in Procs
      PROVE  canonical'[q] = canonical[q] /\ turn'[q] = turn[q]
  BY <1>9
<1>10. ASSUME NEW q \in Procs
       PROVE  Good(canonical[q], turn[q])'
  <2>1. \/ UNCHANGED <<canonical, turn>>
        \/ \E p \in Procs : \/ FinalizeBegins(p) \/ StartResponse(p)
                            \/ Prune(p) \/ Abort(p) \/ Crash(p)
    BY ZenonT(60) DEF Next, Sinking, Writer, proc, Open, ClearScope, CloseStore, AppendDelta, Put,
           WaitTimesOut, FlushAcknowledged, WriterStopped, Replace, PruneFails,
           WriterTakes, WriterEnters, WriterAppends
  <2> HIDE DEF Good
  <2> QED BY <1>3, <1>4, <1>5, <1>6, <1>7, <1>8, <1>9, <2>1
<1> QED BY <1>10 DEF Canonical

LEMMA KeptKept ==
  ASSUME StoreInv, Next, NEW t \in Turns
  PROVE  Kept(t)'
<1>1. /\ TypeDb /\ TypeProc /\ TypeSink /\ TypeHist /\ Types /\ Owned /\ Canonical
      /\ Kept(t) /\ Sums(t) /\ Flow(t) /\ MaxBytes \in Nat /\ MaxResponse \in Nat
  BY TranscriptAssumption DEF StoreInv, Types
<1>2. /\ streamed[t] \in Nat /\ streamed'[t] \in Nat /\ streamed[t] <= streamed'[t]
  BY StreamGrows
<1>3. ASSUME rows[t].state # "none", rows'[t].total = rows[t].total, chunks'[t] = chunks[t]
      PROVE  Kept(t)'
  <2>1. Len(chunks[t]) \in Nat /\ rows[t].total \in Nat
    BY <1>1, LenProperties, RecordsAre DEF TypeDb
  <2>2. FromStream(chunks[t], streamed[t]) => FromStream(chunks[t], streamed'[t])
    BY <1>2, <2>1 DEF FromStream
  <2>3. rows[t].total <= streamed[t] => rows[t].total <= streamed'[t]
    BY <1>2, <2>1
  <2> QED BY <1>1, <1>3, <2>2, <2>3 DEF Kept
<1>4. CASE Untouched(t) \/ Restated(t)
  BY <1>3, <1>4 DEF Untouched, Restated, Kept
<1>5. CASE Born(t)
  <2>1. Len(<<>>) = 0 /\ Zeros(0) = <<>>
    BY ZerosAre, EmptySeq
  <2>2. chunks'[t] = <<>> /\ rows'[t].total = 0
    BY <1>5 DEF Born, NoRow
  <2> QED BY <1>1, <2>1, <2>2 DEF Kept
<1>6. CASE Removed(t)
  BY <1>6 DEF Kept, Removed, NoRow
<1>7. CASE WriterAppends(t) /\ ~(UNCHANGED <<rows, chunks>>)
  <2>1. Writes(t)
    BY <1>1, <1>7, WrittenIs DEF Writes, WriterAppends
  <2>2. PICK r : r = rows[t].retained
    OBVIOUS
  <2>3. PICK n : n = rows[t].total
    OBVIOUS
  <2>4. n \in Nat /\ chunks[t] = Bytes(0, r) /\ r = Cut(n)
    BY <1>1, <2>1, <2>2, <2>3, RecordsAre DEF Flow, Told, TypeDb
  <2>5. PICK a \in 0 .. streamed[t] : n <= a /\ writing[t].text = Bytes(n, a)
    BY <1>1, <2>1, <2>3 DEF Flow, Parts
  <2>6. a \in Nat /\ a <= streamed[t]
    BY <1>2, <2>5
  <2>7. /\ chunks'[t] = chunks[t] \o Prefix(Bytes(n, a), MaxResponse - r)
        /\ rows'[t].total = n + Len(Bytes(n, a))
    BY <1>7, <2>2, <2>3, <2>5, WrittenIs
  <2>8. rows'[t].total = a
    <3>1. Len(Bytes(n, a)) = a - n
      BY <2>4, <2>5, <2>6, BytesAre
    <3> QED BY <2>4, <2>6, <2>7, <3>1
  <2>9. PICK c : c = Cut(a)
    OBVIOUS
  <2>10. chunks'[t] = Bytes(0, c) /\ c \in Nat /\ c <= a
    BY <2>4, <2>5, <2>6, <2>7, <2>9, WrittenBytes, CutIs
  <2>11. Len(chunks'[t]) = c
    BY <2>10, BytesAre
  <2>12. FromStream(chunks'[t], streamed'[t])
    BY <1>2, <2>6, <2>10, <2>11 DEF FromStream
  <2>13. rows'[t].total <= streamed'[t]
    BY <1>2, <2>6, <2>8
  <2> QED BY <2>12, <2>13 DEF Kept
<1>8. ASSUME NEW p \in Procs, turn[p] = t, Replace(p), ~(UNCHANGED <<rows, chunks>>)
      PROVE  Kept(t)'
  <2>1. PICK text : text = canonical[p]
    OBVIOUS
  <2>2. PICK kept : kept = Prefix(text, MaxResponse)
    OBVIOUS
  <2>3. text \in Seq(Nat) /\ Len(text) \in Nat
    BY <1>1, <2>1, LenProperties DEF TypeProc
  <2>4. chunks'[t] = kept /\ rows'[t].total = Len(text)
    BY <1>8, <2>1, <2>2, ReplacedIs
  <2>5. streamed' = streamed
    BY <1>8 DEF Replace, hist
  <2>6. CASE text = Zeros(Len(text)) /\ Len(text) <= MaxBytes
    <3>1. kept = Zeros(Len(kept))
      BY <1>1, <2>2, <2>3, <2>6, ZerosPrefix
    <3> QED BY <2>4, <2>6, <3>1 DEF Kept
  <2>7. CASE FromStream(text, streamed[t])
    <3>1. FromStream(kept, streamed[t])
      BY <1>1, <1>2, <2>2, <2>3, <2>7, StreamPrefix
    <3>2. Len(text) <= streamed[t]
      BY <2>7 DEF FromStream
    <3> QED BY <2>4, <2>5, <3>1, <3>2 DEF Kept
  <2> QED BY <1>1, <1>8, <2>1, <2>6, <2>7 DEF Canonical
<1> QED BY <1>4, <1>5, <1>6, <1>7, <1>8, StepsOfARow
------------------------------------------------------------------------------
(* The bytes on their way to an active row.                                  *)

LEMMA OneOwner ==
  ASSUME Types, Owned, NEW p \in Procs, NEW q \in Procs, turn[p] \in Turns,
         turn[q] = turn[p]
  PROVE  q = p
<1>1. pc[p] \in AtRest \cup InTurn /\ pc[q] \in AtRest \cup InTurn
  BY DEF Types, TypeProc
<1>2. turn[p] # 0
  BY DEF Turns
<1>3. owner[turn[p]] = p /\ owner[turn[q]] = q
  BY <1>1, <1>2 DEF Owned
<1> QED BY <1>3

(* A step elsewhere leaves the flow as it is: the main thread of the turn    *)
(* stays where it was, or goes where it has nothing left to put.             *)
Undisturbed(t) ==
  /\ Untouched(t) /\ writing'[t] = writing[t] /\ flush_queue'[t] = flush_queue[t]
  /\ buffer'[t] = buffer[t] /\ streamed'[t] = streamed[t]
  /\ writer_error'[t] = writer_error[t] /\ writer'[t] = writer[t]

Stays(p) ==
  \/ pc'[p] = pc[p] /\ item'[p] = item[p]
  \/ pc'[p] \notin {"stream", "put", "flushput", "stopput"}
  \/ pc'[p] = "stopput" /\ item'[p].text = <<>>

LEMMA FlowFrame ==
  ASSUME NEW t \in Turns, Flow(t), Undisturbed(t),
         \A p \in Procs : turn'[p] = t => turn[p] = t /\ Stays(p)
  PROVE  Flow(t)'
<1>1. Writes(t)' => Writes(t)
  BY DEF Writes, Undisturbed, Untouched
<1>2. Told(t) => Told(t)'
  BY DEF Told, Undisturbed, Untouched
<1>3. ASSUME NEW a, NEW b, Parts(t, a, b)
      PROVE  Parts(t, a, b)'
  <2>1. ASSUME NEW p \in Procs, turn'[p] = t
        PROVE  Pending(p, b)'
    <3>1. turn[p] = t /\ Stays(p) /\ Pending(p, b)
      BY <1>3, <2>1 DEF Parts
    <3>2. buffer'[t] = buffer[t] /\ streamed'[t] = streamed[t]
      BY DEF Undisturbed
    <3>3. CASE pc'[p] = pc[p] /\ item'[p] = item[p]
      BY <2>1, <3>1, <3>2, <3>3 DEF Pending
    <3>4. CASE pc'[p] \notin {"stream", "put", "flushput", "stopput"}
      BY <3>4 DEF Pending
    <3>5. CASE pc'[p] = "stopput" /\ item'[p].text = <<>>
      BY <3>5 DEF Pending
    <3> QED BY <3>1, <3>3, <3>4, <3>5 DEF Stays
  <2> QED BY <1>3, <2>1 DEF Parts, Undisturbed, Untouched
<1>4. streamed'[t] = streamed[t]
  BY DEF Undisturbed
<1> QED BY <1>1, <1>2, <1>3, <1>4 DEF Flow

(* Steps of another turn, and the ends of this one.                          *)
LEMMA FlowElsewhere ==
  ASSUME StoreInv, NEW p \in Procs, NEW t \in Turns, turn[p] # t,
         \/ AppendDelta(p) \/ FinalizeBegins(p) \/ Put(p) \/ Abort(p)
  PROVE  Flow(t)'
<1>1. TypeDb /\ TypeProc /\ TypeSink /\ TypeHist /\ Flow(t)
  BY DEF StoreInv, Types
<1>2. Untouched(t)
  BY DEF AppendDelta, FinalizeBegins, Put, Abort, Untouched, db
<1>3. /\ writing' = writing /\ writer_error' = writer_error /\ writer' = writer
  BY DEF AppendDelta, FinalizeBegins, Put, Abort
<1>4. /\ flush_queue'[t] = flush_queue[t] /\ buffer'[t] = buffer[t]
  BY <1>1 DEF AppendDelta, FinalizeBegins, Put, Abort, TypeSink
<1>5. streamed'[t] = streamed[t]
  BY <1>1 DEF AppendDelta, FinalizeBegins, Put, Abort, hist, TypeHist
<1>6. Undisturbed(t)
  BY <1>2, <1>3, <1>4, <1>5 DEF Undisturbed
<1>7. ASSUME NEW q \in Procs, turn'[q] = t
      PROVE  turn[q] = t /\ Stays(q)
  <2>1. turn[q] = t
    BY <1>1, <1>7 DEF AppendDelta, FinalizeBegins, Put, Abort, LeaveTurn, TypeProc, Turns
  <2>2. pc'[q] = pc[q] /\ item'[q] = item[q]
    BY <1>1, <2>1 DEF AppendDelta, FinalizeBegins, Put, Abort, LeaveTurn, GoTo, TypeProc
  <2> QED BY <2>1, <2>2 DEF Stays
<1> QED BY <1>1, <1>6, <1>7, FlowFrame

LEMMA FlowOfMain ==
  ASSUME StoreInv, Next, NEW p \in Procs, NEW t \in Turns,
         \/ Open(p) \/ Prune(p) \/ ClearScope(p) \/ CloseStore(p) \/ WaitTimesOut(p)
         \/ FlushAcknowledged(p) \/ WriterStopped(p) \/ Replace(p) \/ PruneFails(p)
  PROVE  Flow(t)'
<1>1. TypeDb /\ TypeProc /\ TypeSink /\ TypeHist /\ Types /\ Owned /\ Flow(t)
  BY DEF StoreInv, Types
<1>2. sink' = sink /\ streamed' = streamed
  BY DEF Open, Prune, ClearScope, CloseStore, WaitTimesOut, FlushAcknowledged,
         WriterStopped, Replace, PruneFails, hist
<1>3. CASE Untouched(t)
  <2>1. Undisturbed(t)
    BY <1>2, <1>3 DEF Undisturbed, sink
  <2>2. ASSUME NEW q \in Procs, turn'[q] = t
        PROVE  turn[q] = t /\ Stays(q)
    <3>1. turn[q] = t
      BY <1>1, <2>2 DEF Open, Prune, ClearScope, CloseStore, WaitTimesOut,
            FlushAcknowledged, WriterStopped, Replace, PruneFails, LeaveTurn, TypeProc,
            Turns, proc
    <3>2. CASE q # p
      <4>1. pc'[q] = pc[q] /\ item'[q] = item[q]
        BY <1>1, <3>2 DEF Open, Prune, ClearScope, CloseStore, WaitTimesOut,
              FlushAcknowledged, WriterStopped, Replace, PruneFails, LeaveTurn, GoTo,
              TypeProc, proc
      <4> QED BY <3>1, <4>1 DEF Stays
    <3>3. CASE q = p
      <4>1. CASE Open(p) \/ Prune(p) \/ ClearScope(p) \/ CloseStore(p)
        <5>1. \/ pc'[q] = pc[q] /\ item'[q] = item[q]
              \/ pc'[q] \in {"openprune", "idle"}
          BY <1>1, <3>3, <4>1 DEF Open, Prune, ClearScope, CloseStore, LeaveTurn, GoTo,
                TypeProc, proc
        <5> QED BY <3>1, <5>1 DEF Stays
      <4>2. CASE WaitTimesOut(p) \/ WriterStopped(p) \/ Replace(p) \/ PruneFails(p)
        <5>1. pc'[q] \in {"abort", "replace", "prune"}
          BY <1>1, <3>3, <4>2 DEF WaitTimesOut, WriterStopped, Replace, PruneFails, GoTo,
                TypeProc
        <5> QED BY <3>1, <5>1 DEF Stays
      <4>3. CASE FlushAcknowledged(p)
        <5>1. CASE item' = item /\ pc' = [pc EXCEPT ![p] = "abort"]
          <6>1. pc'[q] = "abort"
            BY <1>1, <3>3, <5>1 DEF TypeProc
          <6> QED BY <3>1, <6>1 DEF Stays
        <5>2. CASE item' = [item EXCEPT ![p] = Stop] /\ pc' = [pc EXCEPT ![p] = "stopput"]
          <6>1. item'[q] = Stop /\ pc'[q] = "stopput"
            BY <1>1, <3>3, <5>2 DEF TypeProc
          <6>2. item'[q].text = <<>>
            BY <6>1, RecordsAre
          <6> QED BY <3>1, <6>1, <6>2 DEF Stays
        <5> QED BY <4>3, <5>1, <5>2 DEF FlushAcknowledged, GoTo
      <4> QED BY <4>1, <4>2, <4>3
    <3> QED BY <3>1, <3>2, <3>3
  <2> QED BY <1>1, <2>1, <2>2, FlowFrame
<1>4. CASE ~Untouched(t)
  <2>1. rows'[t].state # "ACTIVE"
    <3>1. CASE Open(p)
      <4>1. rows[t].state = "ACTIVE"
            /\ rows'[t] = [rows[t] EXCEPT !.state = Recovered(rows[t])]
        BY <1>4, <3>1 DEF Open, Untouched
      <4>2. rows[t] \in RowType /\ Recovered(rows[t]) # "ACTIVE"
        BY <1>1 DEF TypeDb, Recovered
      <4> QED BY <4>1, <4>2 DEF RowType
    <3>2. CASE Prune(p)
      <4>1. PICK gone : /\ rows' = [u \in Turns |-> IF u \in gone THEN NoRow ELSE rows[u]]
                        /\ chunks' = [u \in Turns |-> IF u \in gone THEN <<>> ELSE chunks[u]]
        BY <3>2 DEF Prune
      <4> QED BY <1>4, <4>1 DEF Untouched, NoRow
    <3>3. CASE ClearScope(p)
      BY <3>3 DEF ClearScope, NoRow
    <3>4. CASE Replace(p)
      <4>1. turn[p] = t /\ ~(rows' = rows /\ chunks' = chunks)
        BY <1>4, <3>4, ReplacedIs DEF Untouched
      <4> QED BY <3>4, <4>1, ReplacedIs
    <3>5. CASE \/ CloseStore(p) \/ WaitTimesOut(p) \/ FlushAcknowledged(p)
               \/ WriterStopped(p) \/ PruneFails(p)
      BY <1>4, <3>5 DEF CloseStore, WaitTimesOut, FlushAcknowledged, WriterStopped,
                        PruneFails, Untouched, db
    <3> QED BY <3>1, <3>2, <3>3, <3>4, <3>5
  <2> QED BY <2>1 DEF Flow, Writes
<1> QED BY <1>3, <1>4

LEMMA FlowOfStart ==
  ASSUME StoreInv, NEW p \in Procs, StartResponse(p), NEW t \in Turns
  PROVE  Flow(t)'
<1>1. /\ TypeDb /\ TypeProc /\ TypeSink /\ TypeHist /\ Types /\ Owned /\ Unborn /\ Flow(t)
      /\ MaxTurns \in Nat /\ MaxBytes \in Nat
  BY TranscriptAssumption DEF StoreInv, Types
<1>2. ASSUME NEW q \in Procs
      PROVE  /\ turn'[q] = IF q = p THEN started + 1 ELSE turn[q]
             /\ q # p => pc'[q] = pc[q] /\ item'[q] = item[q]
  BY <1>1 DEF StartResponse, GoTo, TypeProc
<1>3. started \in Nat /\ \A q \in Procs : turn[q] # started + 1
  <2>1. started \in Nat
    BY <1>1 DEF TypeHist
  <2>2. ASSUME NEW q \in Procs
        PROVE  turn[q] # started + 1
    <3>1. pc[q] \in AtRest \cup InTurn
      BY <1>1 DEF TypeProc
    <3> QED BY <1>1, <2>1, <3>1 DEF Owned
  <2> QED BY <2>1, <2>2
<1>4. /\ UNCHANGED <<buffer, flush_queue, writing, writer_error, streamed, chunks>>
  BY DEF StartResponse
<1>5. CASE t # started + 1
  <2>1. Undisturbed(t)
    <3>1. rows'[t] = rows[t] /\ writer'[t] = writer[t]
      BY <1>1, <1>5 DEF StartResponse, TypeDb, TypeSink
    <3> QED BY <1>4, <3>1 DEF Undisturbed, Untouched
  <2>2. ASSUME NEW q \in Procs, turn'[q] = t
        PROVE  turn[q] = t /\ Stays(q)
    <3>1. q # p /\ turn[q] = t /\ pc'[q] = pc[q] /\ item'[q] = item[q]
      BY <1>2, <1>5, <2>2
    <3> QED BY <3>1 DEF Stays
  <2> QED BY <1>1, <2>1, <2>2, FlowFrame
<1>6. CASE t = started + 1
  <2>1. /\ chunks[t] = <<>> /\ streamed[t] = 0 /\ buffer[t] = <<>> /\ flush_queue[t] = <<>>
        /\ writing[t] = NoItem
    BY <1>1, <1>3, <1>6 DEF Unborn
  <2>2. rows'[t].retained = 0 /\ rows'[t].total = 0
    <3>1. rows'[t] = [NoRow EXCEPT !.state = "ACTIVE"]
      BY <1>1, <1>6 DEF StartResponse, TypeDb
    <3> QED BY <3>1 DEF NoRow
  <2>3. Bytes(0, 0) = <<>> /\ Queued(<<>>, 0, 0)
    BY <1>1, NoBytes, EmptyQueued
  <2>4. Told(t)'
    <3>1. chunks'[t] = Bytes(0, 0) /\ 0 <= MaxResponse
      BY <1>4, <2>1, <2>3, TranscriptAssumption
    <3> QED BY <2>2, <3>1 DEF Told, Cut
  <2>5. ASSUME NEW q \in Procs, turn'[q] = t
        PROVE  Pending(q, 0)'
    <3>1. q = p
      BY <1>2, <1>3, <1>6, <2>5
    <3>2. pc'[q] = "stream"
      BY <1>1, <3>1 DEF StartResponse, GoTo, TypeProc
    <3>3. buffer'[t] = Bytes(0, streamed'[t])
      BY <1>4, <2>1, <2>3
    <3> QED BY <2>5, <3>2, <3>3 DEF Pending
  <2>6. Parts(t, 0, 0)'
    <3>1. rows'[t].total <= 0 /\ writing'[t].text = Bytes(rows'[t].total, 0)
      BY <1>4, <2>1, <2>2, <2>3, RecordsAre
    <3>2. Queued(flush_queue'[t], 0, 0)
      BY <1>4, <2>1, <2>3
    <3> QED BY <2>5, <3>1, <3>2 DEF Parts
  <2>7. 0 \in 0 .. streamed'[t]
    BY <1>4, <2>1
  <2> QED BY <2>4, <2>6, <2>7 DEF Flow
<1> QED BY <1>5, <1>6

(* The flow of the turn itself: the row and the writer stay, and a main      *)
(* thread elsewhere is none of its business.                                 *)
LEMMA FlowOfTurn ==
  ASSUME StoreInv, NEW p \in Procs, NEW t \in Turns, turn[p] = t, Writes(t)', Untouched(t),
         UNCHANGED <<writing, writer_error, writer>>,
         NEW n \in Nat, streamed'[t] = n, streamed[t] <= n,
         \A q \in Procs : q # p => turn'[q] = turn[q],
         \A a, b \in 0 .. streamed[t] :
           Parts(t, a, b) => \E c \in b .. n : /\ Queued(flush_queue'[t], a, c)
                                               /\ turn'[p] = t => Pending(p, c)'
  PROVE  Flow(t)'
<1>1. Types /\ Owned /\ Flow(t) /\ TypeHist /\ TypeDb
  BY DEF StoreInv, Types
<1>2. streamed[t] \in Nat /\ rows[t].total \in Nat
  BY <1>1, RecordsAre DEF TypeHist, TypeDb
<1>3. Writes(t)
  BY DEF Writes, Untouched
<1>4. PICK a \in 0 .. streamed[t], b \in 0 .. streamed[t] : Parts(t, a, b)
  BY <1>1, <1>3 DEF Flow
<1>5. PICK c \in b .. n : /\ Queued(flush_queue'[t], a, c)
                          /\ turn'[p] = t => Pending(p, c)'
  BY <1>4
<1>6. a \in 0 .. n /\ c \in 0 .. n /\ a <= c
  BY <1>2, <1>4, <1>5 DEF Parts
<1>7. ASSUME NEW q \in Procs, turn'[q] = t
      PROVE  Pending(q, c)'
  <2>1. q = p
    BY <1>1, <1>7, OneOwner
  <2> QED BY <1>5, <1>7, <2>1
<1>8. Parts(t, a, c)'
  <2>1. rows'[t] = rows[t] /\ writing'[t] = writing[t]
    BY DEF Untouched
  <2>2. rows[t].total <= a /\ writing[t].text = Bytes(rows[t].total, a)
    BY <1>4 DEF Parts
  <2> QED BY <1>5, <1>6, <1>7, <2>1, <2>2 DEF Parts
<1>9. Told(t)'
  <2>1. Told(t) /\ rows'[t] = rows[t] /\ chunks'[t] = chunks[t]
    BY <1>1, <1>3 DEF Flow, Untouched
  <2> QED BY <2>1 DEF Told
<1> QED BY <1>6, <1>8, <1>9 DEF Flow

LEMMA FlowOfDelta ==
  ASSUME StoreInv, NEW p \in Procs, AppendDelta(p), NEW t \in Turns, turn[p] = t
  PROVE  Flow(t)'
<1>1. TypeDb /\ TypeProc /\ TypeSink /\ TypeHist /\ Types /\ Owned
  BY DEF StoreInv, Types
<1>2. t = turn[p]
  OBVIOUS
<1>3. t \in Turns /\ pc[p] = "stream"
  BY <1>1, <1>2, TurnsAre DEF AppendDelta, InTurn
<1>4. PICK m : m = streamed[t]
  OBVIOUS
<1>5. m \in Nat /\ m + 1 \in Nat /\ m + 1 <= MaxBytes /\ MaxBytes \in Nat
  BY <1>1, <1>2, <1>3, <1>4, TranscriptAssumption DEF AppendDelta, TypeHist
<1>6. streamed'[t] = m + 1
  BY <1>1, <1>2, <1>3, <1>4 DEF AppendDelta, TypeHist
<1>7. PICK text : text = Append(buffer[t], m + 1)
  OBVIOUS
<1>8. /\ UNCHANGED <<flush_queue, writing, writer_error, writer, turn>> /\ Untouched(t)
  BY DEF AppendDelta, Untouched, db
<1>9. \/ buffer' = [buffer EXCEPT ![t] = text] /\ pc' = pc
      \/ /\ buffer' = [buffer EXCEPT ![t] = <<>>] /\ item' = [item EXCEPT ![p] = Flush(text)]
         /\ pc' = [pc EXCEPT ![p] = IF writer_error[t] THEN "abort" ELSE "put"]
  BY <1>2, <1>4, <1>7 DEF AppendDelta, GoTo
<1>10. ASSUME NEW a \in 0 .. m, NEW b \in 0 .. m, Parts(t, a, b)
       PROVE  /\ b \in b .. (m + 1) /\ Queued(flush_queue'[t], a, b)
              /\ turn'[p] = t => Pending(p, b)'
  <2>1. /\ Queued(flush_queue[t], a, b) /\ Pending(p, b)
    BY <1>2, <1>10 DEF Parts
  <2>2. buffer[t] = Bytes(b, m)
    BY <1>2, <1>3, <1>4, <2>1 DEF Pending
  <2>3. b \in Nat /\ b <= m /\ b <= m + 1
    BY <1>5
  <2>4. text = Bytes(b, m + 1)
    BY <1>5, <1>7, <2>2, <2>3, BytesAppend
  <2>5. CASE buffer' = [buffer EXCEPT ![t] = text] /\ pc' = pc
    <3>1. buffer'[t] = Bytes(b, m + 1) /\ pc'[p] = "stream"
      BY <1>1, <1>3, <2>4, <2>5 DEF TypeSink
    <3>2. turn'[p] = t => Pending(p, b)'
      BY <1>6, <3>1 DEF Pending
    <3> QED BY <1>5, <1>8, <2>1, <2>3, <3>2
  <2>6. CASE /\ buffer' = [buffer EXCEPT ![t] = <<>>]
             /\ item' = [item EXCEPT ![p] = Flush(text)]
             /\ pc' = [pc EXCEPT ![p] = IF writer_error[t] THEN "abort" ELSE "put"]
    <3>1. pc'[p] \in {"abort", "put"} /\ item'[p] = Flush(text)
      BY <1>1, <2>6 DEF TypeProc
    <3>2. text \in Seq(Nat)
      BY <1>5, <2>3, <2>4, BytesAre
    <3>3. item'[p].text = Bytes(b, m + 1)
      BY <2>4, <3>1, <3>2, RecordsAre
    <3>4. buffer'[t] = Bytes(m + 1, m + 1)
      BY <1>1, <1>3, <1>5, <2>6, NoBytes DEF TypeSink
    <3>5. m + 1 \in b .. streamed'[t]
      BY <1>5, <1>6, <2>3
    <3>6. turn'[p] = t => Pending(p, b)'
      BY <1>6, <3>1, <3>3, <3>4, <3>5 DEF Pending
    <3> QED BY <1>5, <1>8, <2>1, <2>3, <3>6
  <2> QED BY <1>9, <2>5, <2>6
<1>11. ASSUME Writes(t)'
       PROVE  Flow(t)'
  <2>1. m <= m + 1
    BY <1>5
  <2>2. \A a, b \in 0 .. streamed[t] :
          Parts(t, a, b) => \E c \in b .. (m + 1) : /\ Queued(flush_queue'[t], a, c)
                                                    /\ turn'[p] = t => Pending(p, c)'
    BY <1>4, <1>10
  <2> QED BY <1>2, <1>3, <1>4, <1>5, <1>6, <1>8, <1>11, <2>1, <2>2, FlowOfTurn
<1> QED BY <1>2, <1>11 DEF Flow

LEMMA FlowOfFinalize ==
  ASSUME StoreInv, NEW p \in Procs, FinalizeBegins(p), NEW t \in Turns, turn[p] = t
  PROVE  Flow(t)'
<1>1. TypeDb /\ TypeProc /\ TypeSink /\ TypeHist /\ Types /\ Owned
  BY DEF StoreInv, Types
<1>2. t = turn[p]
  OBVIOUS
<1>3. t \in Turns /\ pc[p] = "stream"
  BY <1>1, <1>2, TurnsAre DEF FinalizeBegins, InTurn
<1>4. PICK m : m = streamed[t]
  OBVIOUS
<1>5. m \in Nat /\ streamed'[t] = m
  BY <1>1, <1>3, <1>4 DEF FinalizeBegins, TypeHist, hist
<1>6. UNCHANGED <<flush_queue, writing, writer_error, writer, turn>> /\ Untouched(t)
  BY DEF FinalizeBegins, Untouched, db
<1>7. /\ buffer'[t] = <<>> /\ item'[p] = Flush(buffer[t]) /\ pc'[p] \in {"abort", "flushput"}
  BY <1>1, <1>2, <1>3 DEF FinalizeBegins, GoTo, TypeSink, TypeProc
<1>8. ASSUME NEW a \in 0 .. m, NEW b \in 0 .. m, Parts(t, a, b)
      PROVE  /\ b \in b .. m /\ Queued(flush_queue'[t], a, b)
             /\ turn'[p] = t => Pending(p, b)'
  <2>1. Queued(flush_queue[t], a, b) /\ Pending(p, b)
    BY <1>2, <1>8 DEF Parts
  <2>2. buffer[t] = Bytes(b, m) /\ buffer[t] \in Seq(Nat)
    BY <1>1, <1>2, <1>3, <1>4, <2>1 DEF Pending, TypeSink
  <2>3. item'[p].text = Bytes(b, m)
    BY <1>7, <2>2, RecordsAre
  <2>4. buffer'[t] = Bytes(m, m) /\ m \in b .. streamed'[t]
    BY <1>5, <1>7, NoBytes
  <2>5. turn'[p] = t => Pending(p, b)'
    BY <1>5, <1>7, <2>3, <2>4 DEF Pending
  <2> QED BY <1>5, <1>6, <2>1, <2>5
<1>9. ASSUME Writes(t)'
      PROVE  Flow(t)'
  <2>1. \A a, b \in 0 .. streamed[t] :
          Parts(t, a, b) => \E c \in b .. m : /\ Queued(flush_queue'[t], a, c)
                                              /\ turn'[p] = t => Pending(p, c)'
    BY <1>4, <1>8
  <2> QED BY <1>2, <1>3, <1>4, <1>5, <1>6, <1>9, <2>1, FlowOfTurn
<1> QED BY <1>2, <1>9 DEF Flow

LEMMA FlowOfPut ==
  ASSUME StoreInv, NEW p \in Procs, Put(p), NEW t \in Turns, turn[p] = t
  PROVE  Flow(t)'
<1>1. TypeDb /\ TypeProc /\ TypeSink /\ TypeHist /\ Types /\ Owned
  BY DEF StoreInv, Types
<1>2. t = turn[p]
  OBVIOUS
<1>3. t \in Turns /\ pc[p] \in {"put", "flushput", "stopput"}
  BY <1>1, <1>2, TurnsAre, PutsAre DEF Put, InTurn
<1>4. PICK m : m = streamed[t]
  OBVIOUS
<1>5. m \in Nat /\ streamed'[t] = m /\ m <= MaxBytes /\ MaxBytes \in Nat
  BY <1>1, <1>3, <1>4, TranscriptAssumption DEF Put, TypeHist, hist
<1>6. UNCHANGED <<buffer, writing, writer_error, writer, turn>> /\ Untouched(t)
  BY DEF Put, Untouched, db
<1>7. /\ flush_queue'[t] = Append(flush_queue[t], item[p]) /\ pc'[p] = AfterPut[pc[p]]
  BY <1>1, <1>2, <1>3 DEF Put, GoTo, TypeSink, TypeProc
<1>8. flush_queue[t] \in Seq(ItemType) /\ item[p] \in ItemType
  BY <1>1, <1>3 DEF TypeSink, TypeProc
<1>9. ASSUME NEW a \in 0 .. m, NEW b \in 0 .. m, Parts(t, a, b)
      PROVE  \E c \in b .. m : /\ Queued(flush_queue'[t], a, c)
                               /\ turn'[p] = t => Pending(p, c)'
  <2>1. Queued(flush_queue[t], a, b) /\ Pending(p, b)
    BY <1>2, <1>9 DEF Parts
  <2>2. b \in Nat /\ b <= m /\ b \in 0 .. MaxBytes
    BY <1>5
  <2>3. \E c \in b .. m : /\ item[p].text = Bytes(b, c)
                          /\ pc[p] # "stopput" => buffer[t] = Bytes(c, m)
    <3>1. CASE pc[p] = "stopput"
      BY <1>2, <2>1, <2>2, <3>1, NoBytes DEF Pending
    <3>2. CASE pc[p] \in {"put", "flushput"}
      BY <1>2, <1>4, <2>1, <3>2 DEF Pending
    <3> QED BY <1>3, <3>1, <3>2
  <2>4. PICK c \in b .. m : /\ item[p].text = Bytes(b, c)
                            /\ pc[p] # "stopput" => buffer[t] = Bytes(c, m)
    BY <2>3
  <2>5. c \in b .. MaxBytes
    BY <1>5, <2>2
  <2>6. Queued(flush_queue'[t], a, c)
    BY <1>7, <1>8, <2>1, <2>2, <2>4, <2>5, AppendQueued
  <2>7. Pending(p, c)'
    <3>1. CASE pc[p] = "put"
      <4>1. pc'[p] = "stream" /\ turn'[p] = t /\ buffer'[t] = Bytes(c, streamed'[t])
        BY <1>2, <1>5, <1>6, <1>7, <2>4, <3>1, PutsAre
      <4> QED BY <4>1 DEF Pending
    <3>2. CASE pc[p] # "put"
      <4>1. pc'[p] \in {"flushwait", "stopwait"}
        BY <1>3, <1>7, <3>2, PutsAre
      <4> QED BY <4>1 DEF Pending
    <3> QED BY <3>1, <3>2
  <2> QED BY <2>6, <2>7
<1>10. ASSUME Writes(t)'
       PROVE  Flow(t)'
  <2>1. \A a, b \in 0 .. streamed[t] :
          Parts(t, a, b) => \E c \in b .. m : /\ Queued(flush_queue'[t], a, c)
                                              /\ turn'[p] = t => Pending(p, c)'
    BY <1>4, <1>9
  <2> QED BY <1>2, <1>3, <1>4, <1>5, <1>6, <1>10, <2>1, FlowOfTurn
<1> QED BY <1>2, <1>10 DEF Flow

LEMMA FlowOfAbort ==
  ASSUME StoreInv, NEW p \in Procs, Abort(p), NEW t \in Turns, turn[p] = t
  PROVE  Flow(t)'
<1>1. TypeDb /\ TypeProc /\ TypeSink /\ TypeHist /\ Types /\ Owned
  BY DEF StoreInv, Types
<1>2. t = turn[p]
  OBVIOUS
<1>3. t \in Turns /\ t # 0
  BY <1>1, <1>2, TurnsAre DEF Abort, InTurn, Turns
<1>4. PICK m : m = streamed[t]
  OBVIOUS
<1>5. m \in Nat /\ streamed'[t] = m /\ m <= MaxBytes /\ MaxBytes \in Nat
  BY <1>1, <1>3, <1>4, TranscriptAssumption DEF Abort, TypeHist, hist
<1>6. UNCHANGED <<writing, writer_error, writer>> /\ Untouched(t)
  BY DEF Abort, Untouched, db
<1>7. turn'[p] = 0 /\ \A q \in Procs : q # p => turn'[q] = turn[q]
  BY <1>1 DEF Abort, LeaveTurn, TypeProc
<1>8. \/ flush_queue'[t] = Append(flush_queue[t], Stop)
      \/ flush_queue'[t] = flush_queue[t]
  BY <1>1, <1>2, <1>3 DEF Abort, TypeSink
<1>9. flush_queue[t] \in Seq(ItemType)
  BY <1>1, <1>3 DEF TypeSink
<1>10. ASSUME NEW a \in 0 .. m, NEW b \in 0 .. m, Parts(t, a, b)
       PROVE  b \in b .. m /\ Queued(flush_queue'[t], a, b)
  <2>1. Queued(flush_queue[t], a, b)
    BY <1>10 DEF Parts
  <2>2. b \in Nat /\ b \in b .. m /\ b \in 0 .. MaxBytes /\ b \in b .. MaxBytes
    BY <1>5
  <2>3. Stop \in ItemType /\ Stop.text = Bytes(b, b)
    BY <2>2, NoBytes, RecordsAre
  <2>4. Queued(Append(flush_queue[t], Stop), a, b)
    BY <1>9, <2>1, <2>2, <2>3, AppendQueued
  <2> QED BY <1>8, <2>1, <2>2, <2>4
<1>11. ASSUME Writes(t)'
       PROVE  Flow(t)'
  <2>1. \A a, b \in 0 .. streamed[t] :
          Parts(t, a, b) => \E c \in b .. m : /\ Queued(flush_queue'[t], a, c)
                                              /\ turn'[p] = t => Pending(p, c)'
    BY <1>3, <1>4, <1>7, <1>10
  <2> QED BY <1>2, <1>3, <1>4, <1>5, <1>6, <1>7, <1>11, <2>1, FlowOfTurn
<1> QED BY <1>2, <1>11 DEF Flow

LEMMA FlowOfCrash ==
  ASSUME StoreInv, NEW p \in Procs, Crash(p), NEW t \in Turns
  PROVE  Flow(t)'
<1>1. TypeDb /\ TypeProc /\ TypeSink /\ TypeHist /\ Types /\ Owned /\ Flow(t)
  BY DEF StoreInv, Types
<1>2. CASE owner[t] = p
  <2>1. writer'[t] = "stopped"
    BY <1>2 DEF Crash
  <2> QED BY <2>1 DEF Flow, Writes
<1>3. CASE owner[t] # p
  <2>1. Undisturbed(t)
    BY <1>3 DEF Crash, Undisturbed, Untouched, db
  <2>2. ASSUME NEW q \in Procs, turn'[q] = t
        PROVE  turn[q] = t /\ Stays(q)
    <3>1. q # p
      BY <1>1, <2>2 DEF Crash, LeaveTurn, TypeProc, Turns
    <3>2. turn[q] = t /\ pc'[q] = pc[q] /\ item'[q] = item[q]
      BY <1>1, <2>2, <3>1 DEF Crash, LeaveTurn, GoTo, TypeProc
    <3> QED BY <3>2 DEF Stays
  <2> QED BY <1>1, <2>1, <2>2, FlowFrame
<1> QED BY <1>2, <1>3

LEMMA FlowOfTakes ==
  ASSUME StoreInv, NEW t \in Turns, WriterTakes(t)
  PROVE  Flow(t)'
<1>1. TypeDb /\ TypeProc /\ TypeSink /\ TypeHist /\ Types /\ Flow(t) /\ MaxBytes \in Nat
  BY TranscriptAssumption DEF StoreInv, Types
<1>2. ASSUME Writes(t)'
      PROVE  Told(t)' /\ \E a, b \in 0 .. streamed'[t] : Parts(t, a, b)'
  <2>1. /\ writing[t] = NoItem /\ flush_queue[t] # <<>>
        /\ writing'[t] = Head(flush_queue[t]) /\ flush_queue'[t] = Tail(flush_queue[t])
    BY <1>1, <1>2 DEF WriterTakes, Writes, TypeSink
  <2>2. /\ UNCHANGED <<rows, chunks, pc, turn, item, buffer, streamed, writer_error>>
        /\ writer[t] = "runs"
    BY DEF WriterTakes, db, proc, hist
  <2>3. Writes(t)
    BY <1>2, <2>2 DEF Writes
  <2>4. PICK a \in 0 .. streamed[t], b \in 0 .. streamed[t] : Parts(t, a, b)
    BY <1>1, <2>3 DEF Flow
  <2>5. PICK n : n = rows[t].total
    OBVIOUS
  <2>6. n \in Nat /\ a \in Nat /\ b \in Nat /\ n <= a /\ a <= b /\ b <= streamed[t]
        /\ streamed[t] \in Nat
    BY <1>1, <2>4, <2>5, RecordsAre DEF Parts, TypeDb, TypeHist
  <2>7. n = a
    <3>1. Bytes(n, a) = <<>>
      BY <2>1, <2>4, <2>5, RecordsAre DEF Parts
    <3> QED BY <2>6, <3>1, BytesAre
  <2>8. flush_queue[t] \in Seq(ItemType) /\ Queued(flush_queue[t], a, b)
    BY <1>1, <2>4 DEF TypeSink, Parts
  <2>9. PICK c \in 0 .. MaxBytes :
          /\ a <= c /\ c <= b /\ Head(flush_queue[t]).text = Bytes(a, c)
          /\ Queued(Tail(flush_queue[t]), c, b)
    BY <2>1, <2>8, TailQueued
  <2>10. c \in 0 .. streamed[t] /\ n <= c
    BY <1>1, <2>6, <2>9
  <2>11. ASSUME NEW q \in Procs, turn'[q] = t
         PROVE  Pending(q, b)'
    <3>1. Pending(q, b)
      BY <2>2, <2>4, <2>11 DEF Parts
    <3> QED BY <2>2, <3>1 DEF Pending
  <2>12. Parts(t, c, b)'
    BY <2>1, <2>2, <2>5, <2>7, <2>9, <2>10, <2>11 DEF Parts
  <2>13. Told(t)'
    <3>1. Told(t)
      BY <1>1, <2>3 DEF Flow
    <3> QED BY <2>2, <3>1 DEF Told
  <2> QED BY <2>2, <2>10, <2>12, <2>13
<1> QED BY <1>2 DEF Flow

LEMMA FlowOfAppends ==
  ASSUME StoreInv, NEW t \in Turns, WriterAppends(t)
  PROVE  Flow(t)'
<1>1. /\ TypeDb /\ TypeProc /\ TypeSink /\ TypeHist /\ Types /\ Flow(t) /\ Sums(t)
      /\ MaxBytes \in Nat /\ MaxResponse \in Nat
  BY TranscriptAssumption DEF StoreInv, Types
<1>2. ASSUME Writes(t)'
      PROVE  Told(t)' /\ \E a, b \in 0 .. streamed'[t] : Parts(t, a, b)'
  <2>1. /\ UNCHANGED <<pc, turn, item, buffer, streamed, flush_queue, writer>>
        /\ writing'[t] = NoItem /\ writer[t] = "runs"
    BY <1>1 DEF WriterAppends, TypeSink, proc, hist
  <2>2. ~writer_error[t] /\ rows[t].state = "ACTIVE"
    <3>1. CASE UNCHANGED <<rows, chunks>>
      BY <1>1, <1>2, <3>1 DEF WriterAppends, Writes, TypeSink
    <3>2. CASE ~(UNCHANGED <<rows, chunks>>)
      BY <3>2, WrittenIs
    <3> QED BY <3>1, <3>2
  <2>3. Writes(t)
    BY <2>1, <2>2 DEF Writes
  <2>4. PICK a \in 0 .. streamed[t], b \in 0 .. streamed[t] : Parts(t, a, b)
    BY <1>1, <2>3 DEF Flow
  <2>5. PICK n : n = rows[t].total
    OBVIOUS
  <2>6. PICK r : r = rows[t].retained
    OBVIOUS
  <2>7. /\ n \in Nat /\ r \in Nat /\ a \in Nat /\ b \in Nat /\ n <= a /\ a <= b
        /\ writing[t].text = Bytes(n, a) /\ Queued(flush_queue[t], a, b)
    BY <1>1, <2>4, <2>5, <2>6, RecordsAre DEF Parts, TypeDb, TypeHist
  <2>8. chunks[t] = Bytes(0, r) /\ r = Cut(n)
    BY <1>1, <2>3, <2>5, <2>6 DEF Flow, Told
  <2>9. ASSUME NEW q \in Procs, turn'[q] = t
        PROVE  Pending(q, b)'
    <3>1. Pending(q, b)
      BY <2>1, <2>4, <2>9 DEF Parts
    <3> QED BY <2>1, <3>1 DEF Pending
  <2>10. Bytes(a, a) = <<>> /\ writing'[t].text = <<>>
    BY <2>1, <2>7, NoBytes, RecordsAre
  <2>11. rows'[t].total = a => Parts(t, a, b)'
    BY <2>1, <2>7, <2>9, <2>10 DEF Parts
  <2>12. CASE UNCHANGED <<rows, chunks>>
    <3>1. writing[t].text = <<>>
      <4>1. CASE writing[t].text # <<>> /\ writer_error' = [writer_error EXCEPT ![t] = TRUE]
        BY <1>1, <1>2, <4>1 DEF Writes, TypeSink
      <4>2. ASSUME writing[t].text # <<>>,
                   ~(writer_error' = [writer_error EXCEPT ![t] = TRUE])
            PROVE  FALSE
        <5>1. PICK more : more = Len(writing[t].text)
          OBVIOUS
        <5>2. PICK retained :
                retained = r + Len(Prefix(writing[t].text, MaxResponse - r))
          OBVIOUS
        <5>3. rows' = [rows EXCEPT ![t].retained = retained, ![t].total = n + more,
                                   ![t].dropped = (n + more) - retained]
          BY <2>2, <2>5, <2>6, <4>2, <5>1, <5>2 DEF WriterAppends, Disabled
        <5>4. rows[t] \in RowType /\ rows'[t] = rows[t]
          BY <1>1, <2>12 DEF TypeDb
        <5>5. rows'[t].total = n + more
          BY <1>1, <5>3, <5>4 DEF TypeDb, RowType
        <5>6. more \in Nat /\ more # 0
          <6>1. writing[t].text \in Seq(Nat)
            BY <1>1, RecordsAre DEF TypeSink
          <6> QED BY <4>2, <5>1, <6>1, LenProperties, EmptySeq
        <5> QED BY <2>5, <2>7, <5>4, <5>5, <5>6
      <4> QED BY <4>1, <4>2
    <3>2. n = a
      BY <2>7, <3>1, BytesAre
    <3>3. Told(t)'
      <4>1. Told(t)
        BY <1>1, <2>3 DEF Flow
      <4> QED BY <2>12, <4>1 DEF Told
    <3> QED BY <2>1, <2>5, <2>11, <2>12, <3>2, <3>3
  <2>13. CASE ~(UNCHANGED <<rows, chunks>>)
    <3>1. PICK accepted : accepted = Prefix(Bytes(n, a), MaxResponse - r)
      OBVIOUS
    <3>2. /\ chunks'[t] = Bytes(0, r) \o accepted
          /\ rows'[t].retained = r + Len(accepted)
          /\ rows'[t].total = n + Len(Bytes(n, a))
      BY <2>5, <2>6, <2>7, <2>8, <2>13, <3>1, WrittenIs
    <3>3. Bytes(0, r) \o accepted = Bytes(0, Cut(a)) /\ r + Len(accepted) = Cut(a)
      BY <2>7, <2>8, <3>1, WrittenBytes
    <3>4. rows'[t].total = a
      BY <2>7, <3>2, BytesAre
    <3>5. Told(t)'
      BY <3>2, <3>3, <3>4 DEF Told
    <3> QED BY <2>1, <2>11, <3>4, <3>5
  <2> QED BY <2>12, <2>13
<1> QED BY <1>2 DEF Flow

LEMMA FlowOfWriters ==
  ASSUME StoreInv, NEW u \in Turns, Writer(u), NEW t \in Turns
  PROVE  Flow(t)'
<1>1. TypeDb /\ TypeSink /\ Flow(t)
  BY DEF StoreInv, Types
<1>2. CASE u # t \/ WriterEnters(u)
  <2>1. Undisturbed(t)
    BY <1>1, <1>2 DEF Writer, WriterTakes, WriterEnters, WriterAppends, Undisturbed,
                      Untouched, TypeDb, TypeSink, db, hist
  <2>2. ASSUME NEW q \in Procs, turn'[q] = t
        PROVE  turn[q] = t /\ Stays(q)
    BY <2>2 DEF Writer, WriterTakes, WriterEnters, WriterAppends, proc, Stays
  <2> QED BY <1>1, <2>1, <2>2, FlowFrame
<1>3. CASE u = t /\ ~WriterEnters(u)
  BY <1>3, FlowOfTakes, FlowOfAppends DEF Writer
<1> QED BY <1>2, <1>3

LEMMA FlowKept ==
  ASSUME StoreInv, Next, NEW t \in Turns
  PROVE  Flow(t)'
<1>1. ASSUME NEW p \in Procs, AppendDelta(p) \/ FinalizeBegins(p) \/ Put(p) \/ Abort(p)
      PROVE  Flow(t)'
  BY <1>1, FlowElsewhere, FlowOfDelta, FlowOfFinalize, FlowOfPut, FlowOfAbort
<1>2. ASSUME NEW p \in Procs, StartResponse(p) \/ Crash(p)
      PROVE  Flow(t)'
  BY <1>2, FlowOfStart, FlowOfCrash
<1>3. ASSUME NEW p \in Procs,
             \/ Open(p) \/ Prune(p) \/ ClearScope(p) \/ CloseStore(p) \/ WaitTimesOut(p)
             \/ FlushAcknowledged(p) \/ WriterStopped(p) \/ Replace(p) \/ PruneFails(p)
      PROVE  Flow(t)'
  BY <1>3, FlowOfMain
<1>4. ASSUME NEW u \in Turns, Writer(u)
      PROVE  Flow(t)'
  BY <1>4, FlowOfWriters
<1> QED BY <1>1, <1>2, <1>3, <1>4 DEF Next, Sinking
------------------------------------------------------------------------------
(* The inductive invariant.                                                  *)

LEMMA StoreInvInit ==
  Init => StoreInv
<1> SUFFICES ASSUME Init
             PROVE  StoreInv
  OBVIOUS
<1>1. /\ Fresh \in BOOLEAN /\ MaxTurns \in Nat /\ MaxBytes \in Nat /\ MaxResponse \in Nat
      /\ MaxCrashes \in Nat /\ MaxClears \in Nat
      /\ FlushBytes \in Nat /\ FlushBytes > 0 /\ PendingFlushes \in Nat
  BY TranscriptAssumption
<1>2. /\ <<>> \in Seq(Nat) /\ <<>> \in Seq(ItemType) /\ Len(<<>>) = 0
  OBVIOUS
<1>3. Zeros(0) = <<>>
  BY ZerosAre, EmptySeq
<1>4. TypeDb
  BY <1>1, <1>2, RecordsAre DEF Init, TypeDb
<1>5. TypeProc
  <2> HIDE DEF ItemType
  <2> QED BY <1>1, <1>2, RecordsAre DEF Init, TypeProc, AtRest
<1>6. TypeSink
  <2> HIDE DEF ItemType
  <2> QED BY <1>1, <1>2, RecordsAre DEF Init, TypeSink
<1>7. TypeHist
  <2>1. streamed \in [Turns -> 0 .. MaxBytes]
    BY <1>1 DEF Init
  <2>2. started \in 0 .. MaxTurns /\ crashes \in 0 .. MaxCrashes /\ clears \in 0 .. MaxClears
    BY <1>1 DEF Init
  <2>3. unpruned \in BOOLEAN
    BY DEF Init
  <2> QED BY <2>1, <2>2, <2>3 DEF TypeHist
<1>8. Limits
  BY <1>1, <1>2 DEF Init, Limits
<1>9. Unborn
  BY DEF Init, Unborn
<1>10. Owned
  BY DEF Init, Owned, AtRest, InTurn
<1>11. Cascades
  BY DEF Init, Cascades, NoOrphans
<1>12. Canonical
  BY <1>1, <1>2, <1>3 DEF Init, Canonical
<1>13. \A t \in Turns : rows[t].state = "none"
  BY DEF Init, NoRow
<1>14. \A t \in Turns : Sums(t) /\ Kept(t) /\ Flow(t)
  BY <1>13 DEF Sums, Kept, Flow, Writes
<1> QED BY <1>4, <1>5, <1>6, <1>7, <1>8, <1>9, <1>10, <1>11, <1>12, <1>14 DEF StoreInv, Types

LEMMA StoreInvKept ==
  StoreInv /\ [Next]_vars => StoreInv'
<1> SUFFICES ASSUME StoreInv, [Next]_vars
             PROVE  StoreInv'
  OBVIOUS
<1>1. CASE Next
  <2>1. Types'
    BY <1>1, TypeDbKept, TypeProcKept, TypeSinkKept, TypeHistKept DEF Types
  <2>2. Limits' /\ Unborn' /\ Owned' /\ Cascades' /\ Canonical'
    BY <1>1, LimitsKept, UnbornKept, OwnedKept, CascadesKept, CanonicalKept
  <2>3. \A t \in Turns : Sums(t)' /\ Kept(t)' /\ Flow(t)'
    BY <1>1, SumsKept, KeptKept, FlowKept
  <2> QED BY <2>1, <2>2, <2>3 DEF StoreInv
<1>2. CASE UNCHANGED vars
  <2>1. /\ UNCHANGED <<schema, rows, chunks>>
        /\ UNCHANGED <<store, foreign_keys, pc, turn, item, canonical>>
        /\ UNCHANGED <<owner, buffer, flush_queue, writing, writer_error, writer>>
        /\ UNCHANGED <<started, streamed, crashes, clears, unpruned>>
    BY <1>2 DEF vars, db, proc, sink, hist
  <2>2. Types'
    BY <2>1 DEF StoreInv, Types, TypeDb, TypeProc, TypeSink, TypeHist
  <2>3. Limits' /\ Unborn' /\ Owned'
    BY <2>1 DEF StoreInv, Limits, Unborn, Owned
  <2>4. Cascades' /\ Canonical'
    BY <2>1 DEF StoreInv, Cascades, Canonical, NoOrphans, Rows
  <2>5. ASSUME NEW t \in Turns
        PROVE  Sums(t)' /\ Kept(t)' /\ Flow(t)'
    <3>1. Sums(t) /\ Kept(t) /\ Flow(t)
      BY DEF StoreInv
    <3>2. Undisturbed(t) /\ \A p \in Procs : turn'[p] = t => turn[p] = t /\ Stays(p)
      BY <2>1 DEF Undisturbed, Untouched, Stays
    <3>3. Flow(t)'
      BY <3>1, <3>2, FlowFrame
    <3> QED BY <2>1, <3>1, <3>3 DEF Sums, Kept
  <2> QED BY <2>2, <2>3, <2>4, <2>5 DEF StoreInv
<1> QED BY <1>1, <1>2

LEMMA StoreInvHolds ==
  Spec => []StoreInv
BY StoreInvInit, StoreInvKept, PTL DEF Spec
------------------------------------------------------------------------------
(* What follows of it.                                                       *)

Sized == \A t \in Rows : rows[t].retained <= MaxResponse /\ rows[t].total <= MaxBytes

(* transcript_store.py: the store, the sinks and the history are well typed  *)
(* in every reachable state; no buffer reaches FLUSH_BYTES, no queue exceeds *)
(* MAX_PENDING_FLUSHES, no row retains more than MAX_RESPONSE_BYTES, and a   *)
(* process that is in a turn has its store open.                             *)
THEOREM TypeCorrect == Spec => [](Types /\ Limits /\ Sized)
<1>1. ASSUME StoreInv, NEW t \in Rows
      PROVE  rows[t].retained <= MaxResponse /\ rows[t].total <= MaxBytes
  <2>1. t \in Turns /\ rows[t].state # "none" /\ Sums(t) /\ Kept(t)
    BY <1>1 DEF Rows, StoreInv
  <2>2. /\ rows[t].total \in Nat /\ streamed[t] \in Nat /\ streamed[t] <= MaxBytes
        /\ MaxBytes \in Nat
    BY <1>1, <2>1, RecordsAre, TranscriptAssumption DEF StoreInv, Types, TypeDb, TypeHist
  <2> QED BY <2>1, <2>2 DEF Sums, Kept
<1>2. StoreInv => Types /\ Limits /\ Sized
  BY <1>1 DEF StoreInv, Sized
<1> QED BY <1>2, StoreInvHolds, PTL

(* What `/last` says of a response (retained_bytes, dropped_bytes,           *)
(* total_bytes, COMPLETED) is true of the chunks stored, and no chunk is     *)
(* left of a deleted row, at every commit of _append_chunk, _finalize,       *)
(* prune, clear_scope and the recovery of stale rows: in a database that     *)
(* some connection had created before. In a fresh one the first connection   *)
(* does not cascade, which is why ~Fresh is assumed.                         *)
THEOREM RowsSayTheTruth == ASSUME ~Fresh PROVE Spec => []RowsAddUp
<1>1. StoreInv => RowsAddUp
  BY DEF StoreInv, Cascades, Sums, RowsAddUp, Rows
<1> QED BY <1>1, StoreInvHolds, PTL

(* Whatever the buffer, the queue and its writer lost or delayed, whoever    *)
(* else took the row for stale, and whenever a process was killed: the text  *)
(* of a row is the one that replaced the streamed text, or a prefix of what  *)
(* the turn has streamed (_append_chunk, TranscriptSink.append, finalize).   *)
THEOREM StoredIsAPrefix == Spec => []StoredIsPrefix
<1>1. ASSUME StoreInv, NEW t \in Rows
      PROVE  \/ chunks[t] = [k \in 1 .. Len(chunks[t]) |-> 0]
             \/ /\ chunks[t] = [k \in 1 .. Len(chunks[t]) |-> k]
                /\ Len(chunks[t]) <= streamed[t] /\ rows[t].total <= streamed[t]
  <2>1. t \in Turns /\ Kept(t) /\ rows[t].state # "none" /\ chunks[t] \in Seq(Nat)
    BY <1>1 DEF StoreInv, Rows, Types, TypeDb
  <2>2. CASE chunks[t] = Zeros(Len(chunks[t]))
    BY <2>2 DEF Zeros
  <2>3. CASE FromStream(chunks[t], streamed[t]) /\ rows[t].total <= streamed[t]
    <3>1. PICK n : n = Len(chunks[t])
      OBVIOUS
    <3>2. n \in Nat /\ chunks[t] = Bytes(0, n) /\ n <= streamed[t]
      BY <2>1, <2>3, <3>1, LenProperties DEF FromStream
    <3>3. \A k \in 1 .. n : 0 + k = k
      BY <3>2
    <3>4. 1 .. (n - 0) = 1 .. n
      BY <3>2
    <3>5. Bytes(0, n) = [k \in 1 .. n |-> k]
      BY <3>3, <3>4 DEF Bytes
    <3> QED BY <2>3, <3>1, <3>2, <3>5
  <2> QED BY <2>1, <2>2, <2>3 DEF Kept
<1>2. StoreInv => StoredIsPrefix
  BY <1>1 DEF StoredIsPrefix
<1> QED BY <1>2, StoreInvHolds, PTL

(* Only _finalize, which a process calls for its own turn, rewrites a row    *)
(* that is no longer active: the writer of a sink never does, however long   *)
(* it outlives the row (the WHERE state = 'ACTIVE' of _append_chunk).        *)
THEOREM StoredIsLeftAlone == Spec => StoredStaysPut
<1> DEFINE LeftAlone(t) == t \in Stored /\ t \in Stored' /\ rows'[t] # rows[t]
                        => \E p \in Procs : pc[p] = "replace" /\ turn[p] = t
<1>1. ASSUME StoreInv, Next, NEW t \in Turns
      PROVE  LeftAlone(t)
  <2>1. CASE Untouched(t)
    BY <2>1 DEF Untouched
  <2>2. CASE Restated(t)
    BY <2>2 DEF Restated, Stored
  <2>3. CASE Born(t)
    BY <1>1, <2>3 DEF Born, StoreInv, Unborn, Stored, NoRow
  <2>4. CASE Removed(t)
    BY <2>4 DEF Removed, Stored, NoRow
  <2>5. CASE WriterAppends(t) /\ ~(UNCHANGED <<rows, chunks>>)
    BY <1>1, <2>5, WrittenIs DEF Stored
  <2>6. ASSUME NEW p \in Procs, turn[p] = t, Replace(p)
        PROVE  LeftAlone(t)
    BY <2>6 DEF Replace
  <2> HIDE DEF LeftAlone
  <2> QED BY <1>1, <2>1, <2>2, <2>3, <2>4, <2>5, <2>6, StepsOfARow
<1>2. ASSUME StoreInv, [Next]_vars
      PROVE  [\A t \in Turns : LeftAlone(t)]_vars
  BY <1>1, <1>2
<1>3. Spec => []StoreInv /\ [][Next]_vars
  BY StoreInvHolds, PTL DEF Spec
<1> QED BY <1>2, <1>3, PTL DEF StoredStaysPut
------------------------------------------------------------------------------
(* Retention.                                                                *)

(* Every row is among those that a prune looks at.                           *)
Listed == recency \in Seq(Turns) /\ Rows \subseteq Members(recency)

LEMMA TouchedLists ==
  ASSUME Listed, NEW t \in Turns, recency' = Touched(t), Rows' \subseteq Rows \cup {t}
  PROVE  Listed'
<1> DEFINE others == Keep(recency, Turns \ {t})
<1>1. recency' = Append(others, t)
  BY DEF Touched, Without
<1>2. others \in Seq(Turns) /\ Members(others) = Members(recency) \cap (Turns \ {t})
  <2>1. others \in Seq(Turns \cap (Turns \ {t}))
    BY KeepType DEF Listed
  <2>2. Members(others) = Members(recency) \cap (Turns \ {t})
    BY KeepMembers DEF Listed
  <2> HIDE DEF others
  <2> QED BY <2>1, <2>2, SeqMonotonic
<1> HIDE DEF others
<1>3. recency' \in Seq(Turns) /\ Members(recency') = Members(others) \cup {t}
  BY <1>1, <1>2, MembersAppend, AppendProperties
<1>4. Rows \subseteq Turns
  BY DEF Rows
<1>5. Rows' \subseteq Members(recency')
  BY <1>2, <1>3, <1>4 DEF Listed
<1>6. Members(recency') = Members(recency)'
  BY DEF Members
<1> QED BY <1>3, <1>5, <1>6 DEF Listed

LEMMA OpenLists ==
  ASSUME Types, Listed, NEW p \in Procs, Open(p)
  PROVE  Listed'
<1> DEFINE stale == {t \in Turns : rows[t].state = "ACTIVE"}
           others == Keep(recency, Turns \ stale)
<1>1. PICK s \in Orders(stale) : recency' = others \o s
  BY DEF Open, Without
<1>2. rows' = [t \in Turns |-> IF t \in stale THEN [rows[t] EXCEPT !.state = Recovered(rows[t])]
                               ELSE rows[t]]
  BY DEF Open
<1>3. Rows' \subseteq Rows
  <2>1. ASSUME NEW t \in Turns, rows[t].state = "none" PROVE rows'[t].state = "none"
    BY <1>2, <2>1
  <2> QED BY <2>1 DEF Rows
<1>4. s \in Seq(Turns) /\ stale \subseteq Members(s)
  <2>1. IsFiniteSet(stale)
    <3>1. IsFiniteSet(Turns)
      BY TranscriptAssumption, FS_Interval DEF Turns
    <3> QED BY <3>1, FS_Subset
  <2>2. Cardinality(stale) \in Nat
    BY <2>1, FS_CardinalityType
  <2>3. /\ s \in [1 .. Cardinality(stale) -> stale]
        /\ \A t \in stale : \E i \in DOMAIN s : s[i] = t
    BY DEF Orders
  <2>4. stale \subseteq Turns
    OBVIOUS
  <2> HIDE DEF stale
  <2>5. s \in [1 .. Cardinality(stale) -> Turns]
    BY <2>3, <2>4
  <2>6. s \in Seq(Turns)
    BY <2>2, <2>5, SeqDef
  <2>7. stale \subseteq Members(s)
    BY <2>3 DEF Members
  <2> QED BY <2>6, <2>7
<1>5. others \in Seq(Turns) /\ Members(others) = Members(recency) \cap (Turns \ stale)
  <2>1. others \in Seq(Turns \cap (Turns \ stale))
    BY KeepType DEF Listed
  <2>2. Members(others) = Members(recency) \cap (Turns \ stale)
    BY KeepMembers DEF Listed
  <2> HIDE DEF others, stale
  <2> QED BY <2>1, <2>2, SeqMonotonic
<1>6. Rows \subseteq Turns /\ stale \subseteq Turns
  BY DEF Rows
<1> HIDE DEF others, stale
<1>7. recency' \in Seq(Turns) /\ Members(recency') = Members(others) \cup Members(s)
  BY <1>1, <1>4, <1>5, MembersConcat
<1>8. Rows' \subseteq Members(recency')
  BY <1>3, <1>4, <1>5, <1>6, <1>7 DEF Listed
<1>9. Members(recency') = Members(recency)'
  BY DEF Members
<1> QED BY <1>7, <1>8, <1>9 DEF Listed

(* The rows a prune leaves.                                                  *)
Pruned(oldest) == oldest \cup {t \in Stored : Surplus(t)}

LEMMA PruneLeaves ==
  ASSUME Types, NEW p \in Procs, Prune(p)
  PROVE  \E oldest \in SUBSET Stored :
           /\ rows' = [t \in Turns |-> IF t \in Pruned(oldest) THEN NoRow ELSE rows[t]]
           /\ recency' = Without(recency, Pruned(oldest))
           /\ Stored' = Stored \ Pruned(oldest) /\ Rows' = Rows \ Pruned(oldest)
<1>1. PICK oldest \in {{}} \cup {Stored \ Later(t) : t \in Stored} :
        /\ rows' = [t \in Turns |-> IF t \in Pruned(oldest) THEN NoRow ELSE rows[t]]
        /\ recency' = Without(recency, Pruned(oldest))
  BY Zenon DEF Prune, Pruned
<1>2. oldest \in SUBSET Stored
  OBVIOUS
<1> HIDE DEF Pruned
<1>3. Stored' = Stored \ Pruned(oldest) /\ Rows' = Rows \ Pruned(oldest)
  <2>1. \A t \in Turns : rows'[t] = IF t \in Pruned(oldest) THEN NoRow ELSE rows[t]
    BY <1>1
  <2>2. NoRow.state = "none"
    BY DEF NoRow
  <2> QED BY <2>1, <2>2 DEF Stored, Rows
<1> QED BY <1>1, <1>2, <1>3

LEMMA PruneLists ==
  ASSUME Types, Listed, NEW p \in Procs, Prune(p)
  PROVE  Listed'
<1>1. PICK oldest : /\ recency' = Without(recency, Pruned(oldest))
                    /\ Rows' = Rows \ Pruned(oldest)
  BY PruneLeaves
<1> DEFINE gone == Pruned(oldest)
           others == Keep(recency, Turns \ gone)
<1>2. recency' = others /\ Rows' = Rows \ gone /\ Rows \subseteq Turns
  BY <1>1 DEF Without, Rows
<1> HIDE DEF gone
<1>3. others \in Seq(Turns) /\ Members(others) = Members(recency) \cap (Turns \ gone)
  <2>1. others \in Seq(Turns \cap (Turns \ gone))
    BY KeepType DEF Listed
  <2>2. Members(others) = Members(recency) \cap (Turns \ gone)
    BY KeepMembers DEF Listed
  <2> HIDE DEF others
  <2> QED BY <2>1, <2>2, SeqMonotonic
<1> HIDE DEF others
<1>4. Members(others) = Members(recency)'
  BY <1>2 DEF Members
<1> QED BY <1>2, <1>3, <1>4 DEF Listed

LEMMA ListedKept ==
  ASSUME Types, Owned, Listed, [Next]_vars
  PROVE  Listed'
<1>1. ASSUME NEW p \in Procs, Open(p) PROVE Listed'
  BY <1>1, OpenLists
<1>2. ASSUME NEW p \in Procs, Prune(p) PROVE Listed'
  BY <1>2, PruneLists
<1>3. ASSUME NEW p \in Procs, ClearScope(p) PROVE Listed'
  <2>1. recency' = <<>> /\ \A t \in Turns : rows'[t].state = "none"
    BY <1>3 DEF ClearScope, NoRow
  <2>2. Rows' = {}
    BY <2>1 DEF Rows
  <2> QED BY <2>1, <2>2, EmptySeq DEF Listed
<1>4. ASSUME NEW p \in Procs, StartResponse(p) PROVE Listed'
  <2>1. /\ started + 1 \in Turns /\ recency' = Touched(started + 1)
        /\ rows' = [rows EXCEPT ![started + 1] = [NoRow EXCEPT !.state = "ACTIVE"]]
    BY <1>4, TranscriptAssumption DEF StartResponse, Types, TypeHist, Turns
  <2>2. Rows' \subseteq Rows \cup {started + 1}
    BY <2>1 DEF Rows, Types, TypeDb
  <2> QED BY <2>1, <2>2, TouchedLists
<1>5. ASSUME NEW p \in Procs, Replace(p) PROVE Listed'
  <2>1. turn[p] \in Turns
    BY <1>5, TurnsAre DEF Replace, InTurn
  <2>2. CASE UNCHANGED <<rows, recency>>
    BY <2>2 DEF Listed, Rows, Members
  <2>3. CASE recency' = Touched(turn[p]) /\ \E r : rows' = [rows EXCEPT ![turn[p]] = r]
    <3>1. Rows' \subseteq Rows \cup {turn[p]}
      BY <2>3 DEF Rows, Types, TypeDb
    <3> QED BY <2>1, <2>3, <3>1, TouchedLists
  <2>4. \/ UNCHANGED <<rows, recency>>
        \/ recency' = Touched(turn[p]) /\ \E r : rows' = [rows EXCEPT ![turn[p]] = r]
    BY <1>5 DEF Replace
  <2> QED BY <2>2, <2>3, <2>4
<1>6. ASSUME NEW t \in Turns, Writer(t) PROVE Listed'
  <2>1. CASE UNCHANGED <<rows, recency>>
    BY <2>1 DEF Listed, Rows, Members
  <2>2. CASE recency' = Touched(t) /\ \A u \in Turns : u # t => rows'[u] = rows[u]
    <3>1. Rows' \subseteq Rows \cup {t}
      BY <2>2 DEF Rows
    <3> QED BY <2>2, <3>1, TouchedLists
  <2>3. \/ UNCHANGED <<rows, recency>>
        \/ recency' = Touched(t) /\ \A u \in Turns : u # t => rows'[u] = rows[u]
    BY <1>6 DEF Writer, WriterTakes, WriterEnters, WriterAppends, db, Types, TypeDb
  <2> QED BY <2>1, <2>2, <2>3
<1>7. CASE UNCHANGED <<rows, recency>>
  BY <1>7 DEF Listed, Rows, Members
<1>8. ASSUME NEW p \in Procs,
             \/ CloseStore(p) \/ AppendDelta(p) \/ FinalizeBegins(p) \/ Crash(p)
             \/ Put(p) \/ WaitTimesOut(p) \/ FlushAcknowledged(p) \/ WriterStopped(p)
             \/ PruneFails(p) \/ Abort(p)
      PROVE  UNCHANGED <<rows, recency>>
  BY <1>8 DEF CloseStore, AppendDelta, FinalizeBegins, Crash, Put, WaitTimesOut,
              FlushAcknowledged, WriterStopped, PruneFails, Abort, db
<1>9. UNCHANGED vars => UNCHANGED <<rows, recency>>
  BY DEF vars, db
<1> QED BY <1>1, <1>2, <1>3, <1>4, <1>5, <1>6, <1>7, <1>8, <1>9 DEF Next, Sinking

(* The bytes of a set of responses: more responses have no fewer, and as     *)
(* long as their rows stay they stay.                                        *)
LEMMA BytesOfMore ==
  ASSUME Types, NEW S, NEW R, S \subseteq R
  PROVE  BytesOf(S) \in Nat /\ BytesOf(R) \in Nat /\ BytesOf(S) <= BytesOf(R)
<1> DEFINE f == [t \in Turns |-> rows[t].retained]
<1>1. \A t \in 1 .. MaxTurns : f[t] \in Nat
  BY RecordsAre DEF Types, TypeDb, Turns
<1>2. MaxTurns \in Nat
  BY TranscriptAssumption
<1> HIDE DEF f
<1>3. Total(f, S, MaxTurns) \in Nat /\ Total(f, R, MaxTurns) \in Nat
      /\ Total(f, S, MaxTurns) <= Total(f, R, MaxTurns)
  BY <1>1, <1>2, TotalGrows
<1> QED BY <1>3 DEF f, BytesOf

LEMMA BytesOfSame ==
  ASSUME Types, Types', NEW S, \A t \in S : rows'[t] = rows[t]
  PROVE  LET bytes == Total([t \in Turns |-> rows'[t].retained], S, MaxTurns) IN
         bytes \in Nat /\ bytes <= BytesOf(S)
<1> DEFINE f == [t \in Turns |-> rows[t].retained]
           g == [t \in Turns |-> rows'[t].retained]
<1>1. \A t \in 1 .. MaxTurns : f[t] \in Nat /\ (t \in S => g[t] = f[t])
  BY RecordsAre DEF Types, TypeDb, Turns
<1>2. MaxTurns \in Nat
  BY TranscriptAssumption
<1> HIDE DEF f, g
<1>3. Total(g, S, MaxTurns) \in Nat /\ Total(g, S, MaxTurns) <= Total(f, S, MaxTurns)
  BY <1>1, <1>2, TotalGrows
<1>4. BytesOf(S) = Total(f, S, MaxTurns)
  BY DEF f, BytesOf
<1> QED BY <1>3, <1>4 DEF g

(* What holds of the stored responses when no prune is due.                  *)
WithinLimits == Cardinality(Stored) <= MaxCompleted /\ BytesOf(Stored) <= MaxLogical
PruneDue == unpruned \/ \E p \in Procs : pc[p] \in {"openprune", "prune"}

LEMMA StoredIsFinite == IsFiniteSet(Stored) /\ \A S \in SUBSET Stored : IsFiniteSet(S)
<1>1. IsFiniteSet(Turns)
  BY TranscriptAssumption, FS_Interval DEF Turns
<1>2. Stored \subseteq Turns
  BY DEF Stored
<1> QED BY <1>1, <1>2, FS_Subset

(* Fewer responses, each as it was, keep the limits.                         *)
LEMMA FewerWithinLimits ==
  ASSUME Types, Types', NEW S, S \subseteq Stored, Stored' \subseteq S,
         \A t \in Stored' : rows'[t] = rows[t],
         Cardinality(S) <= MaxCompleted, BytesOf(S) <= MaxLogical
  PROVE  WithinLimits'
<1> DEFINE left == Stored'
<1>1. IsFiniteSet(S) /\ left \subseteq S /\ \A t \in left : rows'[t] = rows[t]
  BY StoredIsFinite
<1> HIDE DEF left
<1>2. /\ Cardinality(left) <= Cardinality(S)
      /\ Cardinality(left) \in Nat /\ Cardinality(S) \in Nat
  <2>1. IsFiniteSet(left)
    BY <1>1, FS_Subset
  <2> QED BY <1>1, <2>1, FS_Subset, FS_CardinalityType
<1>3. BytesOf(left) <= BytesOf(S) /\ BytesOf(left) \in Nat /\ BytesOf(S) \in Nat
  BY <1>1, BytesOfMore
<1>4. Total([t \in Turns |-> rows'[t].retained], left, MaxTurns) \in Nat
      /\ Total([t \in Turns |-> rows'[t].retained], left, MaxTurns) <= BytesOf(left)
  BY <1>1, BytesOfSame
<1>5. MaxCompleted \in Nat /\ MaxLogical \in Nat
  BY TranscriptAssumption
<1>6. Cardinality(left) <= MaxCompleted
      /\ Total([t \in Turns |-> rows'[t].retained], left, MaxTurns) <= MaxLogical
  BY <1>2, <1>3, <1>4, <1>5
<1>7. /\ Cardinality(Stored)' = Cardinality(left)
      /\ BytesOf(Stored)' = Total([t \in Turns |-> rows'[t].retained], left, MaxTurns)
  BY DEF left, BytesOf
<1> QED BY <1>6, <1>7 DEF WithinLimits

LEMMA NoneWithinLimits ==
  ASSUME Stored' = {}
  PROVE  WithinLimits'
<1>1. MaxCompleted \in Nat /\ MaxLogical \in Nat /\ MaxTurns \in Nat
  BY TranscriptAssumption
<1>2. Cardinality(Stored)' = 0
  BY FS_EmptySet
<1>3. BytesOf(Stored)' = 0
  BY <1>1, TotalOfNone DEF BytesOf
<1> QED BY <1>1, <1>2, <1>3 DEF WithinLimits

(* A prune that is done keeps the limits, whatever was there before: what it *)
(* leaves is at or behind its own first entry, which is not in surplus.      *)
LEMMA PruneWithinLimits ==
  ASSUME Types, Types', Listed, NEW p \in Procs, Prune(p)
  PROVE  WithinLimits'
<1>1. PICK oldest \in SUBSET Stored :
        /\ rows' = [t \in Turns |-> IF t \in Pruned(oldest) THEN NoRow ELSE rows[t]]
        /\ Stored' = Stored \ Pruned(oldest)
  BY PruneLeaves
<1>2. CASE Stored' = {}
  BY <1>2, NoneWithinLimits
<1>3. CASE Stored' # {}
  <2> DEFINE places == {i \in DOMAIN recency : recency[i] \in Stored'}
  <2>1. Stored' \subseteq Stored /\ Stored \subseteq Rows /\ Rows \subseteq Members(recency)
        /\ Stored \subseteq Turns
    BY <1>1 DEF Stored, Rows, Listed
  <2>2. places \in SUBSET Nat /\ DOMAIN recency = 1 .. Len(recency)
    BY LenProperties DEF Listed
  <2>3. \A u \in Stored' : \E j \in places : recency[j] = u
    BY <2>1 DEF Members
  <2>4. places # {}
    BY <1>3, <2>3
  <2>5. PICK i \in places : \A j \in places : i <= j
    <3> HIDE DEF places
    <3> QED BY <2>2, <2>4, LeastExists
  <2>6. recency[i] \in Stored' /\ recency[i] \in Stored /\ i \in 1 .. Len(recency)
    BY <2>1, <2>2
  <2>7. Stored' \subseteq Later(recency[i])
    <3> SUFFICES ASSUME NEW u \in Stored' PROVE u \in Later(recency[i])
      OBVIOUS
    <3>1. PICK j \in places : recency[j] = u
      BY <2>3
    <3>2. u \in Stored /\ i <= j /\ j \in 1 .. Len(recency)
      BY <2>1, <2>2, <2>5, <3>1
    <3> QED BY <2>6, <3>1, <3>2 DEF Later
  <2>8. ~Surplus(recency[i]) /\ Later(recency[i]) \subseteq Stored
    BY <1>1, <2>6 DEF Pruned, Later
  <2>9. \A t \in Stored' : rows'[t] = rows[t]
    BY <1>1, <2>1
  <2>10. /\ Cardinality(Later(recency[i])) <= MaxCompleted
         /\ BytesOf(Later(recency[i])) <= MaxLogical
    <3>1. Cardinality(Later(recency[i])) \in Nat
      BY <2>8, StoredIsFinite, FS_CardinalityType
    <3>2. BytesOf(Later(recency[i])) \in Nat
      BY BytesOfMore
    <3> QED BY <2>8, <3>1, <3>2, TranscriptAssumption DEF Surplus
  <2> QED BY <2>7, <2>8, <2>9, <2>10, FewerWithinLimits
<1> QED BY <1>2, <1>3

(* Any other step leaves the stored responses as they were, takes some away, *)
(* or leaves a prune due.                                                    *)
LEMMA PruneStaysDue ==
  ASSUME Types, NEW p \in Procs,
         \/ ClearScope(p) \/ CloseStore(p) \/ StartResponse(p) \/ AppendDelta(p)
         \/ FinalizeBegins(p) \/ Put(p) \/ WaitTimesOut(p) \/ FlushAcknowledged(p)
         \/ WriterStopped(p) \/ Replace(p) \/ PruneFails(p) \/ Abort(p) \/ Crash(p)
  PROVE  PruneDue => PruneDue'
<1> SUFFICES ASSUME PruneDue PROVE PruneDue'
  OBVIOUS
<1>1. \A q \in Procs : q # p => pc'[q] = pc[q]
  BY DEF ClearScope, CloseStore, StartResponse, AppendDelta, FinalizeBegins, Put, WaitTimesOut,
         FlushAcknowledged, WriterStopped, Replace, PruneFails, Abort, Crash, GoTo, LeaveTurn,
         Types, TypeProc, proc
<1>2. unpruned => unpruned'
  BY DEF ClearScope, CloseStore, StartResponse, AppendDelta, FinalizeBegins, Put, WaitTimesOut,
         FlushAcknowledged, WriterStopped, Replace, PruneFails, Abort, Crash, hist
<1>3. pc[p] \in {"openprune", "prune"} => unpruned'
  BY DEF ClearScope, CloseStore, StartResponse, AppendDelta, FinalizeBegins, Put, WaitTimesOut,
         FlushAcknowledged, WriterStopped, Replace, PruneFails, Abort, Crash, AfterPut
<1> QED BY <1>1, <1>2, <1>3 DEF PruneDue

LEMMA WithinLimitsStays ==
  ASSUME Types, Types', WithinLimits, Stored' \subseteq Stored,
         \A t \in Stored' : rows'[t] = rows[t]
  PROVE  WithinLimits'
BY FewerWithinLimits DEF WithinLimits

LEMMA RetentionKept ==
  ASSUME StoreInv, StoreInv', Listed, PruneDue \/ WithinLimits, [Next]_vars
  PROVE  (PruneDue \/ WithinLimits)'
<1>1. Types /\ Types' /\ Owned
  BY DEF StoreInv
<1>2. ASSUME UNCHANGED <<rows, pc, unpruned>> PROVE (PruneDue \/ WithinLimits)'
  <2>1. PruneDue => PruneDue'
    BY <1>2 DEF PruneDue
  <2>2. Stored' \subseteq Stored /\ \A t \in Stored' : rows'[t] = rows[t]
    BY <1>2 DEF Stored
  <2> QED BY <1>1, <2>1, <2>2, WithinLimitsStays
<1>3. ASSUME NEW p \in Procs, Open(p) PROVE PruneDue'
  BY <1>1, <1>3 DEF Open, GoTo, PruneDue, Types, TypeProc
<1>4. ASSUME NEW p \in Procs, Prune(p) PROVE WithinLimits'
  BY <1>1, <1>4, PruneWithinLimits
<1>5. ASSUME NEW p \in Procs, ClearScope(p) PROVE WithinLimits'
  <2>1. \A t \in Turns : rows'[t].state = "none"
    BY <1>5 DEF ClearScope, NoRow
  <2>2. Stored' = {}
    BY <2>1 DEF Stored
  <2> QED BY <2>2, NoneWithinLimits
<1>6. ASSUME NEW p \in Procs, StartResponse(p) PROVE (PruneDue \/ WithinLimits)'
  <2>1. rows' = [rows EXCEPT ![started + 1] = [NoRow EXCEPT !.state = "ACTIVE"]]
    BY <1>6 DEF StartResponse
  <2>2. Stored' \subseteq Stored /\ \A t \in Stored' : rows'[t] = rows[t]
    <3>1. \A t \in Turns : rows'[t] = rows[t] \/ rows'[t].state = "ACTIVE"
      BY <1>1, <2>1 DEF Types, TypeDb, NoRow
    <3> QED BY <3>1 DEF Stored
  <2>3. PruneDue => PruneDue'
    BY <1>1, <1>6, PruneStaysDue
  <2> QED BY <1>1, <2>2, <2>3, WithinLimitsStays
<1>7. ASSUME NEW p \in Procs, Replace(p) PROVE (PruneDue \/ WithinLimits)'
  <2>1. CASE pc'[p] = "prune"
    BY <2>1 DEF PruneDue
  <2>2. CASE UNCHANGED rows
    <3>1. Stored' \subseteq Stored /\ \A t \in Stored' : rows'[t] = rows[t]
      BY <2>2 DEF Stored
    <3>2. PruneDue => PruneDue'
      BY <1>1, <1>7, PruneStaysDue
    <3> QED BY <1>1, <3>1, <3>2, WithinLimitsStays
  <2> QED BY <1>1, <1>7, <2>1, <2>2 DEF Replace, GoTo, Types, TypeProc
<1>8. ASSUME NEW t \in Turns, Writer(t) PROVE (PruneDue \/ WithinLimits)'
  <2>1. UNCHANGED <<pc, unpruned>>
    BY <1>8 DEF Writer, WriterTakes, WriterEnters, WriterAppends, proc, hist
  <2>2. CASE UNCHANGED rows
    BY <1>2, <2>1, <2>2
  <2>3. CASE \A u \in Turns : rows'[u] = rows[u] \/ rows'[u].state = "ACTIVE"
    <3>1. Stored' \subseteq Stored /\ \A u \in Stored' : rows'[u] = rows[u]
      BY <2>3 DEF Stored
    <3>2. PruneDue => PruneDue'
      BY <2>1 DEF PruneDue
    <3> QED BY <1>1, <3>1, <3>2, WithinLimitsStays
  <2>4. \/ UNCHANGED rows
        \/ \A u \in Turns : rows'[u] = rows[u] \/ rows'[u].state = "ACTIVE"
    <3>1. CASE WriterTakes(t)
      BY <3>1 DEF WriterTakes, db
    <3>3. CASE WriterEnters(t)
      BY <3>3 DEF WriterEnters, db
    <3>2. CASE WriterAppends(t) /\ rows' # rows
      <4>1. rows'[t].state = "ACTIVE"
        BY <3>2, WrittenIs
      <4>2. \A u \in Turns : u # t => rows'[u] = rows[u]
        BY <1>1, <3>2 DEF WriterAppends, Types, TypeDb
      <4> QED BY <4>1, <4>2
    <3> QED BY <1>8, <3>1, <3>2, <3>3 DEF Writer
  <2> QED BY <2>2, <2>3, <2>4
<1>9. ASSUME NEW p \in Procs,
             \/ CloseStore(p) \/ AppendDelta(p) \/ FinalizeBegins(p) \/ Crash(p)
             \/ Put(p) \/ WaitTimesOut(p) \/ FlushAcknowledged(p) \/ WriterStopped(p)
             \/ PruneFails(p) \/ Abort(p)
      PROVE  (PruneDue \/ WithinLimits)'
  <2>1. UNCHANGED rows
    BY <1>9 DEF CloseStore, AppendDelta, FinalizeBegins, Crash, Put, WaitTimesOut,
                FlushAcknowledged, WriterStopped, PruneFails, Abort, db
  <2>2. Stored' \subseteq Stored /\ \A t \in Stored' : rows'[t] = rows[t]
    BY <2>1 DEF Stored
  <2>3. PruneDue => PruneDue'
    BY <1>1, <1>9, PruneStaysDue
  <2> QED BY <1>1, <2>2, <2>3, WithinLimitsStays
<1>10. UNCHANGED vars => UNCHANGED <<rows, pc, unpruned>>
  BY DEF vars, db, proc, hist
<1> QED BY <1>2, <1>3, <1>4, <1>5, <1>6, <1>7, <1>8, <1>9, <1>10 DEF Next, Sinking

(* MAX_COMPLETED_RESPONSES and MAX_LOGICAL_BYTES hold whenever no prune is   *)
(* due (TranscriptStore.__init__, finalize, prune), however many processes   *)
(* stream, abort, take rows for stale or are killed in between; a prune that *)
(* failed is made up for by the next.                                        *)
THEOREM RetentionHolds == Spec => []RetentionBounded
<1>1. Init => Listed /\ (PruneDue \/ WithinLimits)
  <2> SUFFICES ASSUME Init PROVE Listed /\ WithinLimits
    OBVIOUS
  <2>1. Rows = {} /\ Stored = {} /\ recency = <<>>
    BY DEF Init, NoRow, Rows, Stored
  <2>2. Listed
    BY <2>1, EmptySeq DEF Listed
  <2>3. MaxCompleted \in Nat /\ MaxLogical \in Nat /\ MaxTurns \in Nat
    BY TranscriptAssumption
  <2>4. Cardinality(Stored) = 0 /\ BytesOf(Stored) = 0
    BY <2>1, <2>3, FS_EmptySet, TotalOfNone DEF BytesOf
  <2> QED BY <2>2, <2>3, <2>4 DEF WithinLimits
<1>2. StoreInv /\ Listed /\ [Next]_vars => Listed'
  BY ListedKept DEF StoreInv
<1>3. StoreInv /\ StoreInv' /\ Listed /\ (PruneDue \/ WithinLimits) /\ [Next]_vars
        => (PruneDue \/ WithinLimits)'
  BY RetentionKept
<1>4. PruneDue \/ WithinLimits => RetentionBounded
  BY DEF PruneDue, WithinLimits, RetentionBounded
<1> QED BY <1>1, <1>2, <1>3, <1>4, StoreInvHolds, PTL DEF Spec
==============================================================================
