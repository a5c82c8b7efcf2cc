------------------------ MODULE ResumableStream_proofs ------------------------
(* Theorems about resumable streams, for any streams, readers, TTL and length. *)
EXTENDS ResumableStream, SequenceTheorems, TLAPS

\* The producer of s appends to its list, or has yet to start.
Live(s) == \/ prod[s].pc = "idle"
           \/ prod[s].pc \in Producing /\ prod[s].persisted

\* The producer of s has run and stopped.
Settled(s) == prod[s].pc \notin Producing \cup {"idle"}

\* The list is the beginning of the stream; while the producer persists, it is
\* all of it.
ListInv(s) ==
    /\ list[s] = Chunks(Len(list[s]))
    /\ prod[s].pc = "idle" => list[s] = <<>> /\ prod[s].sent = 0
    /\ prod[s].pc \in {"append", "expire"} => prod[s].persisted
    /\ prod[s].pc \in {"pull", "append"} /\ prod[s].persisted
          => Len(list[s]) = prod[s].sent
    /\ prod[s].pc = "expire" => Len(list[s]) = prod[s].sent + 1
    /\ prod[s].persisted /\ list[s] # <<>> => Len(list[s]) >= prod[s].sent
    /\ done[s] => Settled(s)

\* The reader read the list after it saw done.
SawDone(r) == \/ reader[r].pc = "test" /\ reader[r].seen
              \/ reader[r].pc = "complete"

\* A reader has read the beginning of a list that only grows, or is gone; when
\* it saw done before it read, nothing was left to read.
ReaderInv(r) ==
    LET s == reader[r].stream
    IN /\ reader[r].out = Chunks(reader[r].index)
       /\ reader[r].pc = "idle" => reader[r].index = 0
       /\ s \in Streams =>
            \/ reader[r].index <= Len(list[s])
            \/ list[s] = <<>> /\ ~Live(s)
       /\ SawDone(r) \/ (reader[r].pc = "read" /\ reader[r].seen)
            => Settled(s)
       /\ SawDone(r) /\ list[s] # <<>> => reader[r].index = Len(list[s])

StreamInv ==
    /\ \A s \in Streams : ListInv(s)
    /\ \A r \in Readers : ReaderInv(r)

-------------------------------------------------------------------------------
\* Numbered chunks: what the length is, and what an append makes of them.
LEMMA ChunksSeq ==
  ASSUME NEW n \in Nat
  PROVE  /\ Chunks(n) \in Seq(Nat) /\ Len(Chunks(n)) = n
         /\ Append(Chunks(n), n + 1) = Chunks(n + 1)
  BY DEF Chunks

\* A reader that has the first i chunks and reads on has them all.
LEMMA ChunksRead ==
  ASSUME NEW n \in Nat, NEW i \in Nat, i <= n
  PROVE  /\ Len(SubSeq(Chunks(n), i + 1, n)) = n - i
         /\ Chunks(i) \o SubSeq(Chunks(n), i + 1, n) = Chunks(n)
<1> DEFINE new == SubSeq(Chunks(n), i + 1, n)
<1>1. Chunks(n) \in Seq(Nat) /\ Len(Chunks(n)) = n /\ Chunks(i) \in Seq(Nat)
      /\ Len(Chunks(i)) = i
  BY ChunksSeq
<1>2. new \in Seq(Nat) /\ Len(new) = n - i
  BY <1>1 DEF Chunks
<1>3. \A k \in 1..(n - i) : new[k] = i + k
  BY <1>1, <1>2 DEF Chunks
<1> HIDE DEF new
<1>4. Chunks(i) \o new \in Seq(Nat) /\ Len(Chunks(i) \o new) = n
  BY <1>1, <1>2
<1>5. \A k \in 1..n : (Chunks(i) \o new)[k] = Chunks(n)[k]
  BY <1>1, <1>2, <1>3 DEF Chunks
<1>6. Chunks(i) \o new = Chunks(n)
  BY <1>1, <1>4, <1>5, SeqEqual
<1> QED BY <1>2, <1>6 DEF new

-------------------------------------------------------------------------------
\* TypeOK, Redis and the two sides apart.
RedisOK ==
    /\ active \in Streams \cup {None} /\ activeT \in 0..TTL
    /\ active # None => activeT > 0
    /\ list \in [Streams -> Seq(Nat)] /\ listT \in [Streams -> 0..Forever]
    /\ doneT \in [Streams -> 0..TTL]
DoneOK == done \in [Streams -> BOOLEAN]
ProdOK == prod \in [Streams -> ProducerType]
ReaderOK ==
    /\ reader \in [Readers -> ReaderType]
    /\ \A r \in Readers : reader[r].pc # "idle" => reader[r].stream \in Streams

\* The type invariant, split by the part of the state it speaks of.
LEMMA TypeSplit == TypeOK <=> RedisOK /\ DoneOK /\ ProdOK /\ ReaderOK
  BY DEF TypeOK, RedisOK, DoneOK, ProdOK, ReaderOK

\* The store starts empty.
LEMMA TypeInit == Init => TypeOK
<1> USE StreamAssumption
<1> SUFFICES ASSUME Init PROVE TypeOK
  OBVIOUS
<1>1. RedisOK
  BY DEF Init, RedisOK, Forever
<1>2. DoneOK
  BY DEF Init, DoneOK
<1>3. ProdOK
  BY DEF Init, ProdOK, ProducerType, ProducerPc
<1>4. ReaderOK
  BY DEF Init, ReaderOK, ReaderType, ReaderPc
<1> QED BY <1>1, <1>2, <1>3, <1>4, TypeSplit

\* A flag of a producer is set.
LEMMA ProdStarted ==
  ASSUME ProdOK, NEW s \in Streams, NEW b \in BOOLEAN,
         prod' = [prod EXCEPT ![s].pc = "pull", ![s].started = b,
                              ![s].persisted = b]
  PROVE  ProdOK'
  BY DEF ProdOK, ProducerType, ProducerPc, Producing

\* The steps of the producers keep the types.
LEMMA TypeProducer ==
  ASSUME TypeOK, NEW s \in Streams,
         \/ \E o \in Outcome : Start(s, o)
         \/ Capture(s)
         \/ ClientLeaves(s)
  PROVE  RedisOK' /\ DoneOK' /\ ProdOK' /\ reader' = reader
<1> USE StreamAssumption DEF Forever
<1>0. RedisOK /\ DoneOK /\ ProdOK
  BY TypeSplit
<1>p. prod[s].sent \in Nat /\ prod[s].started \in BOOLEAN
      /\ prod[s].persisted \in BOOLEAN /\ prod[s].pc \in ProducerPc
  BY <1>0 DEF ProdOK, ProducerType
<1>1. ASSUME NEW o \in Outcome, Start(s, o)
      PROVE  RedisOK' /\ DoneOK' /\ ProdOK' /\ reader' = reader
  <2>1. DoneOK' /\ reader' = reader
    BY <1>0, <1>1 DEF Start, DoneOK
  <2>2. /\ active' \in Streams \cup {None} /\ activeT' \in 0..TTL
        /\ active' # None => activeT' > 0
    <3>1. CASE Applied(o)
      <4>1. active' = s /\ activeT' = TTL
        BY <1>1, <3>1 DEF Start
      <4> QED BY <4>1
    <3>2. CASE ~Applied(o)
      BY <1>0, <1>1, <3>2 DEF Start, RedisOK
    <3> QED BY <3>1, <3>2
  <2>3. RedisOK'
    BY <1>0, <1>1, <2>2 DEF Start, RedisOK
  <2>4. ProdOK'
    <3>1. (o = "ok") \in BOOLEAN
      OBVIOUS
    <3>2. prod' = [prod EXCEPT ![s].pc = "pull", ![s].started = (o = "ok"),
                               ![s].persisted = (o = "ok")]
      BY <1>1 DEF Start
    <3> QED BY <1>0, <3>1, <3>2, ProdStarted
  <2> QED BY <2>1, <2>3, <2>4
<1>2. ASSUME Pull(s)
      PROVE  RedisOK' /\ DoneOK' /\ ProdOK' /\ reader' = reader
  <2>1. RedisOK' /\ DoneOK' /\ reader' = reader
    BY <1>0, <1>2 DEF Pull, RedisOK, DoneOK
  <2>2. ProdOK'
    BY <1>0, <1>2, <1>p DEF Pull, ProdOK, ProducerType, ProducerPc, Producing
  <2> QED BY <2>1, <2>2
<1>3. ASSUME NEW o \in Outcome, AppendChunk(s, o)
      PROVE  RedisOK' /\ DoneOK' /\ ProdOK' /\ reader' = reader
  <2>1. DoneOK' /\ reader' = reader
    BY <1>0, <1>3 DEF AppendChunk, DoneOK
  <2>2. ProdOK'
    BY <1>0, <1>3, <1>p DEF AppendChunk, ProdOK, ProducerType, ProducerPc, Producing
  <2>3. Append(list[s], prod[s].sent + 1) \in Seq(Nat)
    BY <1>0, <1>p DEF RedisOK
  <2>4. list' \in [Streams -> Seq(Nat)] /\ listT' \in [Streams -> 0..Forever]
    <3>1. CASE Applied(o)
      <4>1. list' = [list EXCEPT ![s] = Append(list[s], prod[s].sent + 1)]
        BY <1>3, <3>1 DEF AppendChunk
      <4>2. list' \in [Streams -> Seq(Nat)]
        BY <1>0, <2>3, <4>1 DEF RedisOK
      <4>3. listT' \in [Streams -> 0..Forever]
        <5>1. \E t \in {Forever, listT[s]} : listT' = [listT EXCEPT ![s] = t]
          BY <1>3, <3>1 DEF AppendChunk
        <5>2. Forever \in 0..Forever /\ listT[s] \in 0..Forever
          BY <1>0 DEF RedisOK
        <5> QED BY <1>0, <5>1, <5>2 DEF RedisOK
      <4> QED BY <4>2, <4>3
    <3>2. CASE ~Applied(o)
      BY <1>0, <1>3, <3>2 DEF AppendChunk, RedisOK
    <3> QED BY <3>1, <3>2
  <2>5. RedisOK'
    BY <1>0, <1>3, <2>4 DEF AppendChunk, RedisOK
  <2> QED BY <2>1, <2>2, <2>5
<1>4. ASSUME NEW o \in Outcome, ExpireList(s, o)
      PROVE  RedisOK' /\ DoneOK' /\ ProdOK' /\ reader' = reader
  <2>1. RedisOK' /\ DoneOK' /\ reader' = reader
    BY <1>0, <1>4 DEF ExpireList, RedisOK, DoneOK
  <2>2. ProdOK'
    BY <1>0, <1>4, <1>p DEF ExpireList, ProdOK, ProducerType, ProducerPc, Producing
  <2> QED BY <2>1, <2>2
<1>5. ASSUME SourceEnds(s) \/ ClientLeaves(s)
      PROVE  RedisOK' /\ DoneOK' /\ ProdOK' /\ reader' = reader
  <2>1. RedisOK' /\ DoneOK' /\ reader' = reader
    BY <1>0, <1>5 DEF SourceEnds, ClientLeaves, RedisOK, DoneOK
  <2>2. ProdOK'
    BY <1>0, <1>5, <1>p
       DEF SourceEnds, ClientLeaves, ProdOK, ProducerType, ProducerPc
  <2> QED BY <2>1, <2>2
<1>6. ASSUME NEW o \in Outcome, SetDone(s, o)
      PROVE  RedisOK' /\ DoneOK' /\ ProdOK' /\ reader' = reader
  <2>0. /\ done' = [done EXCEPT ![s] = TRUE] \/ done' = done
        /\ doneT' = [doneT EXCEPT ![s] = TTL] \/ doneT' = doneT
        /\ UNCHANGED <<active, activeT, list, listT, reader>>
    BY <1>6 DEF SetDone
  <2>a. DoneOK'
    BY <1>0, <2>0 DEF DoneOK
  <2>b. RedisOK'
    BY <1>0, <2>0 DEF RedisOK
  <2>1. RedisOK' /\ DoneOK' /\ reader' = reader
    BY <2>0, <2>a, <2>b
  <2>2. ProdOK'
    BY <1>0, <1>6, <1>p DEF SetDone, ProdOK, ProducerType, ProducerPc
  <2> QED BY <2>1, <2>2
<1>7. ASSUME NEW o \in Outcome, CompareActive(s, o) \/ Refresh(s, o)
      PROVE  RedisOK' /\ DoneOK' /\ ProdOK' /\ reader' = reader
  <2>1. RedisOK' /\ DoneOK' /\ reader' = reader
    BY <1>0, <1>7 DEF CompareActive, Refresh, RedisOK, DoneOK
  <2>2. ProdOK'
    BY <1>0, <1>7, <1>p DEF CompareActive, Refresh, ProdOK, ProducerType, ProducerPc
  <2> QED BY <2>1, <2>2
<1> QED
  BY <1>1, <1>2, <1>3, <1>4, <1>5, <1>6, <1>7 DEF Capture

\* The steps of the readers keep the types.
LEMMA TypeReader ==
  ASSUME TypeOK, NEW r \in Readers,
         Attach(r) \/ Resume(r) \/ \E p \in {"failed", "closed"} : ReaderStops(r, p)
  PROVE  ReaderOK' /\ UNCHANGED <<active, activeT, list, listT, done, doneT, prod>>
<1> USE StreamAssumption
<1>0. RedisOK /\ DoneOK /\ ReaderOK
  BY TypeSplit
<1>r. /\ reader[r] \in ReaderType
      /\ reader[r].pc # "idle" => reader[r].stream \in Streams
  BY <1>0 DEF ReaderOK
<1>1. CASE Attach(r)
  BY <1>0, <1>1, <1>r DEF Attach, ReaderOK, RedisOK, ReaderType, ReaderPc
<1>2. CASE CheckActive(r)
  BY <1>0, <1>2, <1>r DEF CheckActive, ReaderOK, ReaderType, ReaderPc
<1>3. CASE CheckDone(r)
  <2>1. done[reader[r].stream] \in BOOLEAN
    BY <1>0, <1>3, <1>r DEF CheckDone, DoneOK
  <2> QED BY <1>0, <1>3, <1>r, <2>1 DEF CheckDone, ReaderOK, ReaderType, ReaderPc
<1>4. CASE ReadChunks(r)
  <2> DEFINE buffered == list[reader[r].stream]
             new == SubSeq(buffered, reader[r].index + 1, Len(buffered))
  <2>1. buffered \in Seq(Nat) /\ reader[r].index \in Nat /\ reader[r].out \in Seq(Nat)
    BY <1>0, <1>4, <1>r DEF ReadChunks, RedisOK, ReaderType
  <2>2. new \in Seq(Nat)
    BY <2>1
  <2>3. reader[r].index + Len(new) \in Nat /\ reader[r].out \o new \in Seq(Nat)
    <3>1. Len(new) \in Nat
      BY <2>2
    <3> HIDE DEF new, buffered
    <3>2. reader[r].out \o new \in Seq(Nat)
      BY <2>1, <2>2
    <3> QED BY <2>1, <3>1, <3>2
  <2>4. /\ reader' = [reader EXCEPT ![r].pc = "test",
                                    ![r].index = reader[r].index + Len(new),
                                    ![r].out = reader[r].out \o new]
        /\ UNCHANGED <<active, activeT, list, listT, done, doneT, prod>>
    BY <1>4 DEF ReadChunks
  <2> HIDE DEF new, buffered
  <2>5. reader[r].pc = "read"
    BY <1>4 DEF ReadChunks
  <2>6. reader' \in [Readers -> ReaderType]
    BY <1>0, <1>r, <2>3, <2>4 DEF ReaderOK, ReaderType, ReaderPc
  <2>7. ASSUME NEW q \in Readers, reader'[q].pc # "idle"
        PROVE  reader'[q].stream \in Streams
    BY <1>0, <1>r, <2>4, <2>5, <2>7 DEF ReaderOK, ReaderType
  <2> QED BY <2>4, <2>6, <2>7 DEF ReaderOK
<1>5. CASE TestDone(r)
  BY <1>0, <1>5, <1>r DEF TestDone, ReaderOK, ReaderType, ReaderPc
<1>6. ASSUME NEW p \in {"failed", "closed"}, ReaderStops(r, p)
      PROVE  ReaderOK' /\ UNCHANGED <<active, activeT, list, listT, done, doneT, prod>>
  BY <1>0, <1>6, <1>r DEF ReaderStops, ReaderOK, ReaderType, ReaderPc, Reading
<1> QED BY <1>1, <1>2, <1>3, <1>4, <1>5, <1>6 DEF Resume

\* The passing of time keeps the types.
LEMMA TypeTick ==
  ASSUME TypeOK, Tick
  PROVE  RedisOK' /\ DoneOK' /\ UNCHANGED <<prod, reader>>
<1> USE StreamAssumption DEF Forever
<1>0. RedisOK /\ DoneOK
  BY TypeSplit
<1>1. RedisOK'
  BY <1>0 DEF Tick, RedisOK, Less
<1>2. DoneOK'
  BY <1>0 DEF Tick, DoneOK
<1> QED BY <1>1, <1>2 DEF Tick

\* The keys, producers and readers have their types.
THEOREM TypeCorrect == Spec => []TypeOK
<1>1. TypeOK /\ [Next]_vars => TypeOK'
  <2> SUFFICES ASSUME TypeOK, [Next]_vars
               PROVE  RedisOK' /\ DoneOK' /\ ProdOK' /\ ReaderOK'
    BY DEF TypeOK, RedisOK, DoneOK, ProdOK, ReaderOK
  <2>0. RedisOK /\ DoneOK /\ ProdOK /\ ReaderOK
    BY TypeSplit
  <2>1. ASSUME NEW s \in Streams,
               (\E o \in Outcome : Start(s, o)) \/ Capture(s) \/ ClientLeaves(s)
        PROVE  RedisOK' /\ DoneOK' /\ ProdOK' /\ ReaderOK'
    BY <2>0, <2>1, TypeProducer DEF ReaderOK
  <2>2. ASSUME NEW r \in Readers,
               Attach(r) \/ Resume(r) \/ \E p \in {"failed", "closed"} : ReaderStops(r, p)
        PROVE  RedisOK' /\ DoneOK' /\ ProdOK' /\ ReaderOK'
    BY <2>0, <2>2, TypeReader DEF RedisOK, DoneOK, ProdOK
  <2>3. CASE Tick
    BY <2>0, <2>3, TypeTick DEF ProdOK, ReaderOK
  <2>4. CASE UNCHANGED vars
    BY <2>0, <2>4 DEF vars, RedisOK, DoneOK, ProdOK, ReaderOK
  <2> QED BY <2>1, <2>2, <2>3, <2>4 DEF Next
<1> QED BY <1>1, TypeInit, PTL DEF Spec

-------------------------------------------------------------------------------
\* A producer that does not persist never does again, and its list can only go.
Moves(s) ==
    /\ Live(s) => Len(list'[s]) >= Len(list[s])
    /\ ~Live(s) => ~Live(s)' /\ (list'[s] = list[s] \/ list'[s] = <<>>)
    /\ Settled(s) => Settled(s)'

\* What a step leaves alone stays as it is.
LEMMA StreamKept ==
  ASSUME TypeOK, NEW s \in Streams, ListInv(s),
         list'[s] = list[s], prod'[s] = prod[s], done'[s] = done[s]
  PROVE  ListInv(s)' /\ Moves(s)
<1>1. Len(list[s]) \in Nat
  BY DEF TypeOK
<1>2. (Live(s) <=> Live(s)') /\ (Settled(s) <=> Settled(s)')
  BY DEF Live, Settled
<1> QED BY <1>1, <1>2 DEF ListInv, Moves

\* No step of a producer or of time takes from a reader what it has.
LEMMA ReaderKept ==
  ASSUME TypeOK, TypeOK', NEW r \in Readers, ReaderInv(r), reader' = reader,
         \A s \in Streams : Moves(s)
  PROVE  ReaderInv(r)'
<1> DEFINE s == reader[r].stream
<1>1. /\ reader[r].index \in Nat
      /\ reader[r].pc # "idle" => s \in Streams
  BY DEF TypeOK, ReaderType
<1>2. s \in Streams => Len(list[s]) \in Nat /\ Len(list'[s]) \in Nat
  <2>1. list \in [Streams -> Seq(Nat)] /\ list' \in [Streams -> Seq(Nat)]
    BY DEF TypeOK
  <2> QED BY <2>1
<1>3. s \in Streams => Moves(s)
  OBVIOUS
<1>4. (SawDone(r) <=> SawDone(r)') /\ (SawDone(r) => reader[r].pc # "idle")
  BY DEF SawDone
<1>5. Settled(s) => ~Live(s)
  BY DEF Settled, Live
<1>6. s \in Streams =>
        reader[r].index <= Len(list'[s]) \/ (list'[s] = <<>> /\ ~Live(s)')
  BY <1>1, <1>2, <1>3 DEF ReaderInv, Moves
<1>7. SawDone(r) \/ (reader[r].pc = "read" /\ reader[r].seen) => Settled(s)'
  BY <1>1, <1>3, <1>4 DEF ReaderInv, Moves
<1>8. SawDone(r) /\ list'[s] # <<>> => reader[r].index = Len(list'[s])
  BY <1>1, <1>3, <1>4, <1>5 DEF ReaderInv, Moves
<1> QED BY <1>4, <1>6, <1>7, <1>8 DEF ReaderInv

\* The steps of a producer keep its list the beginning of its stream.
LEMMA ProducerStep ==
  ASSUME TypeOK, NEW s \in Streams, ListInv(s),
         \/ \E o \in Outcome : Start(s, o)
         \/ Capture(s)
         \/ ClientLeaves(s)
  PROVE  ListInv(s)' /\ Moves(s)
<1> USE DEF Producing
<1>p. /\ prod \in [Streams -> ProducerType] /\ prod[s] \in ProducerType
      /\ prod[s].sent \in Nat
      /\ list \in [Streams -> Seq(Nat)] /\ list[s] \in Seq(Nat)
      /\ Len(list[s]) \in Nat /\ done \in [Streams -> BOOLEAN]
  BY DEF TypeOK, ProducerType
<1>1. ASSUME NEW o \in Outcome, Start(s, o)
      PROVE  ListInv(s)' /\ Moves(s)
  <2>1. /\ prod[s].pc = "idle" /\ list[s] = <<>> /\ prod[s].sent = 0 /\ ~done[s]
    BY <1>1 DEF Start, ListInv, Settled
  <2>2. /\ prod'[s].pc = "pull" /\ prod'[s].sent = prod[s].sent
        /\ list' = list /\ done' = done
    BY <1>1, <1>p DEF Start, ProducerType
  <2>3. Len(list[s]) = 0
    BY <2>1
  <2> QED BY <1>p, <2>1, <2>2, <2>3 DEF ListInv, Moves, Live, Settled
<1>2. CASE Pull(s)
  <2>1. CASE prod[s].persisted
    BY <1>2, <1>p, <2>1 DEF Pull, ListInv, Moves, Live, Settled, ProducerType
  <2>2. CASE ~prod[s].persisted
    BY <1>2, <1>p, <2>2 DEF Pull, ListInv, Moves, Live, Settled, ProducerType
  <2> QED BY <2>1, <2>2
<1>3. ASSUME NEW o \in Outcome, AppendChunk(s, o)
      PROVE  ListInv(s)' /\ Moves(s)
  <2>1. /\ prod[s].pc = "append" /\ prod[s].persisted /\ ~done[s]
        /\ Len(list[s]) = prod[s].sent /\ list[s] = Chunks(prod[s].sent)
    BY <1>3 DEF AppendChunk, ListInv, Settled
  <2>2. list'[s] \in {list[s], Chunks(prod[s].sent + 1)}
    BY <1>3, <1>p, <2>1, ChunksSeq DEF AppendChunk
  <2>3. o = "ok" => list'[s] = Chunks(prod[s].sent + 1)
    BY <1>3, <1>p, <2>1, ChunksSeq DEF AppendChunk, Applied
  <2>4. Len(Chunks(prod[s].sent + 1)) = prod[s].sent + 1
    <3>1. prod[s].sent + 1 \in Nat
      BY <1>p
    <3> QED BY <3>1, ChunksSeq
  <2>5. /\ done' = done
        /\ prod'[s].pc = IF o = "ok" THEN "expire" ELSE "pull"
        /\ o # "ok" => ~prod'[s].persisted
        /\ o = "ok" => prod'[s].persisted /\ prod'[s].sent = prod[s].sent
    BY <1>3, <1>p, <2>1 DEF AppendChunk, ProducerType
  <2>6. ListInv(s)'
    BY <1>p, <2>1, <2>2, <2>3, <2>4, <2>5 DEF ListInv, Settled
  <2>7. Moves(s)
    BY <1>p, <2>1, <2>2, <2>4 DEF Moves, Live, Settled
  <2> QED BY <2>6, <2>7
<1>4. ASSUME NEW o \in Outcome, ExpireList(s, o)
      PROVE  ListInv(s)' /\ Moves(s)
  <2>1. /\ prod[s].pc = "expire" /\ prod[s].persisted /\ ~done[s]
        /\ Len(list[s]) = prod[s].sent + 1
    BY <1>4 DEF ExpireList, ListInv, Settled
  <2>2. /\ done' = done /\ list' = list
        /\ prod'[s].pc = "pull" /\ prod'[s].sent = prod[s].sent + 1
    BY <1>4, <1>p DEF ExpireList, ProducerType
  <2> QED BY <1>p, <2>1, <2>2 DEF ListInv, Moves, Live, Settled
<1>5. CASE SourceEnds(s) \/ ClientLeaves(s)
  <2>1. /\ prod[s].pc \in Producing
        /\ prod'[s].pc \in {"finish", "ended"}
        /\ prod'[s].sent = prod[s].sent /\ prod'[s].persisted = prod[s].persisted
        /\ list' = list /\ done' = done
    BY <1>5, <1>p DEF SourceEnds, ClientLeaves, ProducerType
  <2> QED BY <1>p, <2>1 DEF ListInv, Moves, Live, Settled
<1>6. ASSUME NEW o \in Outcome,
             SetDone(s, o) \/ CompareActive(s, o) \/ Refresh(s, o)
      PROVE  ListInv(s)' /\ Moves(s)
  <2>1. /\ prod[s].pc \in {"finish", "compare", "refresh"}
        /\ prod'[s].pc \in {"compare", "refresh", "ended"}
        /\ prod'[s].sent = prod[s].sent /\ prod'[s].persisted = prod[s].persisted
        /\ list' = list
    BY <1>6, <1>p DEF SetDone, CompareActive, Refresh, ProducerType
  <2> QED BY <1>p, <2>1 DEF ListInv, Moves, Live, Settled
<1> QED
  BY <1>1, <1>2, <1>3, <1>4, <1>5, <1>6 DEF Capture

\* The other streams are not touched.
LEMMA ProducerFrame ==
  ASSUME TypeOK, NEW s \in Streams, NEW t \in Streams, s # t,
         \/ \E o \in Outcome : Start(s, o)
         \/ Capture(s)
         \/ ClientLeaves(s)
  PROVE  list'[t] = list[t] /\ prod'[t] = prod[t] /\ done'[t] = done[t]
<1>1. /\ prod \in [Streams -> ProducerType] /\ list \in [Streams -> Seq(Nat)]
      /\ done \in [Streams -> BOOLEAN]
  BY DEF TypeOK
<1>2. ASSUME NEW o \in Outcome, Start(s, o) \/ AppendChunk(s, o) \/ ExpireList(s, o)
      PROVE  list'[t] = list[t] /\ prod'[t] = prod[t] /\ done'[t] = done[t]
  BY <1>1, <1>2 DEF Start, AppendChunk, ExpireList
<1>3. ASSUME NEW o \in Outcome,
             SetDone(s, o) \/ CompareActive(s, o) \/ Refresh(s, o)
      PROVE  list'[t] = list[t] /\ prod'[t] = prod[t] /\ done'[t] = done[t]
  BY <1>1, <1>3 DEF SetDone, CompareActive, Refresh
<1>4. CASE Pull(s) \/ SourceEnds(s) \/ ClientLeaves(s)
  BY <1>1, <1>4 DEF Pull, SourceEnds, ClientLeaves
<1> QED BY <1>2, <1>3, <1>4 DEF Capture

\* Time takes a list only from a producer that does not persist any more.
LEMMA TickStep ==
  ASSUME TypeOK, NEW s \in Streams, ListInv(s), Tick
  PROVE  ListInv(s)' /\ Moves(s)
<1>1. /\ prod' = prod /\ list'[s] \in {list[s], <<>>} /\ (done'[s] => done[s])
      /\ list'[s] # list[s] => listT[s] <= 1 /\ list[s] # <<>>
  BY DEF Tick, TypeOK
<1>2. list'[s] # list[s] => ~(prod[s].pc \in Producing /\ prod[s].persisted)
  BY <1>1 DEF Tick, Prompt, TypeOK
<1>3. list'[s] # list[s] => ~Live(s)
  BY <1>1, <1>2 DEF Live, ListInv
<1>4. <<>> = Chunks(Len(<<>>)) /\ Len(list[s]) \in Nat /\ Len(<<>>) = 0
  BY DEF Chunks, TypeOK
<1>5. prod[s].pc \in {"append", "expire"} => prod[s].persisted
  BY DEF ListInv
<1>6. (Live(s)' <=> Live(s)) /\ (Settled(s)' <=> Settled(s))
  BY <1>1 DEF Live, Settled
<1>7. Moves(s)
  BY <1>1, <1>3, <1>4, <1>6 DEF Moves
<1>8. CASE list'[s] = list[s]
  BY <1>1, <1>6, <1>7, <1>8 DEF ListInv
<1>9. CASE list'[s] # list[s]
  <2>1. list'[s] = <<>> /\ ~Live(s)
    BY <1>1, <1>3, <1>9
  <2> QED BY <1>1, <1>4, <1>5, <1>6, <1>7, <2>1 DEF ListInv, Live, Producing
<1> QED BY <1>8, <1>9

-------------------------------------------------------------------------------
\* The steps of a reader keep what it has the beginning of its stream.
LEMMA ReaderStep ==
  ASSUME TypeOK, StreamInv, NEW r \in Readers, ReaderInv(r),
         Attach(r) \/ Resume(r) \/ \E p \in {"failed", "closed"} : ReaderStops(r, p)
  PROVE  ReaderInv(r)'
<1> DEFINE s == reader[r].stream
<1>1. /\ reader \in [Readers -> ReaderType] /\ reader[r] \in ReaderType
      /\ reader[r].index \in Nat
      /\ reader[r].pc # "idle" => s \in Streams
      /\ list \in [Streams -> Seq(Nat)] /\ done \in [Streams -> BOOLEAN]
      /\ active \in Streams \cup {None}
  BY DEF TypeOK, ReaderType
<1>2. UNCHANGED <<active, activeT, list, listT, done, doneT, prod>>
  BY TypeReader
<1>3. \A t \in Streams : (Live(t)' <=> Live(t)) /\ (Settled(t)' <=> Settled(t))
  BY <1>2 DEF Live, Settled
<1>4. CASE Attach(r)
  <2>1. /\ reader'[r].stream = active /\ active \in Streams
        /\ reader'[r].index = 0 /\ reader'[r].out = reader[r].out
        /\ reader'[r].pc = "active" /\ reader[r].index = 0
    BY <1>1, <1>4 DEF Attach, ReaderInv, ReaderType
  <2>2. Len(list[active]) \in Nat
    BY <1>1, <2>1
  <2> QED BY <1>2, <2>1, <2>2 DEF ReaderInv, SawDone
<1>5. CASE CheckDone(r)
  <2>1. s \in Streams
    BY <1>1, <1>5 DEF CheckDone
  <2>2. /\ reader'[r].stream = s /\ reader'[r].index = reader[r].index
        /\ reader'[r].out = reader[r].out /\ reader'[r].pc = "read"
        /\ reader[r].pc = "done"
    BY <1>1, <1>5 DEF CheckDone, ReaderType
  <2>3. reader'[r].seen => done[s]
    BY <1>1, <1>5 DEF CheckDone, ReaderType
  <2>4. reader'[r].seen => Settled(s)
    BY <2>1, <2>3 DEF StreamInv, ListInv
  <2> QED BY <1>2, <1>3, <2>1, <2>2, <2>4 DEF ReaderInv, SawDone
<1>6. CASE ReadChunks(r)
  <2> DEFINE n == Len(list[s])
             new == SubSeq(list[s], reader[r].index + 1, n)
  <2>1. /\ s \in Streams /\ n \in Nat /\ list[s] = Chunks(n)
        /\ reader[r].out = Chunks(reader[r].index)
    BY <1>1, <1>6 DEF ReadChunks, StreamInv, ListInv, ReaderInv
  <2>2. /\ reader'[r].stream = s /\ reader'[r].index = reader[r].index + Len(new)
        /\ reader'[r].out = reader[r].out \o new /\ reader'[r].pc = "test"
        /\ reader'[r].seen = reader[r].seen /\ reader[r].pc = "read"
    BY <1>1, <1>6 DEF ReadChunks, ReaderType
  <2>3. CASE reader[r].index <= n
    <3>1. Len(new) = n - reader[r].index /\ Chunks(reader[r].index) \o new = Chunks(n)
      BY <1>1, <2>1, <2>3, ChunksRead
    <3> HIDE DEF new, n
    <3>2. reader'[r].index = n /\ reader'[r].out = Chunks(n)
      BY <1>1, <2>1, <2>2, <3>1
    <3> QED BY <1>2, <1>3, <2>1, <2>2, <3>2 DEF ReaderInv, SawDone, n
  <2>4. CASE ~(reader[r].index <= n)
    <3>1. list[s] = <<>> /\ ~Live(s)
      BY <2>1, <2>4 DEF ReaderInv
    <3>2. new = <<>>
      BY <1>1, <3>1
    <3>3. reader[r].out \in Seq(Nat)
      BY <1>1 DEF ReaderType
    <3>4. reader'[r].index = reader[r].index /\ reader'[r].out = reader[r].out
      <4>1. reader[r].out \o <<>> = reader[r].out
        BY <3>3, ConcatEmptySeq
      <4>2. reader[r].index + Len(<<>>) = reader[r].index
        BY <1>1
      <4> QED BY <2>2, <3>2, <4>1, <4>2
    <3> QED BY <1>2, <1>3, <2>1, <2>2, <3>1, <3>4 DEF ReaderInv, SawDone
  <2> QED BY <2>3, <2>4
<1>7. CASE CheckActive(r) \/ TestDone(r)
           \/ \E p \in {"failed", "closed"} : ReaderStops(r, p)
  <2>1. s \in Streams
    BY <1>1, <1>7 DEF CheckActive, TestDone, ReaderStops, Reading
  <2>2. /\ reader'[r].stream = s /\ reader'[r].index = reader[r].index
        /\ reader'[r].out = reader[r].out
        /\ reader'[r].pc \in {"active", "done", "complete", "inactive", "failed", "closed"}
        /\ reader'[r].pc = "complete" => reader[r].pc = "test" /\ reader[r].seen
    BY <1>1, <1>7 DEF CheckActive, TestDone, ReaderStops, ReaderType
  <2> QED BY <1>2, <1>3, <2>1, <2>2 DEF ReaderInv, SawDone
<1> QED BY <1>4, <1>5, <1>6, <1>7 DEF Resume

\* The other readers are not touched.
LEMMA ReaderFrame ==
  ASSUME TypeOK, NEW r \in Readers, NEW q \in Readers, q # r, ReaderInv(q),
         Attach(r) \/ Resume(r) \/ \E p \in {"failed", "closed"} : ReaderStops(r, p)
  PROVE  ReaderInv(q)'
<1>1. UNCHANGED <<active, activeT, list, listT, done, doneT, prod>>
  BY TypeReader
<1>2. reader'[q] = reader[q]
  BY DEF TypeOK, Attach, Resume, CheckActive, CheckDone, ReadChunks, TestDone,
         ReaderStops
<1> QED BY <1>1, <1>2 DEF ReaderInv, SawDone, Settled, Live

-------------------------------------------------------------------------------
\* The invariant of lists and readers holds in every reachable state.
THEOREM StreamsCorrect == Spec => [](TypeOK /\ StreamInv)
<1>1. Init => StreamInv
  <2> SUFFICES ASSUME Init PROVE StreamInv
    OBVIOUS
  <2>1. Chunks(0) = <<>> /\ Len(<<>>) = 0
    BY DEF Chunks
  <2>2. ASSUME NEW s \in Streams PROVE ListInv(s)
    BY <2>1 DEF Init, ListInv, Producing
  <2>3. ASSUME NEW r \in Readers PROVE ReaderInv(r)
    BY <2>1, StreamAssumption DEF Init, ReaderInv, SawDone
  <2> QED BY <2>2, <2>3 DEF StreamInv
<1>2. TypeOK /\ TypeOK' /\ StreamInv /\ [Next]_vars => StreamInv'
  <2> SUFFICES ASSUME TypeOK, TypeOK', StreamInv, [Next]_vars
               PROVE  StreamInv'
    OBVIOUS
  <2>0. (\A s \in Streams : ListInv(s)) /\ (\A r \in Readers : ReaderInv(r))
    BY DEF StreamInv
  <2>1. ASSUME NEW s \in Streams,
               (\E o \in Outcome : Start(s, o)) \/ Capture(s) \/ ClientLeaves(s)
        PROVE  StreamInv'
    <3>1. ASSUME NEW t \in Streams PROVE ListInv(t)' /\ Moves(t)
      <4>1. CASE s = t
        BY <2>0, <2>1, <4>1, ProducerStep
      <4>2. CASE s # t
        BY <2>0, <2>1, <4>2, ProducerFrame, StreamKept
      <4> QED BY <4>1, <4>2
    <3>2. reader' = reader
      BY <2>1, TypeProducer
    <3>3. ASSUME NEW r \in Readers PROVE ReaderInv(r)'
      BY <2>0, <3>1, <3>2, ReaderKept
    <3> QED BY <3>1, <3>3 DEF StreamInv
  <2>2. ASSUME NEW r \in Readers,
               Attach(r) \/ Resume(r) \/ \E p \in {"failed", "closed"} : ReaderStops(r, p)
        PROVE  StreamInv'
    <3>1. UNCHANGED <<active, activeT, list, listT, done, doneT, prod>>
      BY <2>2, TypeReader
    <3>2. ASSUME NEW t \in Streams PROVE ListInv(t)'
      BY <2>0, <3>1, StreamKept
    <3>3. ASSUME NEW q \in Readers PROVE ReaderInv(q)'
      BY <2>0, <2>2, ReaderStep, ReaderFrame
    <3> QED BY <3>2, <3>3 DEF StreamInv
  <2>3. CASE Tick
    <3>1. ASSUME NEW t \in Streams PROVE ListInv(t)' /\ Moves(t)
      BY <2>0, <2>3, TickStep
    <3>2. reader' = reader
      BY <2>3, TypeTick
    <3>3. ASSUME NEW r \in Readers PROVE ReaderInv(r)'
      BY <2>0, <3>1, <3>2, ReaderKept
    <3> QED BY <3>1, <3>3 DEF StreamInv
  <2>4. CASE UNCHANGED vars
    BY <2>4 DEF vars, StreamInv, ListInv, ReaderInv, SawDone, Settled, Live
  <2> QED BY <2>1, <2>2, <2>3, <2>4 DEF Next
<1> QED BY <1>1, <1>2, TypeCorrect, PTL DEF Spec

\* A resumed client gets every chunk once and in order.
THEOREM PrefixKept == Spec => []OutputIsPrefix
<1>1. TypeOK /\ StreamInv => OutputIsPrefix
  <2> SUFFICES ASSUME TypeOK, StreamInv, NEW r \in Readers
               PROVE  reader[r].out = Chunks(Len(reader[r].out))
    BY DEF OutputIsPrefix
  <2>1. reader[r].out = Chunks(reader[r].index) /\ reader[r].index \in Nat
    BY DEF TypeOK, ReaderType, StreamInv, ReaderInv
  <2> QED BY <2>1, ChunksSeq
<1> QED BY <1>1, StreamsCorrect, PTL

\* A resumed client that ends by done has all the live client got.
THEOREM TailKept == Spec => []DoneMeansComplete
<1>1. TypeOK /\ StreamInv => DoneMeansComplete
  <2> SUFFICES ASSUME TypeOK, StreamInv, NEW r \in Readers,
                      NEW s \in Streams, s = reader[r].stream,
                      reader[r].pc = "complete", prod[s].persisted, list[s] # <<>>
               PROVE  Len(reader[r].out) >= prod[s].sent
    BY DEF DoneMeansComplete, TypeOK
  <2>1. reader[r].out = Chunks(reader[r].index) /\ reader[r].index \in Nat
    BY DEF TypeOK, ReaderType, StreamInv, ReaderInv
  <2>2. reader[r].index = Len(list[s])
    BY DEF StreamInv, ReaderInv, SawDone
  <2>3. Len(list[s]) >= prod[s].sent
    BY DEF StreamInv, ListInv
  <2> QED BY <2>1, <2>2, <2>3, ChunksSeq
<1> QED BY <1>1, StreamsCorrect, PTL

\* A resumed client gets no gap, and no missing tail when its stream is done.
THEOREM ResumeIsTrue == Spec => []ResumeTells
<1>1. OutputIsPrefix /\ DoneMeansComplete => ResumeTells
  BY DEF ResumeTells
<1> QED BY <1>1, PrefixKept, TailKept, PTL
===============================================================================
