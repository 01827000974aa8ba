---------------------------- MODULE Chunks_proofs ----------------------------
(* What SendChunkedMessage keeps, for every message and every limit.         *)
EXTENDS Chunks, SequenceTheorems, TLAPS

\* The buffer: it has no length exactly if it is empty, which it is only before
\* the first line, and it is as long as its only line or within the limit.
Buffered ==
  posting = "running" =>
    /\ size = 0 <=> next = begin
    /\ next = begin => begin = 1 /\ sent = <<>>
    /\ next = begin + 1 => size = Bytes[message[begin]] + 1
    /\ next > begin + 1 => size < Limit

ChunksInv == ChunksTypeOK /\ NothingLost /\ Buffered

\* What is posted is the buffer.
LEMMA Sent ==
  ASSUME ChunksTypeOK, NEW title \in {"title", "cont", "none"}, Send(title)
  PROVE  /\ sent' \in Seq(Embed) /\ Len(sent') = Len(sent) + 1
         /\ \A i \in 1..Len(sent) : sent'[i] = sent[i]
         /\ sent'[Len(sent) + 1] = [first |-> begin, last |-> next - 1, size |-> size, title |-> title]
<1> DEFINE e == [first |-> begin, last |-> next - 1, size |-> size, title |-> title]
<1>1. begin \in Nat \ {0} /\ next \in Nat /\ next >= begin /\ size \in Nat
  BY DEF ChunksTypeOK
<1>2. e \in Embed
  BY <1>1 DEF Embed
<1>3. sent' = Append(sent, e) /\ sent \in Seq(Embed)
  BY DEF Send, ChunksTypeOK
<1> HIDE DEF e
<1>4. /\ sent' \in Seq(Embed) /\ Len(sent') = Len(sent) + 1
      /\ \A i \in 1..Len(sent) : sent'[i] = sent[i]
      /\ sent'[Len(sent) + 1] = e
  BY <1>2, <1>3
<1> QED
  BY <1>4 DEF e

LEMMA ChunksStart == ASSUME ChunksInit PROVE ChunksInv
<1>1. Len(message) = 0 /\ Len(sent) = 0 /\ message \in Seq(Line) /\ sent \in Seq(Embed)
  BY DEF ChunksInit
<1>2. ChunksTypeOK
  <2>1. begin = 1 /\ next = 1 /\ size = 0 /\ posting = "idle"
    BY DEF ChunksInit
  <2> QED
    BY <1>1, <2>1 DEF ChunksTypeOK
<1>3. NothingLost
  BY <1>1 DEF ChunksInit, NothingLost, InOrder, Complete, Whole, NoneEmpty
<1>4. Buffered
  BY DEF ChunksInit, Buffered
<1> QED
  BY <1>2, <1>3, <1>4 DEF ChunksInv

\* A new message starts with nothing posted and an empty buffer.
LEMMA PostStep ==
  ASSUME ChunksInv, NEW lines \in Seq(Line), Post(lines)
  PROVE  ChunksInv'
<1>1. Len(lines) \in Nat /\ (lines # <<>> => 1 <= Len(lines))
  OBVIOUS
<1> QED
  BY <1>1, ChunksConstants
  DEF Post, ChunksInv, ChunksTypeOK, NothingLost, InOrder, Complete, Whole, NoneEmpty, Buffered

LEMMA LineBytes ==
  ASSUME ChunksTypeOK, NEW i \in 1..Len(message)
  PROVE  Bytes[message[i]] \in Nat
BY ChunksConstants DEF ChunksTypeOK

LEMMA PackStep ==
  ASSUME ChunksInv, Pack
  PROVE  ChunksInv'
<1>1. /\ posting = "running" /\ next \in 1..Len(message) /\ size + Bytes[message[next]] + 2 <= Limit
      /\ next' = next + 1 /\ size' = size + Bytes[message[next]] + 1
      /\ UNCHANGED <<posting, message, begin, sent>>
  BY DEF Pack, Fits, ChunksInv, ChunksTypeOK
<1>2. Bytes[message[next]] \in Nat /\ Limit \in Nat
  BY <1>1, LineBytes, ChunksConstants DEF ChunksInv
<1>3. ChunksTypeOK'
  BY <1>1, <1>2 DEF ChunksInv, ChunksTypeOK
<1>4. NothingLost'
  BY <1>1 DEF ChunksInv, NothingLost, InOrder, Complete, Whole, NoneEmpty
<1>5. Buffered'
  BY <1>1, <1>2 DEF ChunksInv, ChunksTypeOK, Buffered
<1> QED
  BY <1>3, <1>4, <1>5 DEF ChunksInv

\* What a posted embed must satisfy to keep NothingLost.
LEMMA SendStep ==
  ASSUME ChunksInv, posting = "running", UNCHANGED message,
         NEW title \in {"title", "cont", "none"}, Send(title),
         posting' = "running" => begin' = next,
         posting' = "nil" => next = Len(message) + 1,
         begin = next /\ message # <<>> => Bytes[message[1]] + 2 > Limit
  PROVE  NothingLost'
<1>1. /\ sent' \in Seq(Embed) /\ Len(sent') = Len(sent) + 1 /\ Len(sent) \in Nat
      /\ \A i \in 1..Len(sent) : sent'[i] = sent[i]
      /\ sent'[Len(sent) + 1].first = begin /\ sent'[Len(sent) + 1].last = next - 1
      /\ sent'[Len(sent) + 1].size = size
  BY Sent DEF ChunksInv, ChunksTypeOK
<1>2. begin \in Nat /\ next \in Nat
  BY DEF ChunksInv, ChunksTypeOK
<1>3. InOrder'
  <2>1. ASSUME NEW i \in 1..Len(sent')
        PROVE  sent'[i].first = IF i = 1 THEN 1 ELSE sent'[i - 1].last + 1
    <3>1. CASE i <= Len(sent)
      BY <1>1, <3>1 DEF ChunksInv, NothingLost, InOrder
    <3>2. CASE i = Len(sent) + 1
      <4>1. begin = IF sent = <<>> THEN 1 ELSE sent[Len(sent)].last + 1
        BY DEF ChunksInv, NothingLost, InOrder
      <4>2. sent = <<>> <=> Len(sent) = 0
        BY DEF ChunksInv, ChunksTypeOK
      <4>3. Len(sent) > 0 => sent'[i - 1] = sent[Len(sent)]
        BY <1>1, <3>2
      <4> QED
        BY <1>1, <3>2, <4>1, <4>2, <4>3
    <3> QED
      BY <1>1, <3>1, <3>2
  <2>2. sent' # <<>>
    BY <1>1
  <2>3. posting' = "running" => begin' = sent'[Len(sent')].last + 1
    BY <1>1, <1>2
  <2> QED
    BY <2>1, <2>2, <2>3 DEF InOrder
<1>4. Complete'
  <2>1. sent' # <<>> /\ sent'[Len(sent')].last = next - 1
    BY <1>1
  <2>2. posting' = "nil" => next - 1 = Len(message)
    BY DEF ChunksInv, ChunksTypeOK
  <2> QED
    BY <2>1, <2>2 DEF Complete
<1>5. Whole'
  <2> SUFFICES ASSUME NEW i \in 1..Len(sent'), sent'[i].size > Limit
               PROVE  sent'[i].first = sent'[i].last /\ Bytes[message[sent'[i].first]] >= Limit
    BY DEF Whole
  <2>1. CASE i <= Len(sent)
    BY <1>1, <2>1 DEF Whole, ChunksInv, NothingLost
  <2>2. CASE i = Len(sent) + 1
    <3>1. size > Limit /\ size \in Nat /\ Limit \in Nat /\ next >= begin
      BY <1>1, <2>2, ChunksConstants DEF ChunksInv, ChunksTypeOK
    <3>2. next = begin + 1 /\ size = Bytes[message[begin]] + 1
      BY <1>2, <3>1 DEF ChunksInv, Buffered
    <3>3. begin \in 1..Len(message)
      BY <1>2, <3>2 DEF ChunksInv, ChunksTypeOK
    <3>4. Bytes[message[begin]] \in Nat
      BY <3>3, ChunksConstants DEF ChunksInv, ChunksTypeOK
    <3> QED
      BY <1>1, <1>2, <2>2, <3>1, <3>2, <3>4
  <2> QED
    BY <1>1, <2>1, <2>2
<1>6. NoneEmpty'
  <2> SUFFICES ASSUME NEW i \in 1..Len(sent'), message # <<>>, sent'[i].first > sent'[i].last
               PROVE  i = 1 /\ Bytes[message[1]] + 2 > Limit
    BY DEF NoneEmpty
  <2>1. CASE i <= Len(sent)
    BY <1>1, <2>1 DEF NoneEmpty, ChunksInv, NothingLost
  <2>2. CASE i = Len(sent) + 1
    <3>1. begin = next
      BY <1>1, <1>2, <2>2 DEF ChunksInv, ChunksTypeOK
    <3>2. Len(sent) = 0
      BY <3>1 DEF ChunksInv, Buffered
    <3> QED
      BY <2>2, <3>1, <3>2
  <2> QED
    BY <1>1, <2>1, <2>2
<1> QED
  BY <1>3, <1>4, <1>5, <1>6 DEF NothingLost

LEMMA FlushStep ==
  ASSUME ChunksInv, Flush
  PROVE  ChunksInv'
<1> DEFINE title == IF sent = <<>> THEN "title" ELSE "cont"
<1>1. /\ posting = "running" /\ next \in 1..Len(message) /\ ~(size + Bytes[message[next]] + 2 <= Limit)
      /\ begin' = next /\ next' = next + 1 /\ size' = Bytes[message[next]] + 1
      /\ UNCHANGED <<posting, message>> /\ Send(title)
  BY DEF Flush, Fits, ChunksInv, ChunksTypeOK
<1>2. title \in {"title", "cont", "none"}
  OBVIOUS
<1> HIDE DEF title
<1>3. Bytes[message[next]] \in Nat /\ Limit \in Nat
  BY <1>1, LineBytes, ChunksConstants DEF ChunksInv
<1>4. ChunksTypeOK'
  <2>1. sent' \in Seq(Embed)
    BY <1>1, <1>2, Sent DEF ChunksInv
  <2>2. posting' \in {"idle", "running", "nil", "error"} /\ message' \in Seq(Line)
    BY <1>1 DEF ChunksInv, ChunksTypeOK
  <2>3. next \in Nat \ {0} /\ next <= Len(message) /\ Len(message') = Len(message)
    BY <1>1 DEF ChunksInv, ChunksTypeOK
  <2>4. begin' \in Nat \ {0} /\ next' \in begin'..(Len(message') + 1)
    BY <1>1, <2>3
  <2>5. size' \in Nat
    BY <1>1, <1>3
  <2> QED
    BY <2>1, <2>2, <2>4, <2>5 DEF ChunksTypeOK
\* A line that does not fit an empty buffer is the first.
<1>5. begin = next => Bytes[message[1]] + 2 > Limit
  <2>1. size \in Nat /\ next \in Nat /\ begin \in Nat
        /\ (size = 0 <=> next = begin) /\ (next = begin => begin = 1)
    BY <1>1 DEF ChunksInv, ChunksTypeOK, Buffered
  <2> QED
    BY <1>1, <1>3, <2>1
<1>6. NothingLost'
  BY <1>1, <1>2, <1>5, SendStep
<1>7. Buffered'
  BY <1>1, <1>3 DEF ChunksInv, ChunksTypeOK, Buffered
<1> QED
  BY <1>4, <1>6, <1>7 DEF ChunksInv

LEMMA LastStep ==
  ASSUME ChunksInv, Last
  PROVE  ChunksInv'
<1> DEFINE title == IF sent = <<>> THEN "title" ELSE "none"
<1>1. /\ posting = "running" /\ next = Len(message) + 1 /\ posting' = "nil" /\ Send(title)
      /\ UNCHANGED <<message, begin, next, size>>
  BY DEF Last, buffer
<1>2. title \in {"title", "cont", "none"}
  OBVIOUS
<1> HIDE DEF title
<1>3. ChunksTypeOK'
  BY <1>1, <1>2, Sent DEF ChunksInv, ChunksTypeOK
<1>4. begin = next => message = <<>>
  BY <1>1 DEF ChunksInv, ChunksTypeOK, Buffered
<1>5. NothingLost'
  BY <1>1, <1>2, <1>4, SendStep
<1>6. Buffered'
  BY <1>1 DEF Buffered
<1> QED
  BY <1>3, <1>5, <1>6 DEF ChunksInv

\* The invariant survives every step of SendChunkedMessage, also one that is
\* refused in the middle.
LEMMA ChunksSteps ==
  ASSUME ChunksInv, ChunksStep
  PROVE  ChunksInv'
<1>1. ASSUME SendFails PROVE ChunksInv'
  BY <1>1 DEF SendFails, buffer, ChunksInv, ChunksTypeOK, NothingLost, InOrder, Complete, Whole,
     NoneEmpty, Buffered
<1> QED
  BY <1>1, PackStep, FlushStep, LastStep DEF ChunksStep

LEMMA ChunksStutter ==
  ASSUME ChunksInv, UNCHANGED chunkVars
  PROVE  ChunksInv'
BY DEF chunkVars, buffer, ChunksInv, ChunksTypeOK, NothingLost, InOrder, Complete, Whole, NoneEmpty,
   Buffered
=============================================================================
