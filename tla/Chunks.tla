------------------------------- MODULE Chunks -------------------------------
(***************************************************************************)
(* How a long answer is posted: common.SendChunkedMessage packs the lines  *)
(* of a message into embeds whose description Discord limits.              *)
(*                                                                         *)
(* A line is abstract but for its length in bytes.  The buffer holds the   *)
(* lines begin..(next-1) of the message, each with a newline.              *)
(***************************************************************************)
EXTENDS Integers, Sequences

CONSTANTS
  Line,      \* lines
  Bytes,     \* their lengths
  Limit      \* EmbedLimitDescription, and the number in SetDescription

ASSUME ChunksConstants == Bytes \in [Line -> Nat] /\ Limit \in Nat

VARIABLES
  posting,            \* SendChunkedMessage: not called, running, or its answer
  message,            \* the lines to post
  begin, next, size,  \* the buffer, and its length
  sent                \* the embeds posted: their lines, and the buffer's length

buffer    == <<begin, next, size>>
chunkVars == <<posting, message, buffer, sent>>

Embed == [first : Nat, last : Nat, size : Nat, title : {"title", "cont", "none"}]

ChunksTypeOK ==
  /\ posting \in {"idle", "running", "nil", "error"} /\ message \in Seq(Line)
  /\ begin \in Nat \ {0} /\ next \in begin..(Len(message) + 1) /\ size \in Nat
  /\ sent \in Seq(Embed)

ChunksInit ==
  /\ posting = "idle" /\ message = <<>>
  /\ begin = 1 /\ next = 1 /\ size = 0 /\ sent = <<>>

Post(lines) ==
  /\ posting # "running"
  /\ posting' = "running" /\ message' = lines
  /\ begin' = 1 /\ next' = 1 /\ size' = 0 /\ sent' = <<>>

\* Does the next line, with its newline, still fit?
Fits == size + Bytes[message[next]] + 2 <= Limit

Pack ==
  /\ posting = "running" /\ next <= Len(message) /\ Fits
  /\ next' = next + 1 /\ size' = size + Bytes[message[next]] + 1
  /\ UNCHANGED <<posting, message, begin, sent>>

Send(title) ==
  sent' = Append(sent, [first |-> begin, last |-> next - 1, size |-> size, title |-> title])

\* The buffer is posted, and the line that did not fit starts the next one.
Flush ==
  /\ posting = "running" /\ next <= Len(message) /\ ~Fits
  /\ Send(IF sent = <<>> THEN "title" ELSE "cont")
  /\ begin' = next /\ next' = next + 1 /\ size' = Bytes[message[next]] + 1
  /\ UNCHANGED <<posting, message>>

\* Mutant: the leftover is not posted once there has been a chunk.
LastOnlyFirst ==
  /\ posting = "running" /\ next = Len(message) + 1
  /\ IF sent = <<>> THEN Send("title") ELSE UNCHANGED sent
  /\ posting' = "nil"
  /\ UNCHANGED <<message, buffer>>

\* The leftover: the buffer as the last line left it.
Last ==
  /\ posting = "running" /\ next = Len(message) + 1
  /\ Send(IF sent = <<>> THEN "title" ELSE "none")
  /\ posting' = "nil"
  /\ UNCHANGED <<message, buffer>>

\* Discord refuses an embed: the rest is not posted.
SendFails ==
  /\ posting = "running" /\ (next <= Len(message) => ~Fits)
  /\ posting' = "error"
  /\ UNCHANGED <<message, buffer, sent>>

ChunksStep == Pack \/ Flush \/ Last \/ SendFails

-----------------------------------------------------------------------------
\* Lines are posted once and in order: an embed starts where the one before
\* ended, and the buffer where the last one did.
InOrder ==
  /\ \A i \in 1..Len(sent) :
       sent[i].first = IF i = 1 THEN 1 ELSE sent[i - 1].last + 1
  /\ posting = "running" => begin = IF sent = <<>> THEN 1 ELSE sent[Len(sent)].last + 1

\* When SendChunkedMessage returns nil, the last embed ends with the last line.
Complete ==
  posting = "nil" => sent # <<>> /\ sent[Len(sent)].last = Len(message)

\* SetDescription cuts a description off at Limit.  What it cuts is always one
\* line on its own: of Limit bytes, which loses its newline, or of more.
Whole ==
  \A i \in 1..Len(sent) : sent[i].size > Limit =>
    /\ sent[i].first = sent[i].last
    /\ Bytes[message[sent[i].first]] >= Limit

\* At most the first embed is without a line, and only if the first line has
\* Limit - 1 bytes or more: with it even an empty buffer counts as too full.
NoneEmpty ==
  \A i \in 1..Len(sent) : message # <<>> /\ sent[i].first > sent[i].last =>
    i = 1 /\ Bytes[message[1]] + 2 > Limit

NothingLost == InOrder /\ Complete /\ Whole /\ NoneEmpty
=============================================================================
