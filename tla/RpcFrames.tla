------------------------------ MODULE RpcFrames ------------------------------
(***************************************************************************)
(* The frame decoder of RpcClient: a frame above the transport limit comes *)
(* as numbered chunks, which _RpcFrameDecoder puts together.  Whatever it  *)
(* refuses ends the reader thread.                                         *)
(***************************************************************************)
EXTENDS Naturals, Sequences, SequencesExt

CONSTANTS
  Ids,          \* chunkId
  MaxCount,     \* the count of chunks a frame may have
  MaxPayload,   \* the bytes a chunk may have
  Lengths       \* byteLength as the chunks may declare it

FramesAssumption == MaxCount \in Nat /\ MaxPayload \in Nat \ {0} /\ Lengths \subseteq Nat

VARIABLES
  negotiated,   \* _protocol_v2_enabled
  partial,      \* the chunks of the frame in progress
  frame,        \* the chunks of the last frame, <<>> for a whole line
  decoder       \* "open", or "refused" with the client closed

vars == <<negotiated, partial, frame, decoder>>

\* The metadata before it is checked: indexes and counts one off at each end.
Chunks == [id : Ids, index : 0..MaxCount, count : 1..(MaxCount + 1), length : Lengths,
           size : 1..(MaxPayload + 1)]

Valid(c) == c.count \in 2..MaxCount /\ c.index < c.count /\ c.size <= MaxPayload

Received(chunks) == FoldLeft(LAMBDA n, c : n + c.size, 0, chunks)

TypeOK ==
  /\ negotiated \in BOOLEAN /\ decoder \in {"open", "refused"}
  /\ \A i \in DOMAIN partial : partial[i] \in Chunks
  /\ \A i \in DOMAIN frame : frame[i] \in Chunks

Init == negotiated = FALSE /\ partial = <<>> /\ frame = <<>> /\ decoder = "open"

Negotiate ==
  /\ ~negotiated /\ decoder = "open"
  /\ negotiated' = TRUE /\ UNCHANGED <<partial, frame, decoder>>

\* A line that is no chunk: a frame, or the interruption of one.
PushLine ==
  /\ decoder = "open"
  /\ IF partial = <<>> THEN frame' = <<>> /\ UNCHANGED decoder
                       ELSE decoder' = "refused" /\ UNCHANGED frame
  /\ UNCHANGED <<negotiated, partial>>

\* Mutant: a chunk need only name the same frame.
FitsById(c) == IF partial = <<>> THEN c.index = 0 ELSE partial[1].id = c.id

\* Does a valid chunk continue the frame in progress, or begin one?
Fits(c) ==
  IF partial = <<>> THEN c.index = 0
  ELSE /\ partial[1].id = c.id /\ partial[1].count = c.count
       /\ partial[1].length = c.length /\ Len(partial) = c.index

PushChunk(c) ==
  /\ decoder = "open"
  /\ LET chunks == Append(partial, c)
         last == Len(chunks) = c.count
         fine == /\ negotiated /\ Valid(c) /\ Fits(c) /\ Received(chunks) <= c.length
                 /\ last => Received(chunks) = c.length
     IN
     /\ decoder' = IF fine THEN "open" ELSE "refused"
     /\ partial' = IF ~fine THEN partial ELSE IF last THEN <<>> ELSE chunks
     /\ frame' = IF fine /\ last THEN chunks ELSE frame
  /\ UNCHANGED negotiated

Next == Negotiate \/ PushLine \/ \E c \in Chunks : PushChunk(c)

Spec == Init /\ [][Next]_vars
-----------------------------------------------------------------------------
\* A frame that is handed on was put together from all chunks of one frame, in
\* their order, with the bytes it declares, and only once that was negotiated.
FramesAreWhole ==
  frame # <<>> =>
    /\ negotiated
    /\ Len(frame) = frame[1].count /\ Received(frame) = frame[1].length
    /\ \A i \in DOMAIN frame : frame[i].id = frame[1].id /\ frame[i].index = i - 1
=============================================================================
