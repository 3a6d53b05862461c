--------------------------- MODULE VideoTransfer ---------------------------
(***************************************************************************)
(* src/flows/video_download.py: one video received over UDP and put        *)
(* together again (send_video_download_flow_item).                         *)
(*                                                                         *)
(* The camera sends the video as chunks 1..NChunks under consecutive       *)
(* sequence numbers of 16 bits, starting anywhere, and sends a chunk again *)
(* while it has not seen it acknowledged.  The client takes the first      *)
(* packet it gets for its anchor, drops what lies further than Span ahead  *)
(* of it, keeps the first payload of each number, and acknowledges the     *)
(* last Window numbers at once for the first packets and then once in      *)
(* AckEvery.  At the end it orders the chunks by their distance from the   *)
(* anchor and, in strict mode, looks for what is missing.                  *)
(*                                                                         *)
(* The chunks together are a row of records, of the picture or (Audio) of  *)
(* the sound; a record has a header, with its length and the number of the *)
(* session, and goes on over several chunks.  Here each begins with a      *)
(* chunk of its own, and all chunks are as long.                           *)
(*                                                                         *)
(* A packet may be left over from the video before (of another session):   *)
(* the drain that precedes a transfer is best effort.  It is the Beginning *)
(* of a record there, or comes from the Middle of one and then has no      *)
(* header.                                                                 *)
(***************************************************************************)
EXTENDS Naturals, Sequences, FiniteSets

CONSTANTS
    NChunks,        \* chunks of the video
    Audio,          \* those that carry sound
    First, Last,    \* the chunks with which the record of each one begins and ends
    StaleLen,       \* chunks of the record that Beginning begins
    SeqMod,         \* sequence numbers wrap at SeqMod (2^16)
    Starts,         \* the numbers the first chunk may have
    StaleSeqs,      \* the numbers a left-over packet may have
    Span,           \* max_seq_span
    Window,         \* ack_win's maxlen
    AckEvery,       \* packets per acknowledgement ...
    Eager,          \* ... after the first ones, acknowledged one by one
    Cutoff,         \* the client may stop listening before the video is over
    MaxLost,        \* packets the network loses, at most
    MaxAgain,       \* packets the camera sends again, at most
    NoSeq,          \* no anchor yet, nothing kept
    Beginning, Middle   \* the payloads of left-over packets

ASSUME ConstantsAssumption ==
    /\ NChunks \in Nat \ {0} /\ NChunks <= SeqMod
    /\ Audio \subseteq 1..NChunks
    /\ SeqMod \in Nat \ {0}
    /\ Starts \subseteq 0..(SeqMod - 1)
    /\ StaleSeqs \subseteq 0..(SeqMod - 1)
    /\ {Span, Eager, MaxLost, MaxAgain} \subseteq Nat
    /\ {Window, AckEvery, StaleLen} \subseteq Nat \ {0}
    /\ Cutoff \in BOOLEAN
    /\ NoSeq \notin Nat /\ Beginning \notin Nat /\ Middle \notin Nat
    /\ NoSeq \notin {Beginning, Middle} /\ Beginning # Middle

\* Every chunk lies in one record, which is of the picture or of the sound.
ASSUME RecordsAssumption ==
    /\ First \in [1..NChunks -> 1..NChunks] /\ Last \in [1..NChunks -> 1..NChunks]
    /\ \A c \in 1..NChunks :
         /\ First[c] <= c /\ c <= Last[c]
         /\ \A d \in First[c]..Last[c] :
              First[d] = First[c] /\ Last[d] = Last[c] /\ (d \in Audio <=> c \in Audio)

Seqs == 0..(SeqMod - 1)
LeftOver == {Beginning, Middle}
Payloads == 1..NChunks \cup LeftOver

VARIABLES
    \* the camera
    start,          \* the sequence number of chunk 1
    sent,           \* chunks sent so far
    again,          \* packets sent again so far
    totalKnown,     \* its start reply with totalFrame reaches the client
    \* the network
    packets,        \* packets under way: [seq, payload]
    lost,           \* packets lost so far
    \* the client
    strict,         \* strict_video
    anchor,         \* seq_anchor
    chunks,         \* chunks02: what was kept under each number, or NoSeq
    changed,        \* something else came for such a number (duplicate_seq_changed)
    ackWin,         \* the numbers last received, oldest first
    ackPending,     \* how many of them no acknowledgement has carried
    acked,          \* the numbers acknowledged so far
    result,         \* what was written, by its place in the stream
    pc,
    \* for the properties
    came            \* the chunks that came and were no outliers

cameraVars  == <<start, sent, again, totalKnown>>
networkVars == <<packets, lost>>
clientVars  == <<anchor, chunks, changed, ackWin, ackPending, acked, result, came>>
vars        == <<cameraVars, networkVars, clientVars, strict, pc>>

-----------------------------------------------------------------------------
\* A sum of two sequence numbers, in 16 bits.
Wrap(n) == IF n < SeqMod THEN n ELSE n - SeqMod

\* _seq16_forward_delta.
Delta(a, s) == Wrap(s + SeqMod - a)

SeqOf(i) == Wrap(start + i - 1)

Kept == {s \in Seqs : chunks[s] # NoSeq}

InWindow == {ackWin[i] : i \in 1..Len(ackWin)}

Init ==
    /\ start \in Starts
    /\ sent = 0 /\ again = 0
    /\ totalKnown \in BOOLEAN
    /\ packets \in {{}} \cup {{[seq |-> s, payload |-> x]} : s \in StaleSeqs, x \in LeftOver}
    /\ lost = 0
    /\ strict \in BOOLEAN
    /\ anchor = NoSeq
    /\ chunks = [s \in Seqs |-> NoSeq] /\ changed = FALSE /\ came = {}
    /\ ackWin = <<>>
    /\ ackPending = 0
    /\ acked = {}
    /\ result = <<>>
    /\ pc = "receive"

-----------------------------------------------------------------------------
(* The camera and the network.                                             *)

Packet(i) == [seq |-> SeqOf(i), payload |-> i]

Send ==
    /\ sent < NChunks
    /\ sent' = sent + 1
    /\ packets' = packets \cup {Packet(sent + 1)}
    /\ UNCHANGED <<start, again, totalKnown, lost, clientVars, strict, pc>>

SendAgain(i) ==
    /\ i <= sent
    /\ SeqOf(i) \notin acked
    /\ again < MaxAgain
    /\ again' = again + 1
    /\ packets' = packets \cup {Packet(i)}
    /\ UNCHANGED <<start, sent, totalKnown, lost, clientVars, strict, pc>>

Lose(p) ==
    /\ p \in packets
    /\ lost < MaxLost
    /\ lost' = lost + 1
    /\ packets' = packets \ {p}
    /\ UNCHANGED <<cameraVars, clientVars, strict, pc>>

-----------------------------------------------------------------------------
(* The client.                                                             *)

Sees(p) ==
    /\ pc = "receive"
    /\ p \in packets
    /\ packets' = packets \ {p}

\* Mutant: whatever comes is kept.
NeverOutlier(s) == FALSE

IsOutlier(s) == anchor # NoSeq /\ Delta(anchor, s) > Span

\* Mutant: an outlier is acknowledged although it is not kept.
DropOutlierAcked(p) ==
    /\ Sees(p)
    /\ IsOutlier(p.seq)
    /\ acked' = acked \cup {p.seq}
    /\ UNCHANGED <<cameraVars, lost, anchor, chunks, changed, ackWin, ackPending, result, came, strict, pc>>

\* A number too far ahead of the anchor: neither kept nor acknowledged.
DropOutlier(p) ==
    /\ Sees(p)
    /\ IsOutlier(p.seq)
    /\ UNCHANGED <<cameraVars, lost, clientVars, strict, pc>>

\* Mutant: the window forgets nothing.
SlideUnbounded(s) == ackWin' = Append(ackWin, s)

\* ack_win.append on a deque of maxlen Window.
Slide(s) ==
    ackWin' = IF Len(ackWin) < Window THEN Append(ackWin, s) ELSE Append(Tail(ackWin), s)

\* Mutant: the acknowledgement carries the last number only.
AcknowledgeLast ==
    IF Len(ackWin') <= Eager \/ ackPending + 1 >= AckEvery
      THEN ackPending' = 0 /\ acked' = acked \cup {ackWin'[Len(ackWin')]}
      ELSE ackPending' = ackPending + 1 /\ UNCHANGED acked

Acknowledge ==
    IF Len(ackWin') <= Eager \/ ackPending + 1 >= AckEvery
      THEN ackPending' = 0 /\ acked' = acked \cup InWindow'
      ELSE ackPending' = ackPending + 1 /\ UNCHANGED acked

\* The first payload of a number is kept; every number is acknowledged.
Receive(p) ==
    /\ Sees(p)
    /\ ~IsOutlier(p.seq)
    /\ anchor' = IF anchor = NoSeq THEN p.seq ELSE anchor
    /\ chunks' = IF chunks[p.seq] = NoSeq THEN [chunks EXCEPT ![p.seq] = p.payload] ELSE chunks
    /\ changed' = (changed \/ chunks[p.seq] \notin {NoSeq, p.payload})
    /\ came' = came \cup ({p.payload} \ LeftOver)
    /\ Slide(p.seq)
    /\ Acknowledge
    /\ UNCHANGED <<cameraVars, lost, strict, result, pc>>

\* Mutant: the numbers in plain order, as the photo flow has them.
InPlainOrder(S) ==
    [n \in 1..Cardinality(S) |-> CHOOSE s \in S : Cardinality({t \in S : t < s}) = n - 1]

\* _order_seq16_from_anchor over the numbers kept.
InOrder(S) ==
    [n \in 1..Cardinality(S) |->
        CHOOSE s \in S : Cardinality({t \in S : Delta(anchor, t) < Delta(anchor, s)}) = n - 1]

\* Mutant: nothing is ever found missing.
NoneMissing(S) == {}

\* _seq16_missing_from_anchor: numbers missing up to the last one kept.
MissingSeqs(S) ==
    {n \in Seqs \ S : \E s \in S : Delta(anchor, n) < Delta(anchor, s)}

\* The stream: what was kept, nearest to the anchor first.
Assembled == [n \in 1..Cardinality(Kept) |-> chunks[InOrder(Kept)[n]]]

(* parse_artemis_records_strict, over a stream of payloads.                *)

IsHeader(x) == x = Beginning \/ (x \in 1..NChunks /\ First[x] = x)

Length(x) == IF x = Beginning THEN StaleLen ELSE Last[x] - x + 1

\* The places of a record that begins at p, whatever stands there.
Extent(stream, p) == p..(p + Length(stream[p]) - 1)

\* The headers of records that are not longer than what is left of the stream.
Headers(stream) ==
    {p \in 1..Len(stream) : IsHeader(stream[p]) /\ p + Length(stream[p]) - 1 <= Len(stream)}

\* Each record is read to its end: a header within another record is not seen.
Records(stream) ==
    CHOOSE R \in SUBSET Headers(stream) : \A q \in Headers(stream) :
        q \in R <=> \A p \in R : p < q => q \notin Extent(stream, p)

\* The records of the session that was asked for, if the camera honoured its
\* number; else those of the session that has the most, or of the first of two.
Selected(stream, honoured) ==
    LET ours   == {p \in Records(stream) : stream[p] # Beginning}
        theirs == Records(stream) \ ours
        most   == \/ Cardinality(ours) > Cardinality(theirs)
                  \/ /\ Cardinality(ours) = Cardinality(theirs)
                     /\ \E p \in ours : \A q \in theirs : p < q
    IN  IF ours # {} /\ (honoured \/ most) THEN ours ELSE theirs

Sounds(stream, selected) == {p \in selected : stream[p] \in Audio}

\* Whether a left-over record is of the picture or of the sound is left out.
Frames(stream, selected) == selected \ Sounds(stream, selected)

FrameChunks == {c \in (1..NChunks) \ Audio : First[c] = c}

\* What strict mode refuses: a number missing; another payload for a number that
\* was kept; a record of another session; time going backwards; another number of
\* frames than the start reply gave.
StrictIssue(stream, selected) ==
    \/ MissingSeqs(Kept) # {}
    \/ changed
    \/ Records(stream) # selected
    \/ \E p, q \in selected :
         /\ p < q /\ {stream[p], stream[q]} \subseteq 1..NChunks /\ stream[p] > stream[q]
         /\ stream[p] \in Audio <=> stream[q] \in Audio
    \/ totalKnown /\ Cardinality(Frames(stream, selected)) # Cardinality(FrameChunks)

\* A file needs picture and sound.
Writable(stream, selected) == Frames(stream, selected) # {} /\ Sounds(stream, selected) # {}

\* What the records hold, which is what stands at their places.
Contents(stream, selected) ==
    [q \in {q \in 1..Len(stream) : \E p \in selected : q \in Extent(stream, p)} |-> stream[q]]

\* The last packets are acknowledged whatever happens.
Flush == acked' = IF ackPending > 0 THEN acked \cup InWindow ELSE acked

\* Nothing has come for a while, or the listening time is over: the video is
\* put together and written, or the flow raises.
Finish ==
    /\ pc = "receive"
    /\ Cutoff \/ (sent = NChunks /\ packets = {})
    /\ \E honoured \in BOOLEAN :
         LET stream   == Assembled
             selected == Selected(stream, honoured)
         IN  /\ result' = Contents(stream, selected)
             /\ pc' = IF Writable(stream, selected) /\ ~(strict /\ StrictIssue(stream, selected))
                        THEN "written" ELSE "failed"
    /\ Flush
    /\ UNCHANGED <<cameraVars, networkVars, anchor, chunks, changed, ackWin, ackPending, came, strict>>

\* The flow has returned or raised.
Finished == pc # "receive" /\ UNCHANGED vars

-----------------------------------------------------------------------------
Next ==
    \/ Send \/ \E i \in 1..NChunks : SendAgain(i)
    \/ \E p \in packets : Lose(p) \/ Receive(p) \/ DropOutlier(p)
    \/ Finish \/ Finished

Spec == Init /\ [][Next]_vars

-----------------------------------------------------------------------------
(* Correctness.                                                            *)

TypeOK ==
    /\ start \in Starts /\ sent \in 0..NChunks /\ again \in 0..MaxAgain
    /\ totalKnown \in BOOLEAN /\ strict \in BOOLEAN
    /\ packets \subseteq [seq : Seqs, payload : Payloads]
    /\ lost \in 0..MaxLost
    /\ anchor \in Seqs \cup {NoSeq}
    /\ chunks \in [Seqs -> Payloads \cup {NoSeq}]
    /\ ackWin \in Seq(Seqs) /\ Len(ackWin) <= Window
    /\ ackPending \in 0..(AckEvery - 1)
    /\ acked \subseteq Seqs
    /\ changed \in BOOLEAN /\ came \subseteq 1..sent
    /\ DOMAIN result \subseteq 1..Cardinality(Kept)
    /\ \A q \in DOMAIN result : result[q] \in Payloads
    /\ pc \in {"receive", "written", "failed"}

\* The camera is never told it may stop sending a chunk the client has not kept:
\* an acknowledged number is one whose payload is in chunks02, also when packets
\* of another video or outliers come in between.
AckedAreKept ==
    \A i \in 1..sent : SeqOf(i) \in acked => chunks[SeqOf(i)] \in {i} \cup LeftOver

\* No number leaves the window of the last Window ones before an acknowledgement
\* has carried it, and when the flow ends every one has been acknowledged: the
\* sparse acknowledgements (one in AckEvery) leave nothing out.
NothingSlips ==
    /\ Kept \subseteq acked \cup InWindow
    /\ pc # "receive" => Kept \subseteq acked

\* Of the chunks kept, the one sent earlier lies nearer to the anchor: distances
\* from the anchor order them as the camera sent them, whichever came first.
KeptInOrder ==
    \A s, t \in Kept :
        {chunks[s], chunks[t]} \subseteq 1..NChunks /\ chunks[s] < chunks[t]
          => Delta(anchor, s) < Delta(anchor, t)

\* The chunks of a video that are written stand in the order they were sent,
\* although packets overtake each other, others are left over from another video,
\* records are cut short by what is missing, and the numbers wrap.
PlacedInOrder ==
    pc = "written" =>
        \A i, j \in DOMAIN result :
            i < j /\ {result[i], result[j]} \subseteq 1..NChunks => result[i] < result[j]

\* What strict mode vouches for.  No chunk that came gave way to a left-over
\* packet, and two chunks that stand side by side are neighbours in the video: a
\* hole can only be one that left-over packets fill which came under the very
\* numbers of what is missing.  Strict mode cannot see those inside a record.
\* Without any, what is written is a run of whole chunks, and when the start reply
\* told how many frames to expect, no frame is missing (sound at its ends may be).
StrictWritesARun ==
    pc = "written" /\ strict =>
        /\ \A i \in came : chunks[SeqOf(i)] = i
        /\ \A i \in DOMAIN result :
             i + 1 \in DOMAIN result /\ {result[i], result[i + 1]} \subseteq 1..NChunks =>
                 result[i + 1] = result[i] + 1
        /\ (\A s \in Kept : chunks[s] \notin LeftOver) =>
             /\ \A i, j \in DOMAIN result : i..j \subseteq DOMAIN result
             /\ totalKnown => (1..NChunks) \ Audio \subseteq {result[i] : i \in DOMAIN result}
=============================================================================
