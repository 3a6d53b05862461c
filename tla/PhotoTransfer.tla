--------------------------- MODULE PhotoTransfer ---------------------------
(***************************************************************************)
(* src/flows/photo_download.py: one photo received over UDP and cut out of *)
(* the stream (send_photo_download_flow, download_photo_to_out_item).      *)
(*                                                                         *)
(* The request is sent once before the client listens and up to twice more *)
(* by a thread, unless something came on a data channel (or any reply on   *)
(* the control channel) in the meantime; the camera answers every request  *)
(* that reaches it with the photo's record, under the next numbers of the  *)
(* channel Bulk.  The channel Thumbs carries what another command asked    *)
(* for.  A record takes several chunks and starts with a header that names *)
(* its item and gives its length; a chunk is [rec, part] here.             *)
(*                                                                         *)
(* Unlike the video flow this one has no anchor: chunks are joined in the  *)
(* plain order of their 16-bit numbers, missing ones are not looked for,   *)
(* and what tells a photo from anything else is its record alone.          *)
(***************************************************************************)
EXTENDS Integers, Sequences, FiniteSets

CONSTANTS
    PhotoLen,       \* chunks of the record that was asked for
    OtherLen,       \* chunks of another item's record
    Starts,         \* the numbers the first chunk of Bulk may have
    StaleSeqs,      \* the numbers of left-over chunks of Bulk, if any
    Modulus,        \* sequence numbers wrap at Modulus (2^16)
    Window,         \* maxlen of a channel's ack_win
    AckEvery,       \* packets per acknowledgement ...
    Eager,          \* ... after the first acknowledgements
    MaxRequests,    \* req_resend_loop: one request and two repetitions
    MaxUnderWay,    \* packets under way at a time, at most
    MaxLost,        \* packets and requests the network loses, at most
    NoSeq           \* nothing kept under a number

Bulk == 3
Thumbs == 4
Channels == {Bulk, Thumbs}
Wanted == "wanted"
Other == "other"
Seqs == 0..(Modulus - 1)

RecLen(r) == IF r = Wanted THEN PhotoLen ELSE OtherLen
Chunks == {[rec |-> r, part |-> n] : r \in {Wanted, Other}, n \in 1..(PhotoLen + OtherLen)}

ASSUME ConstantsAssumption ==
    /\ {PhotoLen, OtherLen, Modulus, Window, AckEvery, MaxRequests} \subseteq Nat \ {0}
    /\ PhotoLen * MaxRequests <= Modulus /\ OtherLen < Modulus
    /\ Starts \subseteq Seqs /\ StaleSeqs \subseteq Seqs
    /\ {Eager, MaxUnderWay, MaxLost} \subseteq Nat
    /\ NoSeq \notin Chunks

VARIABLES
    \* the camera and the network
    origin,         \* the number of the first chunk on Bulk
    asks,           \* requests under way
    answers,        \* requests answered
    out,            \* per channel, chunks sent so far
    underway,       \* packets under way: [ch, seq, chunk]
    dropped,        \* packets and requests lost so far
    \* the client
    requests,       \* dl_req_sent
    saw,            \* saw_download_data
    kept,           \* per channel, what was kept under each number
    windows,        \* per channel, ack_win
    unacked,        \* per channel, ack_pending
    acks,           \* per channel, acknowledgements sent, counted up to Eager
    told,           \* per channel, the numbers acknowledged
    heard,          \* channels on which something came (last_seq_ts set)
    fresh,          \* those on which something came within download_idle_s
    photo,          \* download.jpg, as chunks
    at              \* "listening", then "written", or "failed" (None)

cameraVars  == <<origin, answers, out>>
networkVars == <<asks, underway, dropped>>
ackVars     == <<windows, unacked, acks, told>>
clientVars  == <<requests, saw, kept, ackVars, heard, fresh, photo>>
vars        == <<cameraVars, networkVars, clientVars, at>>

-----------------------------------------------------------------------------
\* What the camera sends on a channel: the photo once per answer on Bulk, a
\* record of another item on Thumbs.
Total(ch) == IF ch = Bulk THEN answers * PhotoLen ELSE OtherLen

NumberOf(ch, i) == IF ch = Bulk THEN (origin + i - 1) % Modulus ELSE i

ChunkOf(ch, i) ==
    IF ch = Bulk THEN [rec |-> Wanted, part |-> 1 + ((i - 1) % PhotoLen)]
                 ELSE [rec |-> Other, part |-> i]

Packet(ch, i) == [ch |-> ch, seq |-> NumberOf(ch, i), chunk |-> ChunkOf(ch, i)]

Init ==
    /\ origin \in Starts
    \* drain_inbound is best effort: a chunk of the photo before may remain.
    /\ underway \in {{}} \cup {{[ch |-> Bulk, seq |-> s, chunk |-> [rec |-> Other, part |-> OtherLen]]} :
                                 s \in StaleSeqs}
    \* send_download_req, before the threads start.
    /\ asks = 1 /\ requests = 1
    /\ answers = 0
    /\ out = [ch \in Channels |-> 0]
    /\ dropped = 0
    /\ saw = FALSE
    /\ kept = [ch \in Channels |-> [s \in Seqs |-> NoSeq]]
    /\ windows = [ch \in Channels |-> <<>>]
    /\ unacked = [ch \in Channels |-> 0]
    /\ acks = [ch \in Channels |-> 0]
    /\ told = [ch \in Channels |-> {}]
    /\ heard = {} /\ fresh = {}
    /\ photo = <<>>
    /\ at = "listening"

-----------------------------------------------------------------------------
(* The camera and the network.                                             *)

Answer ==
    /\ asks > 0
    /\ asks' = asks - 1
    /\ answers' = answers + 1
    /\ UNCHANGED <<origin, out, underway, dropped, clientVars, at>>

Send(ch) ==
    /\ out[ch] < Total(ch)
    /\ Cardinality(underway) < MaxUnderWay
    /\ out' = [out EXCEPT ![ch] = @ + 1]
    /\ underway' = underway \cup {Packet(ch, out[ch] + 1)}
    /\ UNCHANGED <<origin, answers, asks, dropped, clientVars, at>>

\* A chunk the client has not acknowledged is sent again.
SendAgain(ch, i) ==
    /\ i <= out[ch]
    /\ NumberOf(ch, i) \notin told[ch]
    /\ Cardinality(underway) < MaxUnderWay
    /\ underway' = underway \cup {Packet(ch, i)}
    /\ UNCHANGED <<cameraVars, asks, dropped, clientVars, at>>

Lose ==
    /\ dropped < MaxLost
    /\ dropped' = dropped + 1
    /\ \/ asks > 0 /\ asks' = asks - 1 /\ UNCHANGED underway
       \/ \E p \in underway : underway' = underway \ {p} /\ UNCHANGED asks
    /\ UNCHANGED <<cameraVars, clientVars, at>>

\* download_idle_s passes on a channel: the camera does not pause that long
\* with a request to answer or chunks still to send, and the network does not
\* delay them that long.
Idle(ch) ==
    /\ ch \in fresh
    /\ ch = Bulk => asks = 0
    /\ out[ch] = Total(ch)
    /\ \A p \in underway : p.ch # ch
    /\ fresh' = fresh \ {ch}
    /\ UNCHANGED <<cameraVars, networkVars, requests, saw, kept, ackVars, heard, photo, at>>

-----------------------------------------------------------------------------
(* The client.                                                             *)

\* req_resend_loop.
Resend ==
    /\ at = "listening"
    /\ ~saw
    /\ requests < MaxRequests
    /\ requests' = requests + 1
    /\ asks' = asks + 1
    /\ UNCHANGED <<cameraVars, underway, dropped, saw, kept, ackVars, heard, fresh, photo, at>>

\* Anything but an empty body on the control channel, be it the answer to a
\* heartbeat, counts as data: it is acknowledged at once and not used.
ReceiveReply ==
    /\ at = "listening"
    /\ saw' = TRUE
    /\ UNCHANGED <<cameraVars, networkVars, requests, kept, ackVars, heard, fresh, photo, at>>

\* deque(maxlen=17).append.
Slide(win, s) == Append(IF Len(win) < Window THEN win ELSE Tail(win), s)

InWindow(ch) == {windows[ch][i] : i \in 1..Len(windows[ch])}

MustAck(ch) == acks[ch] < Eager \/ unacked[ch] + 1 >= AckEvery

\* make_ack_body_seq_window16 over the numbers in the channel's window.
Acknowledge(ch) ==
    IF MustAck(ch)
      THEN /\ told' = [told EXCEPT ![ch] = @ \cup {windows'[ch][i] : i \in 1..Len(windows'[ch])}]
           /\ unacked' = [unacked EXCEPT ![ch] = 0]
           /\ acks' = [acks EXCEPT ![ch] = IF @ < Eager THEN @ + 1 ELSE @]
      ELSE /\ unacked' = [unacked EXCEPT ![ch] = @ + 1]
           /\ UNCHANGED <<told, acks>>

\* The payload that comes first is kept.
Keep(old, chunk) == IF old = NoSeq THEN chunk ELSE old

Receive(p) ==
    /\ at = "listening"
    /\ p \in underway
    /\ underway' = underway \ {p}
    /\ saw' = TRUE
    /\ windows' = [windows EXCEPT ![p.ch] = Slide(@, p.seq)]
    /\ Acknowledge(p.ch)
    /\ kept' = [kept EXCEPT ![p.ch][p.seq] = Keep(@, p.chunk)]
    /\ heard' = heard \cup {p.ch}
    /\ fresh' = fresh \cup {p.ch}
    /\ UNCHANGED <<cameraVars, asks, dropped, requests, photo, at>>

-----------------------------------------------------------------------------
(* From chunks to a photo.                                                 *)

KeptSeqs(ch) == {s \in Seqs : kept[ch][s] # NoSeq}

\* b"".join over the sorted numbers.
Assembled(ch) ==
    LET S == KeptSeqs(ch)
        Nth(n) == CHOOSE s \in S : Cardinality({t \in S : t < s}) = n - 1
    IN  [n \in 1..Cardinality(S) |-> kept[ch][Nth(n)]]

\* Mutant: a record needs a byte more than its length.
FitsLess(blob, i) == i + RecLen(blob[i].rec) <= Len(blob)

\* j <= len(assembled): the record's length, as its header gives it, is there.
Fits(blob, i) == i + RecLen(blob[i].rec) - 1 <= Len(blob)

\* Where a record may start: a header, and behind it enough chunks, whatever they are.
Headers(blob) == {i \in 1..Len(blob) : blob[i].part = 1 /\ Fits(blob, i)}

\* The record that starts there.
Record(blob, i) == SubSeq(blob, i, i + RecLen(blob[i].rec) - 1)

\* parse_artemis_records_strict, by where its records start: after a record the
\* search goes on behind it.
StrictRecords(blob) ==
    CHOOSE S \in SUBSET Headers(blob) : \A i \in Headers(blob) :
        i \in S <=> \A j \in S : j < i => j + RecLen(blob[j].rec) <= i

\* Mutant: the header is not compared with what was asked for.
AnyHeader(payload) == TRUE

\* parse_transfer_header72: dirNum and mediaNum are the ones asked for.
IsTarget(payload) == payload[1].rec = Wanted

\* The places where a JPEG ends (EOI): the last chunks of records.
Ends(payload) == {n \in 1..Len(payload) : payload[n].part = RecLen(payload[n].rec)}

\* From the first SOI, which follows the header, to the last EOI.
Jpeg(payload) == SubSeq(payload, 1, CHOOSE n \in Ends(payload) : \A m \in Ends(payload) : m <= n)

\* extract_jpegs_from_artemis_stream: the JPEGs, and where they were found.
Extracted(ch) ==
    LET blob == Assembled(ch)
        IsCandidate(i) == IsTarget(Record(blob, i)) /\ Ends(Record(blob, i)) # {}
    IN  {[ch |-> ch, from |-> i, jpeg |-> Jpeg(Record(blob, i))] :
            i \in {r \in StrictRecords(blob) : IsCandidate(r)}}

Sooner(c, d) == c.ch < d.ch \/ (c.ch = d.ch /\ c.from <= d.from)

\* score: all candidates have one type and one declared length here, which
\* none exceeds, so that the nearest to it is the longest; the first of them.
Best(found) ==
    CHOOSE c \in found : \A d \in found :
        Len(d.jpeg) < Len(c.jpeg) \/ (Len(d.jpeg) = Len(c.jpeg) /\ Sooner(c, d))

\* Mutant: only the other channel is flushed.
FlushThumbs ==
    told' = [told EXCEPT ![Thumbs] = IF unacked[Thumbs] > 0 THEN @ \cup InWindow(Thumbs) ELSE @]

\* After the loop: the packets no acknowledgement has carried yet.
Flush ==
    told' = [ch \in Channels |-> IF unacked[ch] > 0 THEN told[ch] \cup InWindow(ch) ELSE told[ch]]

\* The flow after its loop, and the file's way into staging.
Finish ==
    LET found == Extracted(Bulk) \cup Extracted(Thumbs)
    IN  /\ Flush
        /\ photo' = IF found = {} THEN <<>> ELSE Best(found).jpeg
        /\ at' = IF found = {} THEN "failed" ELSE "written"
        /\ UNCHANGED <<cameraVars, networkVars, requests, saw, kept, windows, unacked, acks, heard, fresh>>

\* download_listen_s is over.
Deadline == at = "listening" /\ Finish

\* Mutant: one quiet channel is enough.
QuietAny == \E ch \in heard : ch \notin fresh

\* All channels that have started are quiet.
Quiet == heard # {} /\ heard \cap fresh = {}

\* A packet of any other kind comes (a silent socket does not lead here) and
\* the channels are quiet.
StopEarly ==
    /\ at = "listening"
    /\ Quiet
    /\ Finish

Finished == at # "listening" /\ UNCHANGED vars

-----------------------------------------------------------------------------
Next ==
    \/ Answer \/ Lose \/ Resend \/ ReceiveReply
    \/ \E ch \in Channels : Send(ch) \/ Idle(ch) \/ \E i \in 1..Total(ch) : SendAgain(ch, i)
    \/ \E p \in underway : Receive(p)
    \/ StopEarly \/ Deadline \/ Finished

Spec == Init /\ [][Next]_vars

-----------------------------------------------------------------------------
(* Correctness.                                                            *)

TypeOK ==
    /\ origin \in Starts /\ asks \in 0..MaxRequests /\ answers \in 0..MaxRequests
    /\ out \in [Channels -> Nat] /\ dropped \in 0..MaxLost
    /\ underway \subseteq [ch : Channels, seq : Seqs, chunk : Chunks]
    /\ requests \in 1..MaxRequests /\ saw \in BOOLEAN
    /\ kept \in [Channels -> [Seqs -> Chunks \cup {NoSeq}]]
    /\ windows \in [Channels -> Seq(Seqs)]
    /\ unacked \in [Channels -> 0..(AckEvery - 1)]
    /\ acks \in [Channels -> 0..Eager]
    /\ told \in [Channels -> SUBSET Seqs]
    /\ heard \subseteq Channels /\ fresh \subseteq heard
    /\ photo \in Seq(Chunks) /\ at \in {"listening", "written", "failed"}

StaleKept == \E s \in Seqs : kept[Bulk][s] # NoSeq /\ kept[Bulk][s].rec = Other

AllSentKept == \A i \in 1..out[Bulk] : kept[Bulk][NumberOf(Bulk, i)] # NoSeq

Whole == [n \in 1..PhotoLen |-> [rec |-> Wanted, part |-> n]]

\* What is written is the photo that was asked for, whole and in order, however
\* its chunks were reordered, repeated, lost or wrapped, and whatever came on
\* the other channel: a hole makes the record not fit.  Only where a second
\* answer or a left-over chunk can fill the hole may the file be torn.
WholeOrNothing ==
    at = "written" =>
        \/ photo = Whole
        \/ StaleKept
        \/ answers > 1 /\ ~AllSentKept

\* A photo that came in full is written, unless numbers wrapped: a wrap inside it
\* puts its first chunks last, and a wrap behind it may put the beginning of an
\* answer that did not come in full before it, whose record then takes its chunks.
ReceivedIsWritten ==
    at # "listening" /\ AllSentKept /\ ~StaleKept
        /\ (out[Bulk] = Total(Bulk) \/ origin + out[Bulk] <= Modulus) =>
            \A n \in 1..(out[Bulk] \div PhotoLen) :
                NumberOf(Bulk, (n - 1) * PhotoLen + 1) <= NumberOf(Bulk, n * PhotoLen) => at = "written"

\* No number leaves a channel's window before an acknowledgement carries it, and
\* at the end all of them were acknowledged, on both channels.
BothAcknowledged ==
    \A ch \in Channels :
        /\ KeptSeqs(ch) \subseteq told[ch] \cup InWindow(ch)
        /\ at # "listening" => KeptSeqs(ch) \subseteq told[ch]

\* The early stop truncates nothing: a channel that has started has sent all it
\* has, and unless the network lost something the client has kept all of it.
StopsOnlyWhenDone ==
    [][StopEarly => \A ch \in heard :
          /\ out[ch] = Total(ch)
          /\ dropped = 0 => \A i \in 1..Total(ch) : kept[ch][NumberOf(ch, i)] # NoSeq]_vars
=============================================================================
