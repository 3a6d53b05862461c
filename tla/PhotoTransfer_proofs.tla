------------------------ MODULE PhotoTransfer_proofs ------------------------
(***************************************************************************)
(* Proofs about PhotoTransfer for a photo of any length, any number of     *)
(* repeated requests and any loss, repetition, reordering and left-over    *)
(* packet.                                                                 *)
(***************************************************************************)
EXTENDS PhotoTransfer, TLAPS, FiniteSetTheorems, SequenceTheorems, WellFoundedInduction

-----------------------------------------------------------------------------
(* What is sent, and under which number.                                   *)

\* The constants, one by one.
LEMMA Numbers ==
  /\ PhotoLen \in Nat \ {0} /\ OtherLen \in Nat \ {0} /\ Modulus \in Nat \ {0}
  /\ Window \in Nat \ {0} /\ AckEvery \in Nat \ {0} /\ MaxRequests \in Nat \ {0}
  /\ Eager \in Nat /\ MaxUnderWay \in Nat /\ MaxLost \in Nat
  /\ OtherLen < Modulus /\ Starts \subseteq Seqs /\ StaleSeqs \subseteq Seqs
  /\ NoSeq \notin Chunks
  BY ConstantsAssumption

LEMMA TotalType ==
  ASSUME answers \in Nat, NEW ch \in Channels
  PROVE  /\ Total(ch) \in Nat
         /\ ch = Thumbs => Total(ch) = OtherLen
         /\ ch = Bulk => Total(ch) = answers * PhotoLen
  BY ConstantsAssumption DEF Total, Channels, Bulk, Thumbs

\* One more answer is PhotoLen more chunks.
LEMMA TotalGrows ==
  ASSUME answers \in Nat
  PROVE  (answers + 1) * PhotoLen = answers * PhotoLen + PhotoLen
  BY ConstantsAssumption

LEMMA RemainderType ==
  ASSUME NEW a \in Nat, NEW m \in Nat \ {0}
  PROVE  a % m \in 0..(m - 1)
  OBVIOUS

LEMMA NumberOfType ==
  ASSUME origin \in Starts, answers \in Nat,
         NEW ch \in Channels, NEW i \in 1..Total(ch)
  PROVE  NumberOf(ch, i) \in Seqs
<1>1. Modulus \in Nat \ {0} /\ origin \in Nat /\ i \in Nat \ {0} /\ OtherLen < Modulus
  BY TotalType, ConstantsAssumption DEF Seqs
<1>2. CASE ch = Bulk
  <2>1. origin + i - 1 \in Nat
    BY <1>1
  <2> QED
    BY <1>1, <1>2, <2>1, RemainderType DEF NumberOf, Seqs
<1>3. CASE ch = Thumbs
  <2>1. i <= OtherLen /\ NumberOf(ch, i) = i
    BY <1>3, TotalType DEF NumberOf, Bulk, Thumbs
  <2> QED
    BY <1>1, <2>1, ConstantsAssumption DEF Seqs
<1> QED
  BY <1>2, <1>3 DEF Channels

LEMMA ChunkOfType ==
  ASSUME answers \in Nat, NEW ch \in Channels, NEW i \in 1..Total(ch)
  PROVE  ChunkOf(ch, i) \in Chunks
<1>1. PhotoLen \in Nat \ {0} /\ OtherLen \in Nat \ {0} /\ i \in Nat \ {0}
  BY TotalType, ConstantsAssumption
<1>2. CASE ch = Bulk
  <2>1. (i - 1) % PhotoLen \in 0..(PhotoLen - 1)
    BY <1>1, RemainderType
  <2>2. 1 + ((i - 1) % PhotoLen) \in 1..(PhotoLen + OtherLen)
    BY <1>1, <2>1
  <2> QED
    BY <1>2, <2>2 DEF ChunkOf, Chunks
<1>3. CASE ch = Thumbs
  <2>1. i \in 1..(PhotoLen + OtherLen)
    BY <1>1, <1>3, TotalType
  <2> QED
    BY <1>3, <2>1 DEF ChunkOf, Chunks, Bulk, Thumbs
<1> QED
  BY <1>2, <1>3 DEF Channels

LEMMA PacketType ==
  ASSUME origin \in Starts, answers \in Nat,
         NEW ch \in Channels, NEW i \in 1..Total(ch)
  PROVE  Packet(ch, i) \in [ch : Channels, seq : Seqs, chunk : Chunks]
  BY NumberOfType, ChunkOfType DEF Packet

-----------------------------------------------------------------------------
(* The types of what a packet touches.                                     *)

Answered ==
    /\ asks \in Nat /\ answers \in Nat /\ requests \in 1..MaxRequests
    /\ asks + answers <= requests

PacketTypes ==
    /\ origin \in Starts /\ Answered
    /\ out \in [Channels -> Nat] /\ \A ch \in Channels : out[ch] <= Total(ch)
    /\ dropped \in 0..MaxLost
    /\ underway \subseteq [ch : Channels, seq : Seqs, chunk : Chunks]
    /\ saw \in BOOLEAN
    /\ kept \in [Channels -> [Seqs -> Chunks \cup {NoSeq}]]
    /\ windows \in [Channels -> Seq(Seqs)]
    /\ \A ch \in Channels : Len(windows[ch]) <= Window
    /\ unacked \in [Channels -> 0..(AckEvery - 1)]
    /\ acks \in [Channels -> 0..Eager]
    /\ told \in [Channels -> SUBSET Seqs]
    /\ heard \subseteq Channels /\ fresh \subseteq heard
    /\ at \in {"listening", "written", "failed"}

LEMMA SlideFacts ==
  ASSUME NEW win \in Seq(Seqs), Len(win) <= Window, NEW s \in Seqs
  PROVE  /\ Slide(win, s) \in Seq(Seqs)
         /\ Len(Slide(win, s)) \in 1..Window
         /\ Slide(win, s)[Len(Slide(win, s))] = s
         /\ \/ /\ Len(Slide(win, s)) = Len(win) + 1
               /\ \A i \in 1..Len(win) : Slide(win, s)[i] = win[i]
            \/ /\ Len(win) = Window
               /\ Len(Slide(win, s)) = Len(win)
               /\ \A i \in 2..Len(win) : Slide(win, s)[i - 1] = win[i]
<1>0. Window \in Nat \ {0}
  BY ConstantsAssumption
<1>1. CASE Len(win) < Window
  BY <1>0, <1>1 DEF Slide
<1>2. CASE Len(win) = Window
  <2>1. Slide(win, s) = Append(Tail(win), s)
    BY <1>0, <1>2 DEF Slide
  <2>2. /\ Tail(win) \in Seq(Seqs)
        /\ Len(Tail(win)) = Len(win) - 1
        /\ \A i \in 1..(Len(win) - 1) : Tail(win)[i] = win[i + 1]
    BY <1>0, <1>2
  <2> QED
    BY <1>0, <1>2, <2>1, <2>2
<1> QED
  BY <1>0, <1>1, <1>2

LEMMA PacketTypesInit == ASSUME Init PROVE PacketTypes
<1>1. /\ origin \in Starts /\ heard \subseteq Channels /\ fresh \subseteq heard
      /\ at \in {"listening", "written", "failed"} /\ saw \in BOOLEAN
  BY DEF Init
<1>5. Answered /\ dropped \in 0..MaxLost
  BY Numbers DEF Init, Answered
<1>2. /\ out \in [Channels -> Nat] /\ kept \in [Channels -> [Seqs -> Chunks \cup {NoSeq}]]
      /\ windows \in [Channels -> Seq(Seqs)] /\ \A ch \in Channels : Len(windows[ch]) <= Window
      /\ unacked \in [Channels -> 0..(AckEvery - 1)] /\ acks \in [Channels -> 0..Eager]
      /\ told \in [Channels -> SUBSET Seqs]
  BY Numbers DEF Init
<1>3. \A ch \in Channels : out[ch] <= Total(ch)
  BY TotalType DEF Init
<1>4. underway \subseteq [ch : Channels, seq : Seqs, chunk : Chunks]
  <2>1. [rec |-> Other, part |-> OtherLen] \in Chunks
    BY ConstantsAssumption DEF Chunks
  <2> QED
    BY <2>1, Numbers DEF Init, Channels
<1> QED
  BY <1>1, <1>2, <1>3, <1>4, <1>5 DEF PacketTypes

\* How the queues of packets and requests change.
LEMMA TotalStep ==
  ASSUME PacketTypes, [Next]_vars
  PROVE  /\ Answered'
         /\ \A ch \in Channels : Total(ch)' \in Nat /\ Total(ch) <= Total(ch)'
         /\ answers' = answers => \A ch \in Channels : Total(ch)' = Total(ch)
<1>1. Answered'
  <2>1. CASE Answer
    BY <2>1 DEF Answer, PacketTypes, Answered, clientVars
  <2>2. CASE Resend
    BY <2>2, Numbers DEF Resend, PacketTypes, Answered, cameraVars
  <2>3. CASE Lose
    BY <2>3 DEF Lose, PacketTypes, Answered, cameraVars, clientVars
  <2>4. CASE UNCHANGED <<asks, answers, requests>>
    BY <2>4 DEF PacketTypes, Answered
  <2> QED
    BY <2>1, <2>2, <2>3, <2>4
    DEF Next, Send, SendAgain, Idle, Receive, ReceiveReply, StopEarly, Deadline, Finish,
        Finished, vars, cameraVars, networkVars, clientVars
<1>2. answers' = answers \/ answers' = answers + 1
  BY DEF Next, Answer, Resend, Lose, Send, SendAgain, Idle, Receive, ReceiveReply, StopEarly,
         Deadline, Finish, Finished, vars, cameraVars, networkVars, clientVars
<1>3. answers \in Nat /\ answers' \in Nat
  BY <1>1 DEF PacketTypes, Answered
<1>4. ASSUME NEW ch \in Channels
      PROVE  /\ Total(ch)' \in Nat /\ Total(ch) <= Total(ch)'
             /\ answers' = answers => Total(ch)' = Total(ch)
  <2>1. CASE ch = Bulk
    <3>1. Total(ch) = answers * PhotoLen /\ Total(ch)' = answers' * PhotoLen
      BY <2>1 DEF Total
    <3>2. Total(ch) \in Nat /\ PhotoLen \in Nat
      BY <1>3, TotalType, Numbers
    <3>3. CASE answers' = answers
      BY <3>1, <3>2, <3>3
    <3>4. CASE answers' = answers + 1
      <4>1. Total(ch)' = Total(ch) + PhotoLen
        BY <1>3, <3>1, <3>4, TotalGrows
      <4>2. answers' # answers
        BY <1>3, <3>4
      <4> HIDE DEF Total
      <4> QED
        BY <3>2, <4>1, <4>2
    <3> QED
      BY <1>2, <3>3, <3>4
  <2>2. CASE ch # Bulk
    BY <2>2, Numbers DEF Total
  <2> QED
    BY <2>1, <2>2
<1> QED
  BY <1>1, <1>4

\* What a received packet does to the bookkeeping of its channel.
LEMMA ReceiveTypes ==
  ASSUME PacketTypes, NEW p \in underway, Receive(p)
  PROVE  /\ p.ch \in Channels /\ p.seq \in Seqs /\ p.chunk \in Chunks
         /\ windows' \in [Channels -> Seq(Seqs)]
         /\ \A ch \in Channels : Len(windows'[ch]) <= Window
         /\ kept' \in [Channels -> [Seqs -> Chunks \cup {NoSeq}]]
         /\ unacked' \in [Channels -> 0..(AckEvery - 1)]
         /\ acks' \in [Channels -> 0..Eager]
         /\ told' \in [Channels -> SUBSET Seqs]
<1>1. p.ch \in Channels /\ p.seq \in Seqs /\ p.chunk \in Chunks
  BY DEF PacketTypes
<1>2. windows' = [windows EXCEPT ![p.ch] = Slide(windows[p.ch], p.seq)]
  BY DEF Receive
<1>3. windows[p.ch] \in Seq(Seqs) /\ Len(windows[p.ch]) <= Window
  BY <1>1 DEF PacketTypes
<1> DEFINE w == windows[p.ch]
<1>4. Slide(w, p.seq) \in Seq(Seqs) /\ Len(Slide(w, p.seq)) <= Window
  <2>1. w \in Seq(Seqs) /\ Len(w) <= Window
    BY <1>3
  <2> HIDE DEF w
  <2>2. Len(Slide(w, p.seq)) \in 1..Window /\ Slide(w, p.seq) \in Seq(Seqs)
    BY <1>1, <2>1, SlideFacts
  <2> QED
    BY <2>2, Numbers
<1>5. /\ windows' \in [Channels -> Seq(Seqs)]
      /\ \A ch \in Channels : Len(windows'[ch]) <= Window
  BY <1>1, <1>2, <1>4 DEF PacketTypes
<1>6. kept' \in [Channels -> [Seqs -> Chunks \cup {NoSeq}]]
  BY <1>1 DEF PacketTypes, Receive, Keep
<1>7. {windows'[p.ch][i] : i \in 1..Len(windows'[p.ch])} \subseteq Seqs
  BY <1>1, <1>5
<1>8. told' \in [Channels -> SUBSET Seqs]
  <2>1. \/ told' = [told EXCEPT ![p.ch] = @ \cup {windows'[p.ch][i] : i \in 1..Len(windows'[p.ch])}]
        \/ told' = told
    BY DEF Receive, Acknowledge
  <2> QED
    BY <1>1, <1>7, <2>1 DEF PacketTypes
<1>11. Acknowledge(p.ch)
  BY DEF Receive
<1>9. acks' \in [Channels -> 0..Eager]
  <2>1. acks' = acks \/ acks' = [acks EXCEPT ![p.ch] = IF acks[p.ch] < Eager THEN acks[p.ch] + 1 ELSE acks[p.ch]]
    BY <1>11 DEF Acknowledge
  <2>2. acks \in [Channels -> 0..Eager] /\ acks[p.ch] \in 0..Eager
    BY <1>1 DEF PacketTypes
  <2>3. (IF acks[p.ch] < Eager THEN acks[p.ch] + 1 ELSE acks[p.ch]) \in 0..Eager
    BY <2>2, Numbers
  <2> QED
    BY <1>1, <2>1, <2>2, <2>3
<1>10. unacked' \in [Channels -> 0..(AckEvery - 1)]
  <2>1. \/ unacked' = [unacked EXCEPT ![p.ch] = 0]
        \/ unacked[p.ch] + 1 < AckEvery /\ unacked' = [unacked EXCEPT ![p.ch] = @ + 1]
    <3>1. unacked[p.ch] \in 0..(AckEvery - 1)
      BY <1>1 DEF PacketTypes
    <3> QED
      BY <1>11, <3>1, Numbers DEF Acknowledge, MustAck
  <2>2. unacked \in [Channels -> 0..(AckEvery - 1)] /\ unacked[p.ch] \in 0..(AckEvery - 1)
    BY <1>1 DEF PacketTypes
  <2> QED
    BY <1>1, <2>1, <2>2, Numbers
<1> QED
  BY <1>1, <1>5, <1>6, <1>8, <1>9, <1>10

LEMMA PacketTypesStep == ASSUME PacketTypes, [Next]_vars PROVE PacketTypes'
<1>0. /\ Answered'
      /\ \A ch \in Channels : Total(ch)' \in Nat /\ Total(ch) <= Total(ch)'
      /\ answers' = answers => \A ch \in Channels : Total(ch)' = Total(ch)
      /\ \A ch \in Channels : Total(ch) \in Nat
  BY TotalStep, TotalType DEF PacketTypes, Answered
<1>1. CASE Answer
  <2>1. \A ch \in Channels : out'[ch] <= Total(ch)'
    BY <1>0, <1>1 DEF Answer, PacketTypes
  <2> QED
    BY <1>0, <1>1, <2>1 DEF Answer, PacketTypes, clientVars, ackVars
<1>2. CASE Lose
  <2>1. \A ch \in Channels : out'[ch] <= Total(ch)'
    BY <1>0, <1>2 DEF Lose, PacketTypes, cameraVars
  <2>2. dropped' \in 0..MaxLost
    BY <1>2, Numbers DEF Lose, PacketTypes
  <2> QED
    BY <1>0, <1>2, <2>1, <2>2 DEF Lose, PacketTypes, cameraVars, clientVars, ackVars
<1>3. CASE Resend
  <2>1. \A ch \in Channels : out'[ch] <= Total(ch)'
    BY <1>0, <1>3 DEF Resend, PacketTypes, cameraVars
  <2> QED
    BY <1>0, <1>3, <2>1 DEF Resend, PacketTypes, cameraVars, ackVars
<1>4. CASE ReceiveReply
  <2>1. \A ch \in Channels : out'[ch] <= Total(ch)'
    BY <1>0, <1>4 DEF ReceiveReply, PacketTypes, cameraVars
  <2> QED
    BY <1>0, <1>4, <2>1 DEF ReceiveReply, PacketTypes, cameraVars, networkVars, ackVars
<1>5. ASSUME NEW c \in Channels, Send(c) PROVE PacketTypes'
  <2>1. out[c] + 1 \in 1..Total(c)
    BY <1>0, <1>5 DEF Send, PacketTypes
  <2>2. Packet(c, out[c] + 1) \in [ch : Channels, seq : Seqs, chunk : Chunks]
    BY <2>1, PacketType DEF PacketTypes, Answered
  <2>3. underway' \subseteq [ch : Channels, seq : Seqs, chunk : Chunks]
    BY <1>5, <2>2 DEF Send, PacketTypes
  <2>4. out' \in [Channels -> Nat] /\ \A ch \in Channels : out'[ch] <= Total(ch)'
    BY <1>0, <1>5, <2>1 DEF Send, PacketTypes
  <2> QED
    BY <1>0, <1>5, <2>3, <2>4 DEF Send, PacketTypes, clientVars, ackVars
<1>6. ASSUME NEW c \in Channels, NEW i \in 1..Total(c), SendAgain(c, i) PROVE PacketTypes'
  <2>1. Packet(c, i) \in [ch : Channels, seq : Seqs, chunk : Chunks]
    BY PacketType DEF PacketTypes, Answered
  <2>2. \A ch \in Channels : out'[ch] <= Total(ch)'
    BY <1>0, <1>6 DEF SendAgain, PacketTypes, cameraVars
  <2> QED
    BY <1>0, <1>6, <2>1, <2>2 DEF SendAgain, PacketTypes, cameraVars, clientVars, ackVars
<1>7. ASSUME NEW c \in Channels, Idle(c) PROVE PacketTypes'
  <2>1. \A ch \in Channels : out'[ch] <= Total(ch)'
    BY <1>0, <1>7 DEF Idle, PacketTypes, cameraVars
  <2> QED
    BY <1>0, <1>7, <2>1 DEF Idle, PacketTypes, cameraVars, networkVars, ackVars
<1>8. ASSUME NEW p \in underway, Receive(p) PROVE PacketTypes'
  <2>1. \A ch \in Channels : out'[ch] <= Total(ch)'
    BY <1>0, <1>8 DEF Receive, PacketTypes, cameraVars
  <2>2. p.ch \in Channels
    BY <1>8, ReceiveTypes
  <2>3. heard' \subseteq Channels /\ fresh' \subseteq heard' /\ saw' \in BOOLEAN
    BY <1>8, <2>2 DEF Receive, PacketTypes
  <2>4. underway' \subseteq underway /\ UNCHANGED <<origin, out, dropped, at>>
    BY <1>8 DEF Receive, cameraVars
  <2> QED
    BY <1>0, <1>8, <2>1, <2>3, <2>4, ReceiveTypes DEF PacketTypes
<1>9. CASE Finish
  <2>1. \A ch \in Channels : out'[ch] <= Total(ch)'
    BY <1>0, <1>9 DEF Finish, PacketTypes, cameraVars
  <2>2. at' \in {"listening", "written", "failed"}
    BY <1>9 DEF Finish
  <2>3. told' \in [Channels -> SUBSET Seqs]
    <3>1. \A ch \in Channels : InWindow(ch) \subseteq Seqs
      BY DEF InWindow, PacketTypes
    <3> QED
      BY <1>9, <3>1 DEF Finish, Flush, PacketTypes
  <2>4. UNCHANGED <<origin, out, dropped, underway, saw, kept, windows, unacked, acks, heard, fresh>>
    BY <1>9 DEF Finish, cameraVars, networkVars
  <2> QED
    BY <1>0, <2>1, <2>2, <2>3, <2>4 DEF PacketTypes
<1>10. CASE UNCHANGED vars
  <2>1. \A ch \in Channels : out'[ch] <= Total(ch)'
    BY <1>0, <1>10 DEF vars, PacketTypes, cameraVars
  <2> QED
    BY <1>0, <1>10, <2>1 DEF vars, PacketTypes, cameraVars, networkVars, clientVars, ackVars
<1> QED
  BY <1>1, <1>2, <1>3, <1>4, <1>5, <1>6, <1>7, <1>8, <1>9, <1>10
  DEF Next, StopEarly, Deadline, Finished

-----------------------------------------------------------------------------
(* Acknowledgements.                                                       *)

\* The numbers that came on a channel since its last acknowledgement: the last
\* ones of its window.
Unacknowledged(ch) ==
    {windows[ch][i] : i \in (Len(windows[ch]) - unacked[ch] + 1)..Len(windows[ch])}

AckOf(ch) ==
    /\ unacked[ch] <= Len(windows[ch])
    /\ KeptSeqs(ch) \subseteq told[ch] \cup Unacknowledged(ch)
    /\ at # "listening" => KeptSeqs(ch) \subseteq told[ch]

AckInv == PacketTypes /\ \A ch \in Channels : AckOf(ch)

\* A window takes a number in at its end: what was in it behind place k is still
\* in it, one place before if it was full, unless k is the oldest's.
LEMMA SlideKeeps ==
  ASSUME NEW win \in Seq(Seqs), Len(win) <= Window, NEW s \in Seqs,
         NEW u \in Nat, u <= Len(win), u + 1 <= Window
  PROVE  LET new == Slide(win, s)
         IN  /\ u + 1 <= Len(new)
             /\ {win[i] : i \in (Len(win) - u + 1)..Len(win)} \cup {s}
                  \subseteq {new[j] : j \in (Len(new) - u)..Len(new)}
<1> DEFINE new == Slide(win, s)
           n == Len(win)
           m == Len(new)
<1>1. /\ m \in 1..Window /\ new[m] = s
      /\ \/ m = n + 1 /\ \A i \in 1..n : new[i] = win[i]
         \/ n = Window /\ m = n /\ \A i \in 2..n : new[i - 1] = win[i]
  BY SlideFacts
<1>2. n \in Nat /\ Window \in Nat \ {0}
  BY Numbers
<1>3. u <= n
  OBVIOUS
<1> HIDE DEF new, n, m
<1>4. u + 1 <= m /\ m \in Nat
  BY <1>1, <1>2, <1>3
<1>5. \A i \in (n - u + 1)..n : \E j \in (m - u)..m : new[j] = win[i]
  <2> TAKE i \in (n - u + 1)..n
  <2>1. i \in 1..n
    BY <1>2, <1>3
  <2>2. CASE m = n + 1 /\ \A j \in 1..n : new[j] = win[j]
    <3>1. new[i] = win[i] /\ i \in (m - u)..m
      BY <2>1, <2>2, <1>2
    <3> QED
      BY <3>1
  <2>3. CASE n = Window /\ m = n /\ \A j \in 2..n : new[j - 1] = win[j]
    <3>1. i \in 2..n
      BY <2>1, <2>3, <1>2, <1>4
    <3>2. new[i - 1] = win[i] /\ i - 1 \in (m - u)..m
      BY <3>1, <2>3, <1>2
    <3> QED
      BY <3>2
  <2> QED
    BY <1>1, <2>2, <2>3
<1>6. m \in (m - u)..m
  BY <1>4
<1>7. \A v \in {win[i] : i \in (n - u + 1)..n} \cup {s} : \E j \in (m - u)..m : new[j] = v
  BY <1>1, <1>5, <1>6
<1> QED
  BY <1>4, <1>7 DEF new, n, m

\* The channel on which a packet comes.
LEMMA AckReceived ==
  ASSUME AckEvery <= Window, AckInv, NEW p \in underway, Receive(p)
  PROVE  AckOf(p.ch)'
<1> DEFINE c == p.ch
           s == p.seq
           w == windows[c]
           new == Slide(w, s)
           u == unacked[c]
<1>1. /\ c \in Channels /\ s \in Seqs /\ p.chunk \in Chunks /\ PacketTypes
      /\ windows' \in [Channels -> Seq(Seqs)] /\ unacked' \in [Channels -> 0..(AckEvery - 1)]
  BY ReceiveTypes DEF AckInv
<1>2. windows'[c] = new /\ at' = "listening"
  BY <1>1 DEF PacketTypes, Receive
<1>3. w \in Seq(Seqs) /\ Len(w) <= Window /\ u \in Nat /\ u <= Len(w) /\ u + 1 <= AckEvery
  BY <1>1, Numbers DEF AckInv, AckOf, PacketTypes
<1>4. u + 1 <= Window
  BY <1>3, Numbers, AckEvery <= Window
<1>5. /\ u + 1 <= Len(new)
      /\ {w[i] : i \in (Len(w) - u + 1)..Len(w)} \cup {s} \subseteq {new[j] : j \in (Len(new) - u)..Len(new)}
  <2> HIDE DEF w, u
  <2> QED
    BY <1>1, <1>3, <1>4, SlideKeeps DEF new
<1>6. KeptSeqs(c)' \subseteq KeptSeqs(c) \cup {s}
  <2>1. \A t \in Seqs : t # s => kept'[c][t] = kept[c][t]
    BY <1>1 DEF Receive, PacketTypes
  <2> QED
    BY <2>1 DEF KeptSeqs
<1>7. KeptSeqs(c) \subseteq told[c] \cup Unacknowledged(c)
  BY <1>1 DEF AckInv, AckOf
<1>8. KeptSeqs(c)' \subseteq told[c] \cup {new[j] : j \in (Len(new) - u)..Len(new)}
  BY <1>5, <1>6, <1>7 DEF Unacknowledged
<1>9. Acknowledge(c)
  BY DEF Receive
<1>10. CASE unacked' = [unacked EXCEPT ![c] = 0]
            /\ told' = [told EXCEPT ![c] = told[c] \cup {windows'[c][i] : i \in 1..Len(windows'[c])}]
  <2>1. unacked'[c] = 0 /\ told'[c] = told[c] \cup {new[i] : i \in 1..Len(new)}
    BY <1>1, <1>2, <1>10 DEF PacketTypes
  <2>2. (Len(new) - u)..Len(new) \subseteq 1..Len(new)
    BY <1>1, <1>2, <1>3, <1>5
  <2>3. KeptSeqs(c)' \subseteq told'[c]
    BY <1>8, <2>1, <2>2
  <2>4. unacked'[c] <= Len(windows'[c])
    BY <1>1, <1>2, <2>1
  <2> QED
    BY <2>3, <2>4 DEF AckOf
<1>11. CASE unacked' = [unacked EXCEPT ![c] = u + 1] /\ told' = told
  <2>1. unacked'[c] = u + 1
    BY <1>1, <1>11 DEF PacketTypes
  <2>2. Unacknowledged(c)' = {new[i] : i \in (Len(new) - u)..Len(new)}
    <3>1. Len(new) - unacked'[c] + 1 = Len(new) - u
      BY <1>1, <1>2, <1>3, <2>1
    <3> QED
      BY <1>2, <3>1 DEF Unacknowledged
  <2>3. KeptSeqs(c)' \subseteq told'[c] \cup Unacknowledged(c)'
    BY <1>8, <1>11, <2>2
  <2>4. unacked'[c] <= Len(windows'[c])
    BY <1>2, <1>5, <2>1
  <2> QED
    BY <1>2, <2>3, <2>4 DEF AckOf
<1> QED
  BY <1>9, <1>10, <1>11 DEF Acknowledge

LEMMA AckStep ==
  ASSUME AckEvery <= Window, AckInv, [Next]_vars
  PROVE  AckInv'
<1>0. PacketTypes'
  BY PacketTypesStep DEF AckInv
<1>1. ASSUME NEW p \in underway, Receive(p) PROVE \A ch \in Channels : AckOf(ch)'
  <2> TAKE ch \in Channels
  <2>1. CASE ch = p.ch
    BY <1>1, <2>1, AckReceived
  <2>2. CASE ch # p.ch
    <3>1. UNCHANGED <<windows[ch], unacked[ch], told[ch], kept[ch], at>>
      BY <1>1, <2>2 DEF Receive, Acknowledge, AckInv, PacketTypes
    <3>2. UNCHANGED <<KeptSeqs(ch), Unacknowledged(ch)>>
      BY <3>1 DEF KeptSeqs, Unacknowledged
    <3> QED
      BY <3>1, <3>2 DEF AckInv, AckOf
  <2> QED
    BY <2>1, <2>2
<1>2. ASSUME Finish PROVE \A ch \in Channels : AckOf(ch)'
  <2> TAKE ch \in Channels
  <2>1. UNCHANGED <<windows, unacked, kept>>
    BY <1>2 DEF Finish
  <2>2. UNCHANGED <<KeptSeqs(ch), Unacknowledged(ch)>>
    BY <2>1 DEF KeptSeqs, Unacknowledged
  <2>3. told'[ch] = IF unacked[ch] > 0 THEN told[ch] \cup InWindow(ch) ELSE told[ch]
    BY <1>2 DEF Finish, Flush
  <2>4. /\ Unacknowledged(ch) \subseteq InWindow(ch)
        /\ unacked[ch] = 0 => Unacknowledged(ch) = {}
    BY DEF AckInv, AckOf, PacketTypes, Unacknowledged, InWindow
  <2>5. unacked[ch] \in Nat
    BY Numbers DEF AckInv, PacketTypes
  <2>6. KeptSeqs(ch) \subseteq told'[ch]
    BY <2>3, <2>4, <2>5 DEF AckInv, AckOf
  <2> QED
    BY <2>1, <2>2, <2>6 DEF AckInv, AckOf
<1>3. ASSUME UNCHANGED <<windows, unacked, told, kept, at>> PROVE \A ch \in Channels : AckOf(ch)'
  <2> TAKE ch \in Channels
  <2>1. UNCHANGED <<KeptSeqs(ch), Unacknowledged(ch)>>
    BY <1>3 DEF KeptSeqs, Unacknowledged
  <2> QED
    BY <1>3, <2>1 DEF AckInv, AckOf
<1>4. \/ \E p \in underway : Receive(p)
      \/ Finish
      \/ UNCHANGED <<windows, unacked, told, kept, at>>
  BY DEF Next, Answer, Lose, Resend, ReceiveReply, Send, Idle, SendAgain, StopEarly, Deadline,
         Finished, vars, clientVars, ackVars
<1> QED
  BY <1>0, <1>1, <1>2, <1>3, <1>4 DEF AckInv

\* However sparse the acknowledgements and however the two channels come mixed,
\* no number leaves its channel's window before it was acknowledged, and in the
\* end all of them were, if AckEvery <= Window (10 and 17 in the code).
THEOREM AcknowledgedOnBoth ==
  ASSUME AckEvery <= Window
  PROVE  Spec => []BothAcknowledged
<1>1. Init => AckInv
  <2> SUFFICES ASSUME Init PROVE AckInv
    OBVIOUS
  <2>1. \A ch \in Channels : KeptSeqs(ch) = {}
    BY DEF Init, KeptSeqs
  <2>2. \A ch \in Channels : unacked[ch] = 0 /\ Len(windows[ch]) = 0
    BY DEF Init
  <2> QED
    <3>1. \A ch \in Channels : AckOf(ch)
      <4>1. \A ch \in Channels : unacked[ch] <= Len(windows[ch])
        BY <2>2
      <4> QED
        BY <2>1, <4>1 DEF AckOf
    <3> QED
      BY <3>1, PacketTypesInit DEF AckInv
<1>2. AckInv /\ [Next]_vars => AckInv'
  BY AckStep, AckEvery <= Window
<1>3. AckInv => BothAcknowledged
  <2> SUFFICES ASSUME AckInv, NEW ch \in Channels
               PROVE  /\ KeptSeqs(ch) \subseteq told[ch] \cup InWindow(ch)
                      /\ at # "listening" => KeptSeqs(ch) \subseteq told[ch]
    BY DEF BothAcknowledged
  <2>1. Unacknowledged(ch) \subseteq InWindow(ch)
    <3>1. unacked[ch] \in Nat /\ Len(windows[ch]) \in Nat /\ unacked[ch] <= Len(windows[ch])
      BY Numbers DEF AckInv, AckOf, PacketTypes
    <3>2. \A i \in (Len(windows[ch]) - unacked[ch] + 1)..Len(windows[ch]) : i \in 1..Len(windows[ch])
      BY <3>1
    <3> QED
      BY <3>2 DEF Unacknowledged, InWindow
  <2> QED
    BY <2>1 DEF AckInv, AckOf
<1> QED
  BY <1>1, <1>2, <1>3, PTL DEF Spec

-----------------------------------------------------------------------------
(* The early stop.                                                         *)

\* Once something came no request goes out any more; a channel that went quiet
\* has sent all there is; and what was sent is kept or under way unless
\* something was lost, kept if the channel is quiet.
QuietOf(ch) ==
    /\ dropped = 0 =>
         \A i \in 1..out[ch] : kept[ch][NumberOf(ch, i)] # NoSeq \/ Packet(ch, i) \in underway
    /\ ch \in heard =>
         /\ saw
         /\ ch \notin fresh =>
              /\ out[ch] = Total(ch) /\ (ch = Bulk => asks = 0)
              /\ dropped = 0 => \A i \in 1..out[ch] : kept[ch][NumberOf(ch, i)] # NoSeq

QuietInv == PacketTypes /\ \A ch \in Channels : QuietOf(ch)

\* Nothing that is kept is forgotten or overwritten.
LEMMA KeptStays ==
  ASSUME PacketTypes, [Next]_vars
  PROVE  /\ \A ch \in Channels, s \in Seqs : kept[ch][s] # NoSeq => kept'[ch][s] = kept[ch][s]
         /\ origin' = origin
<1>1. ASSUME NEW p \in underway, Receive(p)
      PROVE  \A ch \in Channels, s \in Seqs : kept[ch][s] # NoSeq => kept'[ch][s] = kept[ch][s]
  <2>1. p.ch \in Channels /\ p.seq \in Seqs
    BY <1>1, ReceiveTypes
  <2>2. kept' = [kept EXCEPT ![p.ch] = [kept[p.ch] EXCEPT ![p.seq] = Keep(kept[p.ch][p.seq], p.chunk)]]
    BY <1>1 DEF Receive
  <2> QED
    BY <2>1, <2>2 DEF PacketTypes, Keep
<1>2. kept' = kept \/ \E p \in underway : Receive(p)
  BY DEF Next, Answer, Lose, Resend, ReceiveReply, Send, Idle, SendAgain, StopEarly, Deadline,
         Finish, Finished, vars, clientVars
<1>3. origin' = origin
  BY DEF Next, Answer, Lose, Resend, ReceiveReply, Send, Idle, SendAgain, Receive, StopEarly,
         Deadline, Finish, Finished, vars, cameraVars
<1> QED
  BY <1>1, <1>2, <1>3

LEMMA QuietStep == ASSUME QuietInv, [Next]_vars PROVE QuietInv'
<1>0. PacketTypes /\ PacketTypes'
  BY PacketTypesStep DEF QuietInv
<1>t. /\ answers' = answers => \A ch \in Channels : Total(ch)' = Total(ch)
      /\ \A ch \in Channels : Total(ch) <= Total(ch)' /\ Total(ch) \in Nat
  BY <1>0, TotalStep, TotalType DEF PacketTypes, Answered
<1>k. /\ \A ch \in Channels, s \in Seqs : kept[ch][s] # NoSeq => kept'[ch][s] # NoSeq
      /\ \A ch, i : NumberOf(ch, i)' = NumberOf(ch, i) /\ Packet(ch, i)' = Packet(ch, i)
  BY <1>0, KeptStays DEF NumberOf, Packet, ChunkOf
<1>s. \A ch \in Channels : \A i \in 1..Total(ch) : NumberOf(ch, i) \in Seqs
  BY <1>0, NumberOfType DEF PacketTypes, Answered
<1>o. \A ch \in Channels : out[ch] \in Nat /\ out[ch] <= Total(ch)
  BY <1>0 DEF PacketTypes
<1>g. \A ch \in Channels : \A i \in 1..out[ch] :
        kept[ch][NumberOf(ch, i)] # NoSeq => kept'[ch][NumberOf(ch, i)'] # NoSeq
  BY <1>k, <1>s, <1>o, <1>t
<1> SUFFICES \A ch \in Channels : QuietOf(ch)'
  BY <1>0 DEF QuietInv
<1> TAKE ch \in Channels
<1> USE DEF QuietInv
<1>1. CASE Answer
  <2>1. asks # 0 /\ UNCHANGED <<out, underway, dropped, kept, heard, fresh, saw>>
    BY <1>0, <1>1 DEF Answer, clientVars, PacketTypes, Answered
  <2>2. ch \in heard /\ ch \notin fresh => ch = Thumbs
    BY <2>1 DEF QuietOf, Channels
  <2>3. ch = Thumbs => Total(ch)' = Total(ch)
    BY DEF Total, Bulk, Thumbs
  <2> QED
    BY <1>k, <2>1, <2>2, <2>3 DEF QuietOf, Bulk, Thumbs
<1>2. CASE Lose
  <2>1. dropped' # 0
    BY <1>0, <1>2, Numbers DEF Lose, PacketTypes
  <2>2. UNCHANGED <<out, kept, heard, fresh, saw, answers>>
    BY <1>2 DEF Lose, cameraVars, clientVars
  <2>3. asks = 0 => asks' = 0
    BY <1>2 DEF Lose
  <2> QED
    BY <1>t, <2>1, <2>2, <2>3 DEF QuietOf
<1>3. CASE Resend
  <2>1. ~saw /\ UNCHANGED <<out, underway, dropped, kept, heard, saw>>
    BY <1>3 DEF Resend, cameraVars
  <2> QED
    BY <1>k, <2>1 DEF QuietOf
<1>4. CASE ReceiveReply
  <2>1. saw' /\ UNCHANGED <<out, underway, dropped, kept, heard, fresh, asks, answers>>
    BY <1>4 DEF ReceiveReply, cameraVars, networkVars
  <2> QED
    BY <1>k, <1>t, <2>1 DEF QuietOf
<1>5. ASSUME NEW c \in Channels, Send(c) PROVE QuietOf(ch)'
  <2>1. /\ out[c] < Total(c) /\ out' = [out EXCEPT ![c] = @ + 1]
        /\ underway' = underway \cup {Packet(c, out[c] + 1)}
        /\ UNCHANGED <<dropped, kept, heard, fresh, saw, asks, answers>>
    BY <1>5 DEF Send, clientVars
  <2>2. CASE ch = c
    <3>1. out'[ch] = out[ch] + 1
      BY <1>0, <2>1, <2>2 DEF PacketTypes
    <3>2. \A i \in 1..out'[ch] : i \in 1..out[ch] \/ i = out[ch] + 1
      BY <1>o, <3>1
    <3>3. out[ch] # Total(ch)
      BY <1>o, <1>t, <2>1, <2>2
    <3> QED
      BY <1>k, <2>1, <2>2, <3>2, <3>3 DEF QuietOf
  <2>3. CASE ch # c
    <3>1. out'[ch] = out[ch]
      BY <1>0, <2>1, <2>3 DEF PacketTypes
    <3> QED
      BY <1>k, <1>t, <2>1, <3>1 DEF QuietOf
  <2> QED
    BY <2>2, <2>3
<1>6. ASSUME NEW c \in Channels, NEW i \in 1..Total(c), SendAgain(c, i) PROVE QuietOf(ch)'
  <2>1. underway \subseteq underway' /\ UNCHANGED <<out, dropped, kept, heard, fresh, saw, asks, answers>>
    BY <1>6 DEF SendAgain, cameraVars, clientVars
  <2> QED
    BY <1>k, <1>t, <2>1 DEF QuietOf
<1>7. ASSUME NEW c \in Channels, Idle(c) PROVE QuietOf(ch)'
  <2>1. /\ c = Bulk => asks = 0
        /\ out[c] = Total(c) /\ \A p \in underway : p.ch # c
        /\ fresh' = fresh \ {c}
        /\ UNCHANGED <<out, underway, dropped, kept, heard, saw, asks, answers>>
    BY <1>7 DEF Idle, cameraVars, networkVars
  <2>2. \A i : Packet(c, i) \notin underway
    BY <2>1 DEF Packet
  <2> QED
    BY <1>k, <1>t, <2>1, <2>2 DEF QuietOf
<1>8. ASSUME NEW p \in underway, Receive(p) PROVE QuietOf(ch)'
  <2>1. p.ch \in Channels /\ p.seq \in Seqs /\ p.chunk # NoSeq
    BY <1>0, <1>8, ReceiveTypes, Numbers
  <2>2. /\ underway' = underway \ {p} /\ saw'
        /\ heard' = heard \cup {p.ch} /\ fresh' = fresh \cup {p.ch}
        /\ UNCHANGED <<out, dropped, asks, answers>>
    BY <1>8 DEF Receive, cameraVars
  <2>3. kept'[p.ch][p.seq] # NoSeq
    BY <1>0, <1>8, <2>1 DEF Receive, Keep, PacketTypes
  <2>4. \A i : Packet(ch, i) = p => kept'[ch][NumberOf(ch, i)'] # NoSeq
    BY <1>k, <2>3 DEF Packet
  <2>5. dropped' = 0 =>
          \A i \in 1..out'[ch] : kept'[ch][NumberOf(ch, i)'] # NoSeq \/ Packet(ch, i)' \in underway'
    BY <1>g, <1>k, <2>2, <2>4 DEF QuietOf
  <2> QED
    BY <1>g, <1>t, <2>2, <2>5 DEF QuietOf
<1>9. CASE Finish
  <2>1. UNCHANGED <<out, underway, dropped, kept, heard, fresh, saw, asks, answers>>
    BY <1>9 DEF Finish, cameraVars, networkVars
  <2> QED
    BY <1>k, <1>t, <2>1 DEF QuietOf
<1>10. CASE UNCHANGED vars
  <2>1. UNCHANGED <<out, underway, dropped, kept, heard, fresh, saw, asks, answers>>
    BY <1>10 DEF vars, cameraVars, networkVars, clientVars
  <2> QED
    BY <1>k, <1>t, <2>1 DEF QuietOf
<1> QED
  BY <1>1, <1>2, <1>3, <1>4, <1>5, <1>6, <1>7, <1>8, <1>9, <1>10
  DEF Next, StopEarly, Deadline, Finished

\* The client that stops listening early misses nothing: every channel that has
\* started has sent all that was asked for on it, and it is kept unless the
\* network lost something.
THEOREM EarlyStopIsLate ==
  Spec => StopsOnlyWhenDone
<1> DEFINE AllThere ==
      \A ch \in heard :
          /\ out[ch] = Total(ch)
          /\ dropped = 0 => \A i \in 1..Total(ch) : kept[ch][NumberOf(ch, i)] # NoSeq
<1>1. Init => QuietInv
  <2> SUFFICES ASSUME Init PROVE QuietInv
    OBVIOUS
  <2>1. PacketTypes
    BY PacketTypesInit
  <2>2. \A ch \in Channels : out[ch] = 0 /\ ch \notin heard
    BY DEF Init
  <2> QED
    BY <2>1, <2>2 DEF QuietInv, QuietOf
<1>2. QuietInv /\ [Next]_vars => QuietInv'
  BY QuietStep
<1>3. QuietInv /\ StopEarly => AllThere
  <2> SUFFICES ASSUME QuietInv, StopEarly PROVE AllThere
    OBVIOUS
  <2>1. \A ch \in heard : ch \in Channels /\ ch \notin fresh
    BY DEF StopEarly, Quiet, QuietInv, PacketTypes
  <2> QED
    BY <2>1 DEF QuietInv, QuietOf
<1>4. QuietInv /\ [Next]_vars => [StopEarly => AllThere]_vars
  BY <1>3
<1> QED
  BY <1>1, <1>2, <1>4, PTL DEF Spec, StopsOnlyWhenDone

-----------------------------------------------------------------------------
(* Numbers and sets of them.                                               *)

\* A set of natural numbers has a least one, and a largest if it has a bound.
LEMMA LeastOf ==
  ASSUME NEW N \in SUBSET Nat, N # {}
  PROVE  \E n \in N : \A m \in N : n <= m
<1> DEFINE R == {ss \in Nat \X Nat : ss[1] < ss[2]}
<1>1. IsWellFoundedOn(R, Nat)
  BY ONLY NatLessThanWellFounded DEF OpToRel
<1>2. PICK n \in N : \A m \in N : ~ <<m, n>> \in R
  <2> HIDE DEF R
  <2> QED
    BY <1>1, WFMin
<1>3. \A m \in N : ~(m < n)
  BY <1>2
<1> QED
  BY <1>3

LEMMA LargestOf ==
  ASSUME NEW N \in SUBSET Nat, N # {}, NEW bound \in Nat, \A n \in N : n <= bound
  PROVE  \E n \in N : \A m \in N : m <= n
<1> DEFINE D == {bound - n : n \in N}
<1>1. D \in SUBSET Nat /\ D # {}
  <2>1. \A n \in N : n \in Nat /\ bound - n \in Nat
    OBVIOUS
  <2> QED
    BY <2>1
<1>2. PICK e \in D : \A m \in D : e <= m
  <2> HIDE DEF D
  <2> QED
    BY <1>1, LeastOf
<1>3. PICK n \in N : e = bound - n
  BY <1>2
<1>4. \A m \in N : bound - n <= bound - m
  BY <1>2, <1>3
<1> QED
  BY <1>4

\* A finite set of numbers has, for every n up to its size, one with n - 1 below it.
Below(S, s) == {t \in S : t < s}

LEMMA EveryRank ==
  ASSUME NEW S \in SUBSET Nat, IsFiniteSet(S), NEW n \in 1..Cardinality(S)
  PROVE  \E s \in S : Cardinality(Below(S, s)) = n - 1
<1> DEFINE card == Cardinality(S)
           T == 0..(card - 1)
           f == [s \in S |-> Cardinality(Below(S, s))]
<1>1. card \in Nat
  BY FS_CardinalityType
<1>2. \A s \in S : /\ IsFiniteSet(Below(S, s))
                   /\ Cardinality(Below(S, s)) \in T
  <2> TAKE s \in S
  <2>1. Below(S, s) \in SUBSET S /\ s \notin Below(S, s)
    BY DEF Below
  <2>2. IsFiniteSet(Below(S, s)) /\ Cardinality(Below(S, s)) \in Nat
        /\ Cardinality(Below(S, s)) <= card /\ Cardinality(Below(S, s)) # card
    BY <2>1, FS_Subset, FS_CardinalityType
  <2> QED
    BY <1>1, <2>2
<1>3. \A s, t \in S : s < t => Cardinality(Below(S, s)) < Cardinality(Below(S, t))
  <2> SUFFICES ASSUME NEW s \in S, NEW t \in S, s < t
               PROVE  Cardinality(Below(S, s)) < Cardinality(Below(S, t))
    OBVIOUS
  <2>0. s \in Nat /\ t \in Nat /\ \A u \in S : u \in Nat
    OBVIOUS
  <2>1. Below(S, s) \in SUBSET Below(S, t)
    <3>1. \A u \in S : u < s => u < t
      BY <2>0
    <3> QED
      BY <3>1 DEF Below
  <2>2. s \in Below(S, t) /\ s \notin Below(S, s)
    BY <2>0 DEF Below
  <2>3. /\ Cardinality(Below(S, s)) <= Cardinality(Below(S, t))
        /\ Cardinality(Below(S, s)) # Cardinality(Below(S, t))
    BY <1>2, <2>1, <2>2, FS_Subset
  <2>4. Cardinality(Below(S, s)) \in Nat /\ Cardinality(Below(S, t)) \in Nat
    BY <1>2
  <2> QED
    BY <2>3, <2>4
<1>4. f \in [S -> T] /\ \A s \in S : f[s] = Cardinality(Below(S, s))
  BY <1>2
<1>5. \A s, t \in S : f[s] = f[t] => s = t
  <2> TAKE s, t \in S
  <2>1. f[s] \in Nat /\ f[t] \in Nat /\ s \in Nat /\ t \in Nat
    BY <1>4
  <2>2. (s < t => f[s] < f[t]) /\ (t < s => f[t] < f[s])
    BY <1>3, <1>4
  <2> QED
    BY <2>1, <2>2
<1> HIDE DEF f
<1>6. f \in Injection(S, T)
  BY <1>4, <1>5 DEF Injection, IsInjective
<1>7. IsFiniteSet(T) /\ Cardinality(T) = card
  <2>1. CASE card = 0
    BY <1>1, <2>1, FS_Interval
  <2>2. CASE card # 0
    <3>1. card - 1 \in Nat /\ card - 1 + 1 = card
      BY <1>1, <2>2
    <3>2. IsFiniteSet(T) /\ Cardinality(T) = card - 1 + 1
      BY <1>1, <2>2, <3>1, FS_Interval
    <3> QED
      BY <3>1, <3>2
  <2> QED
    BY <2>1, <2>2
<1>8. f \in Surjection(S, T)
  BY <1>6, <1>7, FS_Injection
<1>9. n - 1 \in T
  BY <1>1
<1>10. PICK s \in S : f[s] = n - 1
  BY <1>8, <1>9 DEF Surjection
<1> QED
  BY <1>4, <1>10

\* The n-th smallest of a set of numbers.
NthOf(S, n) == CHOOSE s \in S : Cardinality(Below(S, s)) = n - 1

\* Counting in ascending order: each of the set has its place, and the order of
\* the places is the order of the numbers.
LEMMA NthFacts ==
  ASSUME NEW S \in SUBSET Nat, IsFiniteSet(S)
  PROVE  /\ Cardinality(S) \in Nat
         /\ \A n \in 1..Cardinality(S) : NthOf(S, n) \in S
         /\ \A s \in S : \E n \in 1..Cardinality(S) : NthOf(S, n) = s
         /\ \A m, n \in 1..Cardinality(S) : m < n => NthOf(S, m) < NthOf(S, n)
<1> DEFINE card == Cardinality(S)
           C(s) == Cardinality(Below(S, s))
<1>1. card \in Nat
  BY FS_CardinalityType
<1>2. \A n \in 1..card : NthOf(S, n) \in S /\ C(NthOf(S, n)) = n - 1
  BY EveryRank DEF NthOf
<1>3. \A s \in S : IsFiniteSet(Below(S, s)) /\ C(s) \in 0..(card - 1)
  <2> TAKE s \in S
  <2>0. s \in Nat
    OBVIOUS
  <2>1. Below(S, s) \in SUBSET S /\ s \notin Below(S, s)
    BY <2>0 DEF Below
  <2>2. IsFiniteSet(Below(S, s)) /\ C(s) \in Nat /\ C(s) <= card /\ C(s) # card
    BY <2>1, FS_Subset, FS_CardinalityType
  <2> QED
    BY <1>1, <2>2
<1>4. \A s, t \in S : s <= t => C(s) <= C(t)
  <2> SUFFICES ASSUME NEW s \in S, NEW t \in S, s <= t PROVE C(s) <= C(t)
    OBVIOUS
  <2>0. s \in Nat /\ t \in Nat /\ \A u \in S : u \in Nat
    OBVIOUS
  <2>1. \A u \in S : u < s => u < t
    BY <2>0
  <2>2. Below(S, s) \in SUBSET Below(S, t)
    BY <2>1 DEF Below
  <2> QED
    BY <1>3, <2>2, FS_Subset
<1>5. \A s, t \in S : C(s) = C(t) => s = t
  <2> SUFFICES ASSUME NEW s \in S, NEW t \in S, s < t PROVE C(s) # C(t)
    <3>1. \A s, t \in S : s \in Nat /\ t \in Nat
      OBVIOUS
    <3>2. \A s, t \in S : s < t => C(s) # C(t)
      OBVIOUS
    <3> HIDE DEF C
    <3> QED
      BY <3>1, <3>2
  <2>0. s \in Nat /\ t \in Nat /\ \A u \in S : u \in Nat
    OBVIOUS
  <2>1. \A u \in S : u < s => u < t
    BY <2>0
  <2>2. Below(S, s) \in SUBSET Below(S, t)
    BY <2>1 DEF Below
  <2>3. s \in Below(S, t) /\ s \notin Below(S, s)
    BY <2>0 DEF Below
  <2> QED
    BY <1>3, <2>2, <2>3, FS_Subset
<1> HIDE DEF C
<1>6. \A s \in S : \E n \in 1..card : NthOf(S, n) = s
  <2> TAKE s \in S
  <2>1. C(s) + 1 \in 1..card /\ (C(s) + 1) - 1 = C(s)
    BY <1>1, <1>3
  <2>2. NthOf(S, C(s) + 1) \in S /\ C(NthOf(S, C(s) + 1)) = C(s)
    BY <1>2, <2>1
  <2> QED
    BY <1>5, <2>1, <2>2
<1>7. \A m, n \in 1..card : m < n => NthOf(S, m) < NthOf(S, n)
  <2> SUFFICES ASSUME NEW m \in 1..card, NEW n \in 1..card, m < n PROVE NthOf(S, m) < NthOf(S, n)
    OBVIOUS
  <2>1. /\ NthOf(S, m) \in S /\ C(NthOf(S, m)) = m - 1
        /\ NthOf(S, n) \in S /\ C(NthOf(S, n)) = n - 1
    BY <1>2
  <2>2. NthOf(S, m) \in Nat /\ NthOf(S, n) \in Nat
    BY <2>1
  <2>3. ~(m - 1 >= n - 1)
    BY <1>1
  <2>4. ~(NthOf(S, n) <= NthOf(S, m))
    <3>1. C(NthOf(S, n)) <= C(NthOf(S, m)) => n - 1 <= m - 1
      BY <2>1
    <3> QED
      BY <1>4, <2>1, <2>3, <3>1
  <2> QED
    BY <2>2, <2>4
<1> QED
  BY <1>1, <1>2, <1>6, <1>7

\* A run of successive numbers has successive places.
LEMMA RunInOrder ==
  ASSUME NEW S \in SUBSET Nat, IsFiniteSet(S),
         NEW n \in 1..Cardinality(S), NEW d \in Nat,
         \A j \in 0..d : NthOf(S, n) + j \in S
  PROVE  \A j \in 0..d : n + j \in 1..Cardinality(S) /\ NthOf(S, n + j) = NthOf(S, n) + j
<1> DEFINE card == Cardinality(S)
           Bad == {j \in 0..d : ~(n + j \in 1..card /\ NthOf(S, n + j) = NthOf(S, n) + j)}
<1>1. /\ card \in Nat
      /\ \A m \in 1..card : NthOf(S, m) \in Nat
      /\ \A s \in S : \E m \in 1..card : NthOf(S, m) = s
      /\ \A l, m \in 1..card : l < m => NthOf(S, l) < NthOf(S, m)
  BY NthFacts
<1> SUFFICES ASSUME Bad # {} PROVE FALSE
  OBVIOUS
<1>2. PICK j \in Bad : \A k \in Bad : j <= k
  <2>1. Bad \in SUBSET Nat
    OBVIOUS
  <2> HIDE DEF Bad
  <2> QED
    BY <2>1, LeastOf
<1>3. j # 0
  BY <1>1
<1>4. j - 1 \in 0..d /\ j - 1 \notin Bad
  BY <1>2, <1>3
<1>5. n + j - 1 \in 1..card /\ NthOf(S, n + j - 1) = NthOf(S, n) + j - 1
  <2>1. n + (j - 1) = n + j - 1
    BY <1>1
  <2>2. n + (j - 1) \in 1..card /\ NthOf(S, n + (j - 1)) = NthOf(S, n) + (j - 1)
    BY <1>4
  <2> QED
    BY <1>1, <2>1, <2>2
<1>6. PICK m \in 1..card : NthOf(S, m) = NthOf(S, n) + j
  BY <1>1
<1>7. m > n + j - 1
  <2>1. NthOf(S, n) \in Nat /\ j \in Nat
    BY <1>1
  <2>2. NthOf(S, n + j - 1) < NthOf(S, m)
    BY <1>5, <1>6, <2>1
  <2>3. m = n + j - 1 \/ m < n + j - 1 => FALSE
    BY <1>1, <1>5, <2>2
  <2> QED
    BY <1>5, <2>3
<1>8. n + j \in 1..card
  BY <1>1, <1>5, <1>7
<1>9. m = n + j
  <2>1. m > n + j => NthOf(S, n + j - 1) < NthOf(S, n + j) /\ NthOf(S, n + j) < NthOf(S, m)
    BY <1>1, <1>5, <1>8
  <2>2. NthOf(S, n + j) \in Nat /\ NthOf(S, n) \in Nat /\ j \in Nat
    BY <1>1, <1>8
  <2>3. ~(m > n + j)
    BY <1>5, <1>6, <2>1, <2>2
  <2> QED
    BY <1>1, <1>7, <2>2, <2>3
<1> QED
  BY <1>6, <1>8, <1>9, <1>2

\* Between two numbers there is room for all that come between their places.
LEMMA RoomBetween ==
  ASSUME NEW S \in SUBSET Nat, IsFiniteSet(S),
         NEW n \in 1..Cardinality(S), NEW d \in Nat, n + d <= Cardinality(S)
  PROVE  NthOf(S, n) + d <= NthOf(S, n + d)
<1> DEFINE card == Cardinality(S)
           Bad == {j \in 0..d : ~(NthOf(S, n) + j <= NthOf(S, n + j))}
<1>1. /\ card \in Nat
      /\ \A m \in 1..card : NthOf(S, m) \in Nat
      /\ \A l, m \in 1..card : l < m => NthOf(S, l) < NthOf(S, m)
  BY NthFacts
<1> SUFFICES ASSUME Bad # {} PROVE FALSE
  <2>1. d \in 0..d
    OBVIOUS
  <2> QED
    BY <2>1
<1>2. PICK j \in Bad : \A k \in Bad : j <= k
  <2>1. Bad \in SUBSET Nat
    OBVIOUS
  <2> HIDE DEF Bad
  <2> QED
    BY <2>1, LeastOf
<1>3. j # 0
  <2>1. NthOf(S, n) \in Nat /\ n + 0 = n
    BY <1>1
  <2> QED
    BY <2>1
<1>4. j - 1 \in 0..d /\ j - 1 \notin Bad
  BY <1>2, <1>3
<1>5. n + (j - 1) \in 1..card /\ n + j \in 1..card /\ n + (j - 1) < n + j
  BY <1>1, <1>3
<1>6. NthOf(S, n) + (j - 1) <= NthOf(S, n + (j - 1))
  BY <1>4
<1>7. NthOf(S, n + (j - 1)) < NthOf(S, n + j)
  BY <1>1, <1>5
<1>8. NthOf(S, n) \in Nat /\ NthOf(S, n + (j - 1)) \in Nat /\ NthOf(S, n + j) \in Nat /\ j \in Nat
  BY <1>1, <1>5
<1>9. NthOf(S, n) + j <= NthOf(S, n + j)
  BY <1>6, <1>7, <1>8
<1> QED
  BY <1>2, <1>9

-----------------------------------------------------------------------------
(* Where the chunks of Bulk lie among the numbers.                         *)

\* A number is so many times another and a remainder.
LEMMA Division ==
  ASSUME NEW m \in Nat \ {0}, NEW a \in Nat
  PROVE  a \div m \in Int /\ m * (a \div m) \in Int /\ a = m * (a \div m) + (a % m)
<1> DEFINE q == a \div m
           t == m * q
           r == a % m
<1>1. q \in Int
  OBVIOUS
<1>2. t \in Int
  BY <1>1
<1>3. r = a - t
  OBVIOUS
<1>4. a \in Int
  OBVIOUS
<1> HIDE DEF q, t, r
<1>5. q \in Int /\ t \in Int /\ a = t + r
  BY <1>1, <1>2, <1>3, <1>4
<1>6. a \div m \in Int /\ m * (a \div m) \in Int
  BY <1>1, <1>2 DEF q, t
<1>7. a = m * (a \div m) + (a % m)
  BY <1>5, Zenon DEF q, t, r
<1> QED
  BY <1>6, <1>7, Zenon

\* A remainder that is already small enough, and one that is a modulus too large.
LEMMA RemainderIs ==
  ASSUME NEW m \in Nat \ {0}, NEW a \in 0..(2 * m - 1)
  PROVE  a % m = IF a < m THEN a ELSE a - m
<1>1. a = m * (a \div m) + (a % m) /\ a % m \in 0..(m - 1) /\ a \div m \in Int
  <2>1. a \in Nat
    OBVIOUS
  <2> QED
    BY <2>1, Division, RemainderType
<1>2. a \div m = 0 \/ a \div m = 1
  <2>1. a \div m >= 2 => m * (a \div m) >= m * 2
    BY <1>1
  <2>2. a \div m <= -1 => m * (a \div m) <= m * (-1)
    BY <1>1
  <2> QED
    BY <1>1, <2>1, <2>2
<1>3. CASE a \div m = 0
  <2>1. m * (a \div m) = 0
    BY <1>3
  <2> QED
    BY <1>1, <2>1
<1>4. CASE a \div m = 1
  <2>1. m * (a \div m) = m
    BY <1>4
  <2> QED
    BY <1>1, <2>1
<1> QED
  BY <1>2, <1>3, <1>4

\* No more is sent on Bulk than there are numbers.
LEMMA NoMoreThanNumbers ==
  ASSUME PacketTypes
  PROVE  /\ out[Bulk] \in Nat /\ out[Bulk] <= Total(Bulk) /\ Total(Bulk) <= Modulus
         /\ origin \in 0..(Modulus - 1) /\ answers \in Nat
<1>1. /\ answers \in Nat /\ answers <= MaxRequests /\ origin \in 0..(Modulus - 1)
      /\ out[Bulk] \in Nat /\ out[Bulk] <= Total(Bulk)
  BY Numbers DEF PacketTypes, Answered, Channels, Seqs
<1>2. Total(Bulk) = answers * PhotoLen
  BY DEF Total
<1>3. PhotoLen \in Nat /\ MaxRequests \in Nat /\ Modulus \in Nat
  BY Numbers
<1>4. answers * PhotoLen <= MaxRequests * PhotoLen
  BY <1>1, <1>3
<1>5. MaxRequests * PhotoLen = PhotoLen * MaxRequests
  BY <1>3
<1>6. MaxRequests * PhotoLen <= Modulus
  BY <1>5, ConstantsAssumption
<1>7. answers * PhotoLen \in Nat /\ MaxRequests * PhotoLen \in Nat
  BY <1>1, <1>3
<1>8. answers * PhotoLen <= Modulus
  BY <1>3, <1>4, <1>6, <1>7
<1> QED
  BY <1>1, <1>2, <1>8

\* A number is the place in the stream, counted from the first number, unless
\* the numbers have wrapped before it.
LEMMA NumberIs ==
  ASSUME PacketTypes, NEW i \in 1..Modulus
  PROVE  NumberOf(Bulk, i) = IF origin + i <= Modulus THEN origin + i - 1 ELSE origin + i - 1 - Modulus
<1>1. Modulus \in Nat \ {0} /\ origin \in 0..(Modulus - 1)
  BY Numbers, NoMoreThanNumbers
<1> DEFINE a == origin + i - 1
<1>2. a \in 0..(2 * Modulus - 1) /\ (a < Modulus <=> origin + i <= Modulus)
  BY <1>1
<1>3. NumberOf(Bulk, i) = a % Modulus
  BY DEF NumberOf
<1> HIDE DEF a
<1> DEFINE r == a % Modulus
<1>4. r = IF a < Modulus THEN a ELSE a - Modulus
  BY <1>1, <1>2, RemainderIs
<1>5. NumberOf(Bulk, i) = r
  BY <1>3
<1> HIDE DEF r
<1> QED
  BY <1>1, <1>2, <1>4, <1>5 DEF a

\* No two of the chunks have the same number.
LEMMA NumbersDiffer ==
  ASSUME PacketTypes, NEW i \in 1..Modulus, NEW j \in 1..Modulus,
         NumberOf(Bulk, i) = NumberOf(Bulk, j)
  PROVE  i = j
<1>1. Modulus \in Nat \ {0} /\ origin \in 0..(Modulus - 1)
  BY Numbers, NoMoreThanNumbers
<1>2. /\ NumberOf(Bulk, i) = IF origin + i <= Modulus THEN origin + i - 1 ELSE origin + i - 1 - Modulus
      /\ NumberOf(Bulk, j) = IF origin + j <= Modulus THEN origin + j - 1 ELSE origin + j - 1 - Modulus
  BY NumberIs
<1> DEFINE x == NumberOf(Bulk, i)
           y == NumberOf(Bulk, j)
<1>3. x = y
  OBVIOUS
<1> HIDE DEF x, y
<1>4. /\ x = IF origin + i <= Modulus THEN origin + i - 1 ELSE origin + i - 1 - Modulus
      /\ y = IF origin + j <= Modulus THEN origin + j - 1 ELSE origin + j - 1 - Modulus
  BY <1>2 DEF x, y
<1>5. i \in Nat /\ j \in Nat /\ 1 <= i /\ 1 <= j /\ i <= Modulus /\ j <= Modulus
  BY <1>1
<1>6. origin \in Nat /\ Modulus \in Nat
  BY <1>1
<1>7. CASE origin + i <= Modulus
  <2>1. x = origin + i - 1
    BY <1>4, <1>7
  <2>2. origin + i - 1 = origin + j - 1 \/ origin + i - 1 = origin + j - 1 - Modulus
    BY <1>3, <1>4, <2>1, Zenon
  <2> QED
    BY <1>5, <1>6, <2>2
<1>8. CASE ~(origin + i <= Modulus)
  <2>1. x = origin + i - 1 - Modulus
    BY <1>4, <1>8
  <2>2. origin + i - 1 - Modulus = origin + j - 1 \/ origin + i - 1 - Modulus = origin + j - 1 - Modulus
    BY <1>3, <1>4, <2>1, Zenon
  <2> QED
    BY <1>5, <1>6, <2>2
<1> QED
  BY <1>7, <1>8

\* Multiplication and order.
LEMMA TimesMonotone ==
  ASSUME NEW a \in Nat, NEW b \in Nat, NEW c \in Nat, a <= b
  PROVE  a * c <= b * c
  OBVIOUS

LEMMA OneMoreTimes ==
  ASSUME NEW a \in Nat, NEW c \in Nat
  PROVE  (a + 1) * c = a * c + c /\ a * c \in Nat
  OBVIOUS

\* A multiple leaves no remainder.
LEMMA RemainderOfTimes ==
  ASSUME NEW m \in Nat \ {0}, NEW a \in Nat
  PROVE  (a * m) % m = 0
<1> DEFINE t == a * m
           q == t \div m
           s == t % m
<1>1. t \in Nat
  OBVIOUS
<1>2. q \in Int /\ m * q \in Int /\ t = m * q + s /\ s \in 0..(m - 1)
  <2> HIDE DEF t
  <2> QED
    BY <1>1, Division, RemainderType
<1>3. t = m * a
  OBVIOUS
<1> HIDE DEF t, q, s
<1> DEFINE e == a - q
<1>4. m * e = m * a - m * q /\ e \in Int
  BY <1>2
<1>5. m * e = s
  <2>1. m * a \in Int
    OBVIOUS
  <2>2. m * a - m * q = s
    BY <1>2, <1>3, <2>1
  <2> QED
    BY <1>4, <2>2
<1> HIDE DEF e
<1>6. e = 0
  <2>1. e >= 1 => m * e >= m * 1
    BY <1>4
  <2>2. e <= -1 => m * e <= m * (-1)
    BY <1>4
  <2> QED
    BY <1>2, <1>4, <1>5, <2>1, <2>2
<1>7. s = 0
  <2>1. m * e = 0
    BY <1>6
  <2> QED
    BY <1>2, <1>5, <2>1
<1> QED
  BY <1>7 DEF s, t

\* What follows a multiple counts up from 0.
LEMMA RemainderRun ==
  ASSUME NEW m \in Nat \ {0}, NEW a \in Nat, a % m = 0, NEW b \in 0..(m - 1)
  PROVE  (a + b) % m = b
<1>1. a = m * (a \div m) + (a % m) /\ a \div m \in Int
  BY Division
<1>2. /\ a + b = m * ((a + b) \div m) + ((a + b) % m) /\ (a + b) \div m \in Int
      /\ (a + b) % m \in 0..(m - 1)
  <2>1. a + b \in Nat
    OBVIOUS
  <2> QED
    BY <2>1, Division, RemainderType
<1> DEFINE p == a \div m
           q == (a + b) \div m
           r == (a + b) % m
<1>3. /\ p \in Int /\ q \in Int /\ r \in 0..(m - 1)
      /\ m * q - m * p = b - r
  BY <1>1, <1>2
<1>4. m * (q - p) = m * q - m * p
  BY <1>3
<1> HIDE DEF p, q, r
<1> DEFINE e == q - p
<1>5. e \in Int /\ m * e = b - r
  BY <1>3, <1>4
<1> HIDE DEF e
<1>6. e = 0
  <2>1. e >= 1 => m * e >= m * 1
    BY <1>5
  <2>2. e <= -1 => m * e <= m * (-1)
    BY <1>5
  <2> QED
    BY <1>3, <1>5, <2>1, <2>2
<1>7. b = r
  <2>1. m * e = 0
    BY <1>6
  <2> QED
    BY <1>3, <1>5, <2>1
<1> QED
  BY <1>7 DEF r

\* Between two successive multiples there is none.
LEMMA NoMultipleBetween ==
  ASSUME NEW m \in Nat \ {0}, NEW a \in Nat, a % m = 0, NEW n \in Nat,
         a < n * m
  PROVE  a + m <= n * m
<1>1. a = m * (a \div m) + (a % m) /\ a \div m \in Int
  BY Division
<1> DEFINE p == a \div m
<1>2. p \in Int /\ a = m * p
  BY <1>1
<1> HIDE DEF p
<1>3. p \in Nat
  <2>1. p <= -1 => m * p <= m * (-1)
    BY <1>2
  <2> QED
    BY <1>2, <2>1
<1>4. n >= p + 1
  <2>1. n <= p => n * m <= p * m
    BY <1>3
  <2>2. p * m = m * p
    BY <1>3
  <2>3. n * m \in Nat /\ m * p \in Nat
    BY <1>3
  <2> QED
    BY <1>2, <1>3, <2>1, <2>2, <2>3
<1>5. (p + 1) * m <= n * m
  BY <1>3, <1>4, TimesMonotone
<1>6. (p + 1) * m = p * m + m /\ p * m = m * p /\ p * m \in Nat
  BY <1>3
<1>7. n * m \in Nat
  OBVIOUS
<1> QED
  BY <1>2, <1>5, <1>6, <1>7

-----------------------------------------------------------------------------
(* What is under way and what is kept.                                     *)

\* The number of the i-th chunk of Bulk, if the first one has number o.
NumberFrom(o, i) == (o + i - 1) % Modulus

\* A chunk of another item, or one of the first n chunks of the photo under the
\* number it was sent under.
Genuine(o, n, ch, s, chunk) ==
    \/ chunk.rec = Other
    \/ ch = Bulk /\ \E i \in 1..n : s = NumberFrom(o, i) /\ chunk = ChunkOf(Bulk, i)

ContentInv ==
    /\ PacketTypes
    /\ \A p \in underway : Genuine(origin, out[Bulk], p.ch, p.seq, p.chunk)
    /\ \A ch \in Channels, s \in Seqs :
         kept[ch][s] # NoSeq => Genuine(origin, out[Bulk], ch, s, kept[ch][s])

LEMMA ContentInit == ASSUME Init PROVE ContentInv
<1>1. \A p \in underway : p.chunk.rec = Other
  BY DEF Init
<1>2. \A ch \in Channels, s \in Seqs : kept[ch][s] = NoSeq
  BY DEF Init
<1> QED
  BY <1>1, <1>2, PacketTypesInit DEF ContentInv, Genuine

LEMMA ContentStep == ASSUME ContentInv, [Next]_vars PROVE ContentInv'
<1>0. PacketTypes /\ PacketTypes'
  BY PacketTypesStep DEF ContentInv
<1>1. /\ out[Bulk] \in Nat /\ out'[Bulk] \in Nat
      /\ out[Bulk] <= out'[Bulk]
  <2>1. out \in [Channels -> Nat] /\ out' \in [Channels -> Nat] /\ Bulk \in Channels
    BY <1>0 DEF PacketTypes, Channels
  <2>2. out' = out \/ \E ch \in Channels : out' = [out EXCEPT ![ch] = @ + 1]
    BY DEF Next, Answer, Lose, Resend, ReceiveReply, Send, Idle, SendAgain, Receive, StopEarly,
           Deadline, Finish, Finished, vars, cameraVars
  <2> QED
    BY <2>1, <2>2
<1> DEFINE G(ch, s, chunk) == Genuine(origin, out[Bulk], ch, s, chunk)
           H(ch, s, chunk) == Genuine(origin, out'[Bulk], ch, s, chunk)
<1>2. origin' = origin
  BY <1>0, KeptStays
<1>3. \A ch, s, chunk : G(ch, s, chunk) => H(ch, s, chunk)
  <2>1. \A i \in 1..out[Bulk] : i \in 1..out'[Bulk]
    BY <1>1
  <2> QED
    BY <2>1 DEF Genuine
<1>g. /\ \A p \in underway : G(p.ch, p.seq, p.chunk)
      /\ \A ch \in Channels, s \in Seqs : kept[ch][s] # NoSeq => G(ch, s, kept[ch][s])
  BY DEF ContentInv
<1>n. \A i : NumberOf(Bulk, i) = NumberFrom(origin, i)
  BY DEF NumberOf, NumberFrom
<1>4. \A p \in underway' : H(p.ch, p.seq, p.chunk)
  <2>1. ASSUME NEW c \in Channels, NEW i \in 1..Total(c), i <= out'[c],
               underway' = underway \cup {Packet(c, i)}
        PROVE  \A p \in underway' : H(p.ch, p.seq, p.chunk)
    <3> DEFINE q == Packet(c, i)
    <3>1. q.ch = c /\ q.seq = NumberOf(c, i) /\ q.chunk = ChunkOf(c, i)
      BY DEF Packet
    <3>2. H(q.ch, q.seq, q.chunk)
      <4>1. CASE c = Bulk
        <5>1. i \in 1..out'[Bulk]
          BY <1>1, <2>1, <4>1
        <5> QED
          BY <1>n, <3>1, <4>1, <5>1 DEF Genuine
      <4>2. CASE c # Bulk
        <5>1. q.chunk.rec = Other
          BY <3>1, <4>2 DEF ChunkOf
        <5> QED
          BY <5>1 DEF Genuine
      <4> QED
        BY <4>1, <4>2
    <3>3. \A p \in underway' : p \in underway \/ p = q
      BY <2>1
    <3> HIDE DEF G, H, q
    <3> QED
      BY <1>3, <1>g, <3>2, <3>3
  <2>2. ASSUME NEW c \in Channels, Send(c)
        PROVE  \A p \in underway' : H(p.ch, p.seq, p.chunk)
    <3>1. /\ out[c] < Total(c) /\ out' = [out EXCEPT ![c] = @ + 1]
          /\ underway' = underway \cup {Packet(c, out[c] + 1)}
      BY <2>2 DEF Send
    <3>2. out[c] \in Nat /\ out'[c] = out[c] + 1 /\ Total(c) \in Nat
      BY <1>0, <3>1, TotalType DEF PacketTypes, Answered
    <3>3. out[c] + 1 \in 1..Total(c) /\ out[c] + 1 <= out'[c]
      BY <3>1, <3>2
    <3> HIDE DEF H
    <3> QED
      BY <2>1, <3>1, <3>3
  <2>3. ASSUME NEW c \in Channels, NEW i \in 1..Total(c), SendAgain(c, i)
        PROVE  \A p \in underway' : H(p.ch, p.seq, p.chunk)
    <3>1. i <= out'[c] /\ underway' = underway \cup {Packet(c, i)}
      BY <2>3 DEF SendAgain, cameraVars
    <3> HIDE DEF H
    <3> QED
      BY <2>1, <3>1
  <2>4. CASE underway' \subseteq underway
    <3> HIDE DEF G, H
    <3> QED
      BY <1>3, <1>g, <2>4
  <2>5. \/ \E c \in Channels : Send(c)
        \/ \E c \in Channels : \E i \in 1..Total(c) : SendAgain(c, i)
        \/ underway' \subseteq underway
    BY DEF Next, Answer, Lose, Resend, ReceiveReply, Idle, Receive, StopEarly,
           Deadline, Finish, Finished, vars, networkVars
  <2> HIDE DEF H
  <2> QED
    BY <2>2, <2>3, <2>4, <2>5
<1>5. \A ch \in Channels, s \in Seqs : kept'[ch][s] # NoSeq => H(ch, s, kept'[ch][s])
  <2>1. ASSUME NEW p \in underway, Receive(p), NEW ch \in Channels, NEW s \in Seqs, kept'[ch][s] # NoSeq
        PROVE  G(ch, s, kept'[ch][s])
    <3>1. p.ch \in Channels /\ p.seq \in Seqs
      BY <1>0, <2>1, ReceiveTypes
    <3>2. kept' = [kept EXCEPT ![p.ch] = [kept[p.ch] EXCEPT ![p.seq] = Keep(kept[p.ch][p.seq], p.chunk)]]
      BY <2>1 DEF Receive
    <3>3. kept'[ch][s] = kept[ch][s] \/ (ch = p.ch /\ s = p.seq /\ kept'[ch][s] = p.chunk)
      BY <1>0, <3>1, <3>2 DEF PacketTypes, Keep
    <3> HIDE DEF G
    <3> QED
      BY <1>g, <2>1, <3>3
  <2>2. kept' = kept \/ \E p \in underway : Receive(p)
    BY DEF Next, Answer, Lose, Resend, ReceiveReply, Send, Idle, SendAgain, StopEarly, Deadline,
           Finish, Finished, vars, clientVars
  <2> HIDE DEF G, H
  <2> QED
    BY <1>3, <1>g, <2>1, <2>2
<1> QED
  BY <1>0, <1>2, <1>4, <1>5 DEF ContentInv


-----------------------------------------------------------------------------
(* The stream the records are cut out of.                                  *)

\* Numbers are kept in ascending order, one chunk each.
LEMMA AssembledFacts ==
  ASSUME PacketTypes, NEW ch \in Channels
  PROVE  /\ KeptSeqs(ch) \in SUBSET Nat /\ IsFiniteSet(KeptSeqs(ch))
         /\ Cardinality(KeptSeqs(ch)) \in Nat
         /\ Assembled(ch) \in Seq(Chunks)
         /\ Len(Assembled(ch)) = Cardinality(KeptSeqs(ch))
         /\ \A n \in 1..Cardinality(KeptSeqs(ch)) :
              /\ NthOf(KeptSeqs(ch), n) \in KeptSeqs(ch)
              /\ Assembled(ch)[n] = kept[ch][NthOf(KeptSeqs(ch), n)]
<1> DEFINE S == KeptSeqs(ch)
<1>1. S \in SUBSET Nat /\ IsFiniteSet(S)
  <2>1. Modulus - 1 \in Int /\ 0 \in Int
    BY Numbers
  <2>2. IsFiniteSet(Seqs)
    BY <2>1, FS_Interval DEF Seqs
  <2>3. S \in SUBSET Seqs
    BY DEF KeptSeqs
  <2>4. Seqs \in SUBSET Nat
    BY Numbers DEF Seqs
  <2> HIDE DEF S
  <2>5. IsFiniteSet(S)
    BY <2>2, <2>3, FS_Subset
  <2> QED
    BY <2>3, <2>4, <2>5
<1>2. Assembled(ch) = [n \in 1..Cardinality(S) |-> kept[ch][NthOf(S, n)]]
  BY DEF Assembled, NthOf, Below
<1>3. Cardinality(S) \in Nat /\ \A n \in 1..Cardinality(S) : NthOf(S, n) \in S
  BY <1>1, NthFacts
<1>4. \A s \in S : kept[ch][s] \in Chunks
  BY DEF KeptSeqs, PacketTypes
<1> HIDE DEF S
<1>5. \A n \in 1..Cardinality(S) : kept[ch][NthOf(S, n)] \in Chunks
  BY <1>3, <1>4
<1>6. Assembled(ch) \in Seq(Chunks) /\ Len(Assembled(ch)) = Cardinality(S)
  BY <1>2, <1>3, <1>5
<1> QED
  BY <1>1, <1>2, <1>3, <1>6 DEF S

\* The sizes of what is sent on Bulk.
LEMMA StreamBounds ==
  ASSUME ContentInv
  PROVE  /\ out[Bulk] \in Nat /\ out[Bulk] <= Modulus /\ origin \in 0..(Modulus - 1)
         /\ Modulus \in Nat \ {0} /\ PhotoLen \in Nat \ {0}
         /\ Total(Bulk) \in Nat /\ answers \in Nat
         /\ out[Bulk] <= Total(Bulk) /\ Total(Bulk) <= Modulus
<1>1. PacketTypes /\ Bulk \in Channels /\ answers \in Nat
  BY DEF ContentInv, PacketTypes, Answered, Channels
<1>2. /\ out[Bulk] \in Nat /\ out[Bulk] <= Total(Bulk) /\ Total(Bulk) <= Modulus
      /\ origin \in 0..(Modulus - 1) /\ Total(Bulk) \in Nat
  BY <1>1, NoMoreThanNumbers, TotalType
<1>3. out[Bulk] <= Modulus
  <2>1. Modulus \in Nat
    BY Numbers
  <2> HIDE DEF Total
  <2> QED
    BY <1>2, <2>1
<1>4. Modulus \in Nat \ {0} /\ PhotoLen \in Nat \ {0}
  BY Numbers
<1> QED
  BY ONLY <1>1, <1>2, <1>3, <1>4

\* What a record that is cut out of a stream consists of.
LEMMA RecordFacts ==
  ASSUME NEW blob \in Seq(Chunks), NEW i \in Headers(blob)
  PROVE  /\ i \in 1..Len(blob) /\ blob[i].part = 1 /\ RecLen(blob[i].rec) \in Nat \ {0}
         /\ i + RecLen(blob[i].rec) - 1 <= Len(blob)
         /\ Record(blob, i) \in Seq(Chunks)
         /\ Len(Record(blob, i)) = RecLen(blob[i].rec)
         /\ \A n \in 1..RecLen(blob[i].rec) : Record(blob, i)[n] = blob[i + n - 1]
<1> DEFINE l == RecLen(blob[i].rec)
           last == i + l - 1
<1>1. i \in 1..Len(blob) /\ blob[i].part = 1
  BY DEF Headers
<1>2. l \in Nat \ {0}
  BY Numbers DEF RecLen
<1>3. last <= Len(blob)
  BY DEF Headers, Fits
<1> HIDE DEF l
<1>4. \A n \in i..last : blob[n] \in Chunks
  BY <1>1, <1>2, <1>3
<1>5. i \in Int /\ last \in Int /\ i <= last /\ last - i + 1 = l
  BY <1>1, <1>2
<1>6. Record(blob, i) = SubSeq(blob, i, last)
  BY DEF Record, l
<1> HIDE DEF last
<1>7. /\ SubSeq(blob, i, last) \in Seq(Chunks)
      /\ Len(SubSeq(blob, i, last)) = last - i + 1
      /\ \A n \in 1..(last - i + 1) : SubSeq(blob, i, last)[n] = blob[i + n - 1]
  BY <1>4, <1>5, SubSeqProperties
<1>8. /\ Record(blob, i) \in Seq(Chunks)
      /\ Len(Record(blob, i)) = l
      /\ \A n \in 1..l : Record(blob, i)[n] = blob[i + n - 1]
  BY <1>5, <1>6, <1>7
<1>9. i + l - 1 <= Len(blob)
  BY <1>3 DEF last
<1> QED
  BY <1>1, <1>2, <1>8, <1>9 DEF l

\* Without left-over chunks all that is kept on Bulk was sent on it.
LEMMA KeptIsSent ==
  ASSUME ContentInv, ~StaleKept, NEW s \in KeptSeqs(Bulk)
  PROVE  \E i \in 1..out[Bulk] : s = NumberOf(Bulk, i) /\ kept[Bulk][s] = ChunkOf(Bulk, i)
<1>1. s \in Seqs /\ kept[Bulk][s] # NoSeq /\ Bulk \in Channels
  BY DEF KeptSeqs, Channels
<1>2. kept[Bulk][s].rec # Other
  BY <1>1 DEF StaleKept
<1>3. Genuine(origin, out[Bulk], Bulk, s, kept[Bulk][s])
  BY <1>1 DEF ContentInv
<1>4. \A i : NumberOf(Bulk, i) = NumberFrom(origin, i)
  BY DEF NumberOf, NumberFrom
<1> QED
  BY <1>2, <1>3, <1>4 DEF Genuine

\* The chunk under a number is the one that was sent under it.
LEMMA SentIsKept ==
  ASSUME ContentInv, ~StaleKept, AllSentKept, NEW i \in 1..out[Bulk]
  PROVE  /\ NumberOf(Bulk, i) \in KeptSeqs(Bulk)
         /\ kept[Bulk][NumberOf(Bulk, i)] = ChunkOf(Bulk, i)
<1>1. out[Bulk] \in Nat /\ out[Bulk] <= Modulus /\ out[Bulk] <= Total(Bulk) /\ Total(Bulk) \in Nat
      /\ Modulus \in Nat
  BY NoMoreThanNumbers, TotalType, Numbers DEF ContentInv, Channels
<1>2. NumberOf(Bulk, i) \in KeptSeqs(Bulk)
  <2>1. i \in 1..Total(Bulk) /\ Bulk \in Channels
    BY <1>1 DEF Channels
  <2>2. NumberOf(Bulk, i) \in Seqs
    BY <2>1, NumberOfType DEF ContentInv, PacketTypes, Answered
  <2> QED
    BY <2>2 DEF AllSentKept, KeptSeqs
<1>3. PICK j \in 1..out[Bulk] : /\ NumberOf(Bulk, i) = NumberOf(Bulk, j)
                                /\ kept[Bulk][NumberOf(Bulk, i)] = ChunkOf(Bulk, j)
  BY <1>2, KeptIsSent
<1>4. i \in 1..Modulus /\ j \in 1..Modulus
  BY <1>1
<1>5. i = j
  BY <1>3, <1>4, NumbersDiffer DEF ContentInv
<1> QED
  BY <1>2, <1>3, <1>5

\* The chunks of the photo, as they are sent.
LEMMA PhotoChunks ==
  ASSUME NEW i \in Nat \ {0}
  PROVE  /\ ChunkOf(Bulk, i) = [rec |-> Wanted, part |-> 1 + ((i - 1) % PhotoLen)]
         /\ (i - 1) % PhotoLen \in 0..(PhotoLen - 1)
         /\ i <= PhotoLen => ChunkOf(Bulk, i).part = i
<1>1. i - 1 \in Nat /\ PhotoLen \in Nat \ {0}
  BY Numbers
<1>2. ChunkOf(Bulk, i) = [rec |-> Wanted, part |-> 1 + ((i - 1) % PhotoLen)]
  BY DEF ChunkOf
<1>3. i <= PhotoLen => (i - 1) % PhotoLen = i - 1
  <2> SUFFICES ASSUME i <= PhotoLen PROVE (i - 1) % PhotoLen = i - 1
    OBVIOUS
  <2>1. i - 1 \in 0..(2 * PhotoLen - 1) /\ i - 1 < PhotoLen
    BY <1>1
  <2> QED
    BY <1>1, <2>1, RemainderIs
<1>4. i <= PhotoLen => 1 + ((i - 1) % PhotoLen) = i
  BY <1>1, <1>3
<1> QED
  BY <1>1, <1>2, <1>4, RemainderType

\* What the stream holds at the places of a photo's chunks, if all that was sent
\* is kept and nothing else.
LEMMA StreamFacts ==
  ASSUME ContentInv, ~StaleKept, AllSentKept
  PROVE  /\ KeptSeqs(Bulk) \in SUBSET Nat /\ IsFiniteSet(KeptSeqs(Bulk))
         /\ Assembled(Bulk) \in Seq(Chunks)
         /\ Len(Assembled(Bulk)) = Cardinality(KeptSeqs(Bulk))
         /\ \A n \in 1..Len(Assembled(Bulk)) : \E q \in 1..out[Bulk] :
              NthOf(KeptSeqs(Bulk), n) = NumberOf(Bulk, q) /\ Assembled(Bulk)[n] = ChunkOf(Bulk, q)
         /\ \A n \in 1..Len(Assembled(Bulk)), q \in 1..out[Bulk] :
              NthOf(KeptSeqs(Bulk), n) = NumberOf(Bulk, q) => Assembled(Bulk)[n] = ChunkOf(Bulk, q)
<1> DEFINE S == KeptSeqs(Bulk)
<1>1. /\ S \in SUBSET Nat /\ IsFiniteSet(S) /\ Assembled(Bulk) \in Seq(Chunks)
      /\ Len(Assembled(Bulk)) = Cardinality(S)
      /\ \A n \in 1..Cardinality(S) : /\ NthOf(S, n) \in S
                                      /\ Assembled(Bulk)[n] = kept[Bulk][NthOf(S, n)]
  BY AssembledFacts DEF ContentInv, Channels
<1>2. \A s \in S : \E q \in 1..out[Bulk] : s = NumberOf(Bulk, q) /\ kept[Bulk][s] = ChunkOf(Bulk, q)
  BY KeptIsSent
<1>3. \A q \in 1..out[Bulk] : kept[Bulk][NumberOf(Bulk, q)] = ChunkOf(Bulk, q)
  BY SentIsKept
<1> HIDE DEF S
<1>4. \A n \in 1..Len(Assembled(Bulk)) : \E q \in 1..out[Bulk] :
        NthOf(S, n) = NumberOf(Bulk, q) /\ Assembled(Bulk)[n] = ChunkOf(Bulk, q)
  <2> TAKE n \in 1..Len(Assembled(Bulk))
  <2>1. NthOf(S, n) \in S /\ Assembled(Bulk)[n] = kept[Bulk][NthOf(S, n)]
    BY <1>1
  <2> QED
    BY <1>2, <2>1
<1>5. \A n \in 1..Len(Assembled(Bulk)), q \in 1..out[Bulk] :
        NthOf(S, n) = NumberOf(Bulk, q) => Assembled(Bulk)[n] = ChunkOf(Bulk, q)
  BY <1>1, <1>3
<1> QED
  BY <1>1, <1>4, <1>5 DEF S

\* A record that fits is not cut by the wrap: its chunks, as far as they were sent,
\* have successive numbers and lie side by side.
LEMMA SideBySide ==
  ASSUME ContentInv, ~StaleKept, AllSentKept,
         NEW i \in 1..Len(Assembled(Bulk)), NEW k \in 1..out[Bulk],
         NthOf(KeptSeqs(Bulk), i) = NumberOf(Bulk, k),
         i + PhotoLen - 1 <= Len(Assembled(Bulk)),
         NEW d \in 0..(PhotoLen - 1), k + d <= out[Bulk]
  PROVE  /\ NumberOf(Bulk, k + d) = NumberOf(Bulk, k) + d
         /\ NthOf(KeptSeqs(Bulk), i + d) = NumberOf(Bulk, k + d)
         /\ Assembled(Bulk)[i + d] = ChunkOf(Bulk, k + d)
<1> DEFINE S == KeptSeqs(Bulk)
           card == Len(Assembled(Bulk))
           x == NumberOf(Bulk, k)
<1>1. /\ S \in SUBSET Nat /\ IsFiniteSet(S) /\ card = Cardinality(S) /\ card \in Nat
      /\ \A n \in 1..card, q \in 1..out[Bulk] :
           NthOf(S, n) = NumberOf(Bulk, q) => Assembled(Bulk)[n] = ChunkOf(Bulk, q)
  BY StreamFacts
<1>2. /\ out[Bulk] \in Nat /\ out[Bulk] <= Modulus /\ origin \in 0..(Modulus - 1)
      /\ Modulus \in Nat \ {0} /\ PhotoLen \in Nat \ {0}
  BY StreamBounds
<1>3. x + (PhotoLen - 1) <= Modulus - 1
  <2> DEFINE e == PhotoLen - 1
             y == NthOf(S, i + e)
  <2>1. e \in Nat /\ i + e \in 1..card /\ i \in 1..Cardinality(S)
    BY <1>1, <1>2
  <2>2. NthOf(S, i) = x
    OBVIOUS
  <2>3. NthOf(S, i) + e <= y
    <3> HIDE DEF S, e
    <3> QED
      BY <1>1, <2>1, RoomBetween
  <2>4. y \in S
    BY <1>1, <2>1, NthFacts
  <2>5. y \in 0..(Modulus - 1)
    BY <2>4 DEF KeptSeqs, Seqs
  <2>6. x \in Nat
    BY <1>1, <2>1, <2>2, NthFacts
  <2> HIDE DEF S, e, y, x
  <2>7. x + e <= Modulus - 1
    BY <1>2, <2>1, <2>2, <2>3, <2>5, <2>6
  <2> QED
    BY <2>7 DEF e
<1>4. \A j \in 0..d : k + j \in 1..out[Bulk] /\ NumberOf(Bulk, k + j) = x + j
  <2> TAKE j \in 0..d
  <2>1. k \in 1..Modulus /\ k + j \in 1..Modulus /\ k + j \in 1..out[Bulk] /\ j <= PhotoLen - 1
    BY <1>2
  <2>2. /\ x = IF origin + k <= Modulus THEN origin + k - 1 ELSE origin + k - 1 - Modulus
        /\ NumberOf(Bulk, k + j) = IF origin + (k + j) <= Modulus THEN origin + (k + j) - 1
                                   ELSE origin + (k + j) - 1 - Modulus
    BY <2>1, NumberIs DEF ContentInv
  <2> HIDE DEF x
  <2>3. CASE origin + k <= Modulus
    <3>1. x = origin + k - 1
      BY <2>2, <2>3
    <3>2. origin + (k + j) <= Modulus
      BY <1>2, <1>3, <2>1, <3>1
    <3>3. NumberOf(Bulk, k + j) = origin + (k + j) - 1
      BY <2>2, <3>2
    <3> QED
      BY <1>2, <2>1, <3>1, <3>3
  <2>4. CASE ~(origin + k <= Modulus)
    <3>1. x = origin + k - 1 - Modulus
      BY <2>2, <2>4
    <3>2. ~(origin + (k + j) <= Modulus)
      BY <1>2, <2>1, <2>4
    <3>3. NumberOf(Bulk, k + j) = origin + (k + j) - 1 - Modulus
      BY <2>2, <3>2
    <3> QED
      BY <1>2, <2>1, <3>1, <3>3
  <2> QED
    BY <2>3, <2>4
<1>5. \A j \in 0..d : NthOf(S, i) + j \in S
  <2> TAKE j \in 0..d
  <2>1. NumberOf(Bulk, k + j) \in S
    BY <1>4, SentIsKept
  <2> QED
    BY <1>4, <2>1
<1>6. \A j \in 0..d : i + j \in 1..Cardinality(S) /\ NthOf(S, i + j) = NthOf(S, i) + j
  <2>1. i \in 1..Cardinality(S) /\ d \in Nat
    BY <1>1, <1>2
  <2> HIDE DEF S
  <2> QED
    BY <1>1, <1>5, <2>1, RunInOrder
<1>7. d \in 0..d
  BY <1>2
<1>8. NumberOf(Bulk, k + d) = x + d /\ k + d \in 1..out[Bulk]
  BY <1>4, <1>7
<1>9. i + d \in 1..card /\ NthOf(S, i + d) = x + d
  BY <1>1, <1>6, <1>7
<1> QED
  BY <1>1, <1>8, <1>9

\* Of the chunks that lie behind the last one sent, with numbers that wrapped, all
\* come from the first answer, and the last of a photo is none of them.
LEMMA BehindTheLast ==
  ASSUME ContentInv, ~StaleKept, AllSentKept,
         NEW i \in 1..Len(Assembled(Bulk)), NEW d \in Nat, i + PhotoLen - 1 <= Len(Assembled(Bulk)),
         out[Bulk] # 0, NthOf(KeptSeqs(Bulk), i + d) = NumberOf(Bulk, out[Bulk]),
         NEW e \in Nat, d < e, e < PhotoLen
  PROVE  /\ origin + out[Bulk] > Modulus
         /\ Assembled(Bulk)[i + e].part # PhotoLen
<1> DEFINE S == KeptSeqs(Bulk)
           card == Len(Assembled(Bulk))
           N == out[Bulk]
<1>1. /\ S \in SUBSET Nat /\ IsFiniteSet(S) /\ card = Cardinality(S) /\ card \in Nat
      /\ \A n \in 1..card : \E q \in 1..N :
              NthOf(S, n) = NumberOf(Bulk, q) /\ Assembled(Bulk)[n] = ChunkOf(Bulk, q)
  BY StreamFacts
<1>2. /\ N \in Nat \ {0} /\ N <= Modulus /\ origin \in 0..(Modulus - 1)
      /\ Modulus \in Nat \ {0} /\ PhotoLen \in Nat \ {0}
  <2>1. N \in Nat /\ N # 0
    BY StreamBounds
  <2> QED
    BY <2>1, StreamBounds
<1>3. \A m, n \in 1..card : m < n => NthOf(S, m) < NthOf(S, n)
  BY <1>1, NthFacts
<1>4. i + d \in 1..card /\ i + e \in 1..card /\ i + d < i + e
  BY <1>1, <1>2
<1>5. PICK q \in 1..N : NthOf(S, i + e) = NumberOf(Bulk, q) /\ Assembled(Bulk)[i + e] = ChunkOf(Bulk, q)
  BY <1>1, <1>4
<1>6. NumberOf(Bulk, N) < NumberOf(Bulk, q)
  BY <1>3, <1>4, <1>5
<1>7. \A p \in 1..N :
        NumberOf(Bulk, p) = IF origin + p <= Modulus THEN origin + p - 1 ELSE origin + p - 1 - Modulus
  <2> TAKE p \in 1..N
  <2>1. p \in 1..Modulus
    BY <1>2
  <2> QED
    BY <2>1, NumberIs DEF ContentInv
<1>8. N \in 1..N /\ 1 \in 1..N
  BY <1>2
<1>t. /\ q \in Nat /\ 1 <= q /\ q <= N /\ N \in Nat /\ N <= Modulus
      /\ origin \in Nat /\ origin < Modulus /\ Modulus \in Nat
  BY <1>2
<1>s. \A j \in 1..N : NumberOf(Bulk, j) \in S
  BY SentIsKept
<1>u. \A n \in 1..card : NthOf(S, n) \in Nat
  BY <1>1, NthFacts
<1> HIDE DEF N, S, card
<1>9. origin + N > Modulus /\ NumberOf(Bulk, N) = origin + N - 1 - Modulus
  <2>1. CASE origin + N <= Modulus
    <3>1. NumberOf(Bulk, N) = origin + N - 1
      BY <1>7, <1>8, <2>1
    <3>2. origin + q <= Modulus
      BY <1>t, <2>1
    <3>3. NumberOf(Bulk, q) = origin + q - 1
      BY <1>7, <3>2
    <3>4. origin + N - 1 < origin + q - 1
      BY <1>6, <3>1, <3>3
    <3> QED
      BY <1>t, <3>4
  <2>2. CASE ~(origin + N <= Modulus)
    BY <1>t, <1>7, <1>8, <2>2
  <2> QED
    BY <2>1, <2>2
<1>10. origin + q <= Modulus /\ NumberOf(Bulk, q) = origin + q - 1
  <2>1. CASE ~(origin + q <= Modulus)
    <3>1. NumberOf(Bulk, q) = origin + q - 1 - Modulus
      BY <1>7, <2>1
    <3>2. origin + N - 1 - Modulus < origin + q - 1 - Modulus
      BY <1>6, <1>9, <3>1
    <3> QED
      BY <1>t, <3>2
  <2>2. CASE origin + q <= Modulus
    BY <1>7, <2>2
  <2> QED
    BY <2>1, <2>2
<1>11. \A j \in 0..(q - 1) : NumberOf(Bulk, j + 1) = origin + j /\ origin + j \in S
  <2> TAKE j \in 0..(q - 1)
  <2>1. j + 1 \in 1..N /\ origin + (j + 1) <= Modulus
    BY <1>t, <1>10
  <2>2. NumberOf(Bulk, j + 1) = origin + (j + 1) - 1
    BY <1>7, <2>1
  <2>3. NumberOf(Bulk, j + 1) = origin + j
    BY <1>t, <2>2
  <2> QED
    BY <1>s, <2>1, <2>3
<1>12. PICK m \in 1..card : NthOf(S, m) = origin
  <2>1. 0 \in 0..(q - 1) /\ origin + 0 = origin
    BY <1>2
  <2>2. origin \in S
    BY <1>11, <2>1
  <2> QED
    BY <1>1, <2>2, NthFacts
<1>13. i + d < m
  <2>1. NthOf(S, i + d) < NthOf(S, m)
    <3>1. NthOf(S, i + d) = origin + N - 1 - Modulus
      BY <1>9 DEF N, S
    <3> QED
      BY <1>t, <1>12, <3>1
  <2>2. m < i + d => NthOf(S, m) < NthOf(S, i + d)
    BY <1>3, <1>4
  <2>3. NthOf(S, i + d) \in Nat /\ NthOf(S, m) \in Nat
    BY <1>4, <1>u
  <2> QED
    BY <1>4, <2>1, <2>2, <2>3
<1>14. \A j \in 0..(q - 1) : m + j \in 1..card /\ NthOf(S, m + j) = origin + j
  <2>1. m \in 1..Cardinality(S) /\ q - 1 \in Nat
    BY <1>1, <1>t
  <2>2. \A j \in 0..(q - 1) : NthOf(S, m) + j \in S
    BY <1>11, <1>12
  <2>3. card = Cardinality(S)
    BY <1>1
  <2>4. \A j \in 0..(q - 1) : m + j \in 1..Cardinality(S) /\ NthOf(S, m + j) = NthOf(S, m) + j
    BY <1>1, <2>1, <2>2, RunInOrder
  <2> QED
    BY <1>12, <2>3, <2>4
<1>15. m + (q - 1) = i + e
  <2>1. q - 1 \in 0..(q - 1)
    BY <1>2
  <2>2. m + (q - 1) \in 1..card /\ NthOf(S, m + (q - 1)) = origin + (q - 1)
    BY <1>14, <2>1
  <2>3. NthOf(S, m + (q - 1)) = NthOf(S, i + e)
    <3>1. origin + (q - 1) = origin + q - 1
      BY <1>2
    <3> QED
      BY <1>5, <1>10, <2>2, <3>1
  <2>4. NthOf(S, i + e) \in Nat
    BY <1>4, <1>u
  <2>5. ~(m + (q - 1) < i + e) /\ ~(i + e < m + (q - 1))
    <3> DEFINE y == m + (q - 1)
               z == i + e
    <3>1. y \in 1..card /\ z \in 1..card /\ NthOf(S, y) = NthOf(S, z) /\ NthOf(S, z) \in Nat
      BY <1>4, <2>2, <2>3, <2>4
    <3>2. ~(y < z) /\ ~(z < y)
      <4> HIDE DEF y, z
      <4>1. (y < z => NthOf(S, y) < NthOf(S, z)) /\ (z < y => NthOf(S, z) < NthOf(S, y))
        BY <1>3, <3>1
      <4> QED
        BY <3>1, <4>1
    <3> QED
      BY <3>2
  <2> QED
    BY <1>4, <2>2, <2>5
<1>16. q \in Nat \ {0} /\ q < PhotoLen
  <2>1. q \in Nat /\ q >= 1 /\ m \in Nat /\ i \in Nat /\ e \in Nat /\ d \in Nat
    BY <1>t
  <2> QED
    BY <1>2, <1>13, <1>15, <2>1
<1>17. ChunkOf(Bulk, q).part = q
  BY <1>2, <1>16, PhotoChunks
<1> QED
  BY <1>2, <1>5, <1>9, <1>16, <1>17 DEF N

\* Whatever a record of Bulk starts with that fits, it is the photo, or the last
\* answer is not complete and the numbers wrapped before its end: then the photo's
\* last chunk is not in it.
LEMMA RecordIsWhole ==
  ASSUME ContentInv, ~StaleKept, AllSentKept, NEW i \in Headers(Assembled(Bulk))
  PROVE  \/ Record(Assembled(Bulk), i) = Whole
         \/ /\ Ends(Record(Assembled(Bulk), i)) = {}
            /\ origin + out[Bulk] > Modulus /\ out[Bulk] # Total(Bulk)
<1> DEFINE blob == Assembled(Bulk)
           S == KeptSeqs(Bulk)
           N == out[Bulk]
           L == PhotoLen
           r == Record(blob, i)
<1>1. /\ blob \in Seq(Chunks) /\ Len(blob) \in Nat
      /\ \A n \in 1..Len(blob) : \E q \in 1..N :
           NthOf(S, n) = NumberOf(Bulk, q) /\ blob[n] = ChunkOf(Bulk, q)
  BY StreamFacts
<1>2. N \in Nat /\ L \in Nat \ {0} /\ N <= Total(Bulk) /\ Total(Bulk) \in Nat /\ answers \in Nat
  BY StreamBounds
<1>3. \A q \in 1..N : /\ ChunkOf(Bulk, q) = [rec |-> Wanted, part |-> 1 + ((q - 1) % L)]
                      /\ (q - 1) % L \in 0..(L - 1)
  BY <1>2, PhotoChunks
<1>4. \A n \in 1..Len(blob) : blob[n].rec = Wanted
  BY <1>1, <1>3
<1>5. /\ i \in 1..Len(blob) /\ blob[i].part = 1 /\ i + L - 1 <= Len(blob)
      /\ r \in Seq(Chunks) /\ Len(r) = L
      /\ \A n \in 1..L : r[n] = blob[i + n - 1]
  <2>1. i \in 1..Len(blob)
    BY <1>1, RecordFacts
  <2>2. RecLen(blob[i].rec) = L
    BY <1>4, <2>1 DEF RecLen
  <2> QED
    BY <1>1, <2>2, RecordFacts
<1>6. PICK k \in 1..N : NthOf(S, i) = NumberOf(Bulk, k) /\ blob[i] = ChunkOf(Bulk, k)
  BY <1>1, <1>5
<1>7. k - 1 \in Nat /\ (k - 1) % L = 0
  <2>1. ChunkOf(Bulk, k).part = 1 + ((k - 1) % L) /\ (k - 1) % L \in 0..(L - 1)
    BY <1>3
  <2> DEFINE z == (k - 1) % L
  <2>2. 1 + z = 1 /\ z \in 0..(L - 1)
    BY <1>5, <1>6, <2>1
  <2> HIDE DEF z
  <2>3. z = 0
    BY <1>2, <2>2
  <2> QED
    BY <1>2, <2>3 DEF z
<1> DEFINE Placed(d) == /\ NthOf(S, i + d) = NumberOf(Bulk, k + d)
                        /\ blob[i + d] = [rec |-> Wanted, part |-> 1 + d]
<1>8. \A d \in 0..(L - 1) : k + d <= N => Placed(d)
  <2> SUFFICES ASSUME NEW d \in 0..(L - 1), k + d <= N
               PROVE  Placed(d)
    OBVIOUS
  <2>1. NthOf(S, i + d) = NumberOf(Bulk, k + d) /\ blob[i + d] = ChunkOf(Bulk, k + d)
    BY <1>5, <1>6, SideBySide
  <2>2. k + d \in 1..N /\ (k + d) - 1 = (k - 1) + d
    BY <1>2
  <2>3. ((k - 1) + d) % L = d
    BY <1>2, <1>7, RemainderRun
  <2>4. ChunkOf(Bulk, k + d) = [rec |-> Wanted, part |-> 1 + d]
    BY <1>3, <2>2, <2>3
  <2> QED
    BY <2>1, <2>4
<1>t. /\ k \in Nat /\ 1 <= k /\ k <= N /\ i \in Nat /\ 1 <= i
      /\ N \in 1..N
  BY <1>1, <1>2, <1>5
<1> HIDE DEF N, L, S, blob, r, Placed
<1>9. CASE k + (L - 1) <= N
  <2>1. \A n \in 1..L : r[n] = [rec |-> Wanted, part |-> n]
    <3> TAKE n \in 1..L
    <3>1. n - 1 \in 0..(L - 1) /\ k + (n - 1) <= N /\ i + (n - 1) = i + n - 1 /\ 1 + (n - 1) = n
      BY <1>2, <1>t, <1>9
    <3>2. blob[i + (n - 1)] = [rec |-> Wanted, part |-> 1 + (n - 1)]
      BY <1>8, <3>1 DEF Placed
    <3> QED
      BY <1>5, <3>1, <3>2
  <2>2. Whole \in Seq(Chunks) /\ Len(Whole) = L
        /\ \A n \in 1..L : Whole[n] = [rec |-> Wanted, part |-> n]
    <3>1. \A n \in 1..L : [rec |-> Wanted, part |-> n] \in Chunks
      <4>1. OtherLen \in Nat
        BY Numbers
      <4> TAKE n \in 1..L
      <4>2. n \in 1..(PhotoLen + OtherLen)
        BY <1>2, <4>1 DEF L
      <4> QED
        BY <4>2 DEF Chunks
    <3>2. Whole = [n \in 1..L |-> [rec |-> Wanted, part |-> n]]
      BY DEF Whole, L
    <3> QED
      BY <1>2, <3>1, <3>2
  <2>3. r \in Seq(Chunks) /\ Len(r) = Len(Whole) /\ \A n \in 1..Len(r) : r[n] = Whole[n]
    BY <1>5, <2>1, <2>2
  <2>4. r = Whole
    BY <2>2, <2>3, SeqEqual
  <2> QED
    BY <2>4 DEF r, blob
<1>10. CASE ~(k + (L - 1) <= N)
  <2> DEFINE d == N - k
  <2>1. d \in 0..(L - 1) /\ d < L - 1 /\ k + d = N
    BY <1>2, <1>t, <1>10
  <2>2. NthOf(S, i + d) = NumberOf(Bulk, N)
    <3> HIDE DEF d
    <3>1. Placed(d)
      BY <1>2, <1>t, <1>8, <2>1
    <3> QED
      BY <2>1, <3>1 DEF Placed
  <2> HIDE DEF d
  <2>3. \A e \in 0..(L - 1) : d < e => origin + N > Modulus /\ blob[i + e].part # L
    <3> SUFFICES ASSUME NEW e \in 0..(L - 1), d < e PROVE origin + N > Modulus /\ blob[i + e].part # L
      OBVIOUS
    <3>1. e \in Nat /\ e < PhotoLen /\ d \in Nat /\ out[Bulk] # 0
      BY <1>2, <1>t, <2>1 DEF L, N
    <3> QED
      BY <1>5, <2>2, <3>1, BehindTheLast DEF L, N, S, blob
  <2>4. origin + N > Modulus
    <3>1. L - 1 \in 0..(L - 1) /\ d < L - 1
      BY <1>2, <2>1
    <3> QED
      BY <2>3, <3>1
  <2>5. \A e \in 0..(L - 1) : blob[i + e].part # L
    <3> TAKE e \in 0..(L - 1)
    <3>1. CASE d < e
      BY <2>3, <3>1
    <3>2. CASE ~(d < e)
      <4>1. k + e <= N /\ 1 + e # L
        BY <1>2, <1>t, <2>1, <3>2
      <4>2. Placed(e)
        BY <1>8, <4>1
      <4>3. blob[i + e].part = 1 + e
        BY <4>2 DEF Placed
      <4> QED
        BY <4>1, <4>3
    <3> QED
      BY <3>1, <3>2
  <2>6. \A n \in 1..L : r[n].part # RecLen(r[n].rec)
    <3> TAKE n \in 1..L
    <3>1. n - 1 \in 0..(L - 1) /\ i + (n - 1) = i + n - 1 /\ i + n - 1 \in 1..Len(blob)
      BY <1>1, <1>2, <1>t, <1>5
    <3>2. r[n] = blob[i + (n - 1)] /\ r[n].rec = Wanted /\ r[n].part # L
      BY <1>4, <1>5, <2>5, <3>1
    <3> QED
      BY <3>2 DEF RecLen, L
  <2>7. Ends(r) = {}
    BY <1>5, <2>6 DEF Ends
  <2>8. N # Total(Bulk)
    <3>1. Total(Bulk) = answers * L
      BY DEF Total, L
    <3> DEFINE T == answers * L
    <3>2. ASSUME N = T PROVE FALSE
      <4>1. k - 1 < T /\ k - 1 \in Nat
        <5> HIDE DEF T
        <5> QED
          BY <1>2, <1>7, <1>t, <3>2
      <4>2. (k - 1) + L <= T
        BY <1>2, <1>7, <4>1, NoMultipleBetween
      <4> HIDE DEF T
      <4> QED
        BY <1>2, <1>t, <1>10, <3>2, <4>2
    <3> QED
      BY <3>1, <3>2
  <2> QED
    BY <2>4, <2>7, <2>8 DEF r, blob, N
<1> QED
  BY <1>9, <1>10

-----------------------------------------------------------------------------
(* The records, one behind the other.                                      *)

\* Of places with an end each, one can take the first, the first that is not
\* before its end, and so on.
LEMMA OneBehindTheOther ==
  ASSUME NEW H \in SUBSET (Nat \ {0}), NEW bound \in Nat, \A h \in H : h <= bound,
         NEW End \in [H -> Nat]
  PROVE  \E S \in SUBSET H : \A i \in H : i \in S <=> \A j \in S : j < i => End[j] <= i
<1> DEFINE UpTo(n) == {h \in H : h <= n}
           Taken(n, S) == /\ S \subseteq UpTo(n)
                          /\ \A i \in UpTo(n) : i \in S <=> \A j \in S : j < i => End[j] <= i
           Done(n) == \E S \in SUBSET H : Taken(n, S)
           Bad == {n \in 0..bound : ~Done(n)}
<1>1. \A h \in H : h \in Nat /\ h # 0 /\ End[h] \in Nat
  OBVIOUS
<1>2. \A n \in 0..bound : Done(n)
  <2> SUFFICES ASSUME Bad # {} PROVE FALSE
    <3> HIDE DEF Done
    <3> QED
      OBVIOUS
  <2>1. PICK n \in Bad : \A m \in Bad : n <= m
    <3>1. Bad \in SUBSET Nat
      OBVIOUS
    <3> HIDE DEF Bad
    <3> QED
      BY <3>1, LeastOf
  <2>2. n \in 0..bound /\ n \in Nat
    OBVIOUS
  <2>3. n # 0
    <3>1. ASSUME n = 0 PROVE Taken(n, {})
      <4>1. \A h \in H : ~(h <= n)
        BY <1>1, <3>1
      <4>2. UpTo(n) = {}
        BY <4>1
      <4> QED
        BY <4>2
    <3> QED
      BY <3>1
  <2>4. n - 1 \in 0..bound /\ n - 1 \notin Bad
    BY <2>1, <2>2, <2>3
  <2>5. PICK S \in SUBSET H : Taken(n - 1, S)
    BY <2>4
  <2> DEFINE fits == n \in H /\ \A j \in S : End[j] <= n
             T == IF fits THEN S \cup {n} ELSE S
  <2>6. \A h \in H : (h <= n <=> h <= n - 1 \/ h = n) /\ (h <= n - 1 => h < n /\ h # n)
    BY <1>1, <2>2
  <2>7. \A j \in S : j \in H /\ j <= n - 1
    BY <2>5
  <2>8. T \subseteq UpTo(n) /\ T \in SUBSET H
    BY <2>6, <2>7
  <2>9. ASSUME NEW i \in UpTo(n) PROVE i \in T <=> \A j \in T : j < i => End[j] <= i
    <3>1. CASE i = n
      <4>1. n \notin S /\ n \in H
        BY <2>6, <2>7, <3>1
      <4>2. i \in T <=> \A j \in S : End[j] <= n
        BY <3>1, <4>1
      <4>3. \A j \in S : j < n
        BY <2>6, <2>7
      <4>4. ~(n < n)
        BY <2>2
      <4> QED
        BY <3>1, <4>2, <4>3, <4>4
    <3>2. CASE i # n
      <4>1. i \in UpTo(n - 1) /\ ~(n < i)
        <5>1. i \in H /\ i \in Nat /\ i <= n - 1
          BY <1>1, <2>6, <3>2
        <5> QED
          BY <2>2, <5>1
      <4>2. i \in S <=> \A j \in S : j < i => End[j] <= i
        BY <2>5, <4>1
      <4>3. i \in T <=> i \in S
        BY <3>2
      <4>4. \A j \in T : j \in S \/ j = n
        OBVIOUS
      <4>5. S \subseteq T
        OBVIOUS
      <4> HIDE DEF T
      <4> QED
        BY <4>1, <4>2, <4>3, <4>4, <4>5
    <3> QED
      BY <3>1, <3>2
  <2>10. Taken(n, T)
    <3> HIDE DEF T
    <3> QED
      BY <2>8, <2>9
  <2> QED
    BY <2>8, <2>10
<1>0. Done(bound)
  <2>1. bound \in 0..bound
    OBVIOUS
  <2> HIDE DEF Done
  <2> QED
    BY <1>2, <2>1
<1>3. PICK S \in SUBSET H : Taken(bound, S)
  BY <1>0
<1>4. UpTo(bound) = H
  OBVIOUS
<1> QED
  BY <1>3, <1>4

\* parse_artemis_records_strict is well defined: it takes a header if no record it
\* took before reaches behind it.
LEMMA StrictFacts ==
  ASSUME NEW blob \in Seq(Chunks)
  PROVE  /\ StrictRecords(blob) \in SUBSET Headers(blob)
         /\ \A i \in Headers(blob) : i \in StrictRecords(blob) <=>
              \A j \in StrictRecords(blob) : j < i => j + RecLen(blob[j].rec) <= i
<1> DEFINE H == Headers(blob)
           End == [j \in H |-> j + RecLen(blob[j].rec)]
<1>1. H \in SUBSET (Nat \ {0}) /\ Len(blob) \in Nat /\ \A h \in H : h <= Len(blob)
  BY DEF Headers
<1>2. \A h \in H : RecLen(blob[h].rec) \in Nat
  BY Numbers DEF RecLen
<1>3. End \in [H -> Nat] /\ \A j \in H : End[j] = j + RecLen(blob[j].rec)
  BY <1>1, <1>2
<1> HIDE DEF H, End
<1>4. PICK S \in SUBSET H : \A i \in H : i \in S <=> \A j \in S : j < i => End[j] <= i
  BY <1>1, <1>3, OneBehindTheOther
<1> DEFINE Rule(T) == \A i \in H : i \in T <=> \A j \in T : j < i => j + RecLen(blob[j].rec) <= i
<1>5. Rule(S)
  BY <1>3, <1>4
<1>6. StrictRecords(blob) = CHOOSE T \in SUBSET H : Rule(T)
  BY DEF StrictRecords, H
<1> HIDE DEF Rule
<1>7. StrictRecords(blob) \in SUBSET H /\ Rule(StrictRecords(blob))
  BY <1>5, <1>6
<1> QED
  BY <1>7 DEF Rule, H

\* Where there is a header behind which enough follows, some record is found.
LEMMA SomeRecord ==
  ASSUME NEW blob \in Seq(Chunks), Headers(blob) # {}
  PROVE  StrictRecords(blob) # {}
  BY StrictFacts

-----------------------------------------------------------------------------
(* The JPEGs that are found, and the one that is written.                  *)

\* A JPEG is the beginning of its record, up to the last end of a JPEG in it.
LEMMA JpegFacts ==
  ASSUME NEW payload \in Seq(Chunks), Ends(payload) # {}
  PROVE  /\ Jpeg(payload) \in Seq(Chunks) /\ Len(Jpeg(payload)) \in Ends(payload)
         /\ \A n \in 1..Len(Jpeg(payload)) : Jpeg(payload)[n] = payload[n]
<1> DEFINE e == CHOOSE n \in Ends(payload) : \A m \in Ends(payload) : m <= n
<1>1. Ends(payload) \in SUBSET Nat /\ Len(payload) \in Nat /\ \A n \in Ends(payload) : n \in 1..Len(payload)
  BY DEF Ends
<1>2. e \in Ends(payload)
  <2>1. \A n \in Ends(payload) : n <= Len(payload)
    BY <1>1
  <2> QED
    BY <1>1, <2>1, LargestOf
<1>3. Jpeg(payload) = SubSeq(payload, 1, e)
  BY DEF Jpeg
<1> HIDE DEF e
<1>4. e \in Nat /\ 1 <= e /\ e <= Len(payload)
  BY <1>1, <1>2
<1>5. \A n \in 1..e : payload[n] \in Chunks
  BY <1>1, <1>4
<1>6. /\ Jpeg(payload) \in Seq(Chunks) /\ Len(Jpeg(payload)) = e
      /\ \A n \in 1..e : Jpeg(payload)[n] = payload[n]
  <2>1. e - 1 + 1 = e /\ \A n \in 1..e : 1 + n - 1 = n
    BY <1>4
  <2>2. 1 \in Int /\ e \in Int
    BY <1>4
  <2>3. /\ SubSeq(payload, 1, e) \in Seq(Chunks)
        /\ Len(SubSeq(payload, 1, e)) = e - 1 + 1
        /\ \A n \in 1..(e - 1 + 1) : SubSeq(payload, 1, e)[n] = payload[1 + n - 1]
    BY <1>4, <1>5, <2>2, SubSeqProperties
  <2> QED
    BY <1>3, <2>1, <2>3
<1> QED
  BY <1>2, <1>6

LEMMA WholeJpeg ==
  /\ Whole \in Seq(Chunks) /\ Len(Whole) = PhotoLen
  /\ \A n \in 1..PhotoLen : Whole[n] = [rec |-> Wanted, part |-> n]
  /\ Ends(Whole) = {PhotoLen} /\ Jpeg(Whole) = Whole
<1>1. PhotoLen \in Nat \ {0} /\ OtherLen \in Nat
  BY Numbers
<1>2. \A n \in 1..PhotoLen : [rec |-> Wanted, part |-> n] \in Chunks
  <2> TAKE n \in 1..PhotoLen
  <2>1. n \in 1..(PhotoLen + OtherLen)
    BY <1>1
  <2> QED
    BY <2>1 DEF Chunks
<1>3. /\ Whole \in Seq(Chunks) /\ Len(Whole) = PhotoLen
      /\ \A n \in 1..PhotoLen : Whole[n] = [rec |-> Wanted, part |-> n]
  BY <1>1, <1>2 DEF Whole
<1>4. Ends(Whole) = {PhotoLen}
  <2>1. \A n \in 1..PhotoLen : Whole[n].part = n /\ RecLen(Whole[n].rec) = PhotoLen
    BY <1>3 DEF RecLen
  <2>2. PhotoLen \in 1..PhotoLen
    BY <1>1
  <2> HIDE DEF Whole
  <2> QED
    BY <1>3, <2>1, <2>2 DEF Ends
<1>5. Jpeg(Whole) = Whole
  <2>1. /\ Jpeg(Whole) \in Seq(Chunks) /\ Len(Jpeg(Whole)) = PhotoLen
        /\ \A n \in 1..Len(Jpeg(Whole)) : Jpeg(Whole)[n] = Whole[n]
    BY <1>3, <1>4, JpegFacts
  <2> QED
    BY <1>3, <2>1, SeqEqual
<1> QED
  BY <1>3, <1>4, <1>5

\* What a candidate consists of.
LEMMA CandidateFacts ==
  ASSUME PacketTypes, NEW ch \in Channels, NEW c \in Extracted(ch)
  PROVE  /\ c.ch = ch /\ c.from \in Headers(Assembled(ch)) /\ c.from \in Nat
         /\ IsTarget(Record(Assembled(ch), c.from)) /\ Ends(Record(Assembled(ch), c.from)) # {}
         /\ c.jpeg = Jpeg(Record(Assembled(ch), c.from))
         /\ c.jpeg \in Seq(Chunks) /\ Len(c.jpeg) \in Nat /\ Len(c.jpeg) <= PhotoLen
<1> DEFINE blob == Assembled(ch)
<1>1. blob \in Seq(Chunks)
  BY AssembledFacts
<1>2. PICK i \in StrictRecords(blob) : /\ IsTarget(Record(blob, i)) /\ Ends(Record(blob, i)) # {}
                                       /\ c = [ch |-> ch, from |-> i, jpeg |-> Jpeg(Record(blob, i))]
  BY DEF Extracted
<1> HIDE DEF blob
<1>3. i \in Headers(blob)
  BY <1>1, StrictFacts
<1>4. /\ i \in Nat /\ Record(blob, i) \in Seq(Chunks) /\ Len(Record(blob, i)) = RecLen(blob[i].rec)
      /\ RecLen(blob[i].rec) \in Nat \ {0}
      /\ \A n \in 1..RecLen(blob[i].rec) : Record(blob, i)[n] = blob[i + n - 1]
  BY <1>1, <1>3, RecordFacts
<1>5. Len(Record(blob, i)) = PhotoLen
  <2>1. 1 \in 1..RecLen(blob[i].rec) /\ i + 1 - 1 = i
    BY <1>4
  <2>2. blob[i].rec = Wanted
    BY <1>2, <1>4, <2>1 DEF IsTarget
  <2> QED
    BY <1>4, <2>2 DEF RecLen
<1>6. Jpeg(Record(blob, i)) \in Seq(Chunks) /\ Len(Jpeg(Record(blob, i))) \in Ends(Record(blob, i))
  BY <1>2, <1>4, JpegFacts
<1>7. Len(Jpeg(Record(blob, i))) \in 1..PhotoLen
  BY <1>5, <1>6 DEF Ends
<1>8. Len(Jpeg(Record(blob, i))) \in Nat /\ Len(Jpeg(Record(blob, i))) <= PhotoLen
  BY <1>7, Numbers
<1> QED
  BY <1>2, <1>3, <1>4, <1>6, <1>8 DEF blob

\* One of the candidates is the best.
LEMMA BestIsFound ==
  ASSUME NEW found, found # {}, NEW bound \in Nat,
         \A c \in found : /\ c.ch \in Nat /\ c.from \in Nat
                          /\ Len(c.jpeg) \in Nat /\ Len(c.jpeg) <= bound
  PROVE  Best(found) \in found
<1> DEFINE Lens == {Len(c.jpeg) : c \in found}
<1>1. PICK l \in Lens : \A m \in Lens : m <= l
  <2>1. Lens \in SUBSET Nat /\ Lens # {} /\ \A m \in Lens : m <= bound
    OBVIOUS
  <2> HIDE DEF Lens
  <2> QED
    BY <2>1, LargestOf
<1> DEFINE Longest == {c \in found : Len(c.jpeg) = l}
           Chs == {c.ch : c \in Longest}
<1>2. PICK h \in Chs : \A g \in Chs : h <= g
  <2>1. Chs \in SUBSET Nat /\ Chs # {}
    BY <1>1
  <2> HIDE DEF Chs
  <2> QED
    BY <2>1, LeastOf
<1> DEFINE First == {c \in Longest : c.ch = h}
           Froms == {c.from : c \in First}
<1>3. PICK f \in Froms : \A g \in Froms : f <= g
  <2>1. Froms \in SUBSET Nat /\ Froms # {}
    BY <1>2
  <2> HIDE DEF Froms
  <2> QED
    BY <2>1, LeastOf
<1>4. PICK c \in First : c.from = f
  BY <1>3
<1>5. c \in found /\ Len(c.jpeg) = l /\ c.ch = h
  BY <1>4
<1>6. \A d \in found : Len(d.jpeg) < Len(c.jpeg) \/ (Len(d.jpeg) = Len(c.jpeg) /\ Sooner(c, d))
  <2> TAKE d \in found
  <2>1. Len(d.jpeg) <= l /\ Len(d.jpeg) \in Nat /\ l \in Nat
    BY <1>1, <1>5
  <2>2. CASE Len(d.jpeg) # l
    <3>1. Len(d.jpeg) < l
      BY <2>1, <2>2
    <3> QED
      BY <1>5, <3>1
  <2>3. CASE Len(d.jpeg) = l
    <3>1. d \in Longest /\ h <= d.ch /\ h \in Nat /\ d.ch \in Nat
      BY <1>2, <1>5, <2>3
    <3>2. CASE d.ch # h
      <4>1. c.ch < d.ch
        BY <1>5, <3>1, <3>2
      <4> QED
        BY <1>5, <2>3, <4>1 DEF Sooner
    <3>3. CASE d.ch = h
      <4>1. d \in First
        BY <3>1, <3>3
      <4>2. c.from <= d.from
        BY <1>3, <1>4, <4>1
      <4> QED
        BY <1>5, <2>3, <3>3, <4>2 DEF Sooner
    <3> QED
      BY <3>2, <3>3
  <2> QED
    BY <2>2, <2>3
<1> QED
  BY <1>5, <1>6 DEF Best

\* On Thumbs nothing of the photo comes.
LEMMA NothingOnThumbs ==
  ASSUME ContentInv
  PROVE  Extracted(Thumbs) = {}
<1> SUFFICES ASSUME NEW c \in Extracted(Thumbs) PROVE FALSE
  OBVIOUS
<1> DEFINE blob == Assembled(Thumbs)
           S == KeptSeqs(Thumbs)
<1>0. PacketTypes /\ Thumbs \in Channels
  BY DEF ContentInv, Channels
<1>1. /\ blob \in Seq(Chunks) /\ Len(blob) = Cardinality(S)
      /\ \A n \in 1..Cardinality(S) : NthOf(S, n) \in S /\ blob[n] = kept[Thumbs][NthOf(S, n)]
  BY <1>0, AssembledFacts
<1>2. c.from \in Headers(blob) /\ IsTarget(Record(blob, c.from))
  BY <1>0, CandidateFacts
<1>3. \A s \in S : kept[Thumbs][s].rec = Other
  <2> TAKE s \in S
  <2>1. s \in Seqs /\ kept[Thumbs][s] # NoSeq
    BY DEF KeptSeqs
  <2>2. Genuine(origin, out[Bulk], Thumbs, s, kept[Thumbs][s])
    BY <1>0, <2>1 DEF ContentInv
  <2> QED
    BY <2>2 DEF Genuine, Bulk, Thumbs
<1> HIDE DEF blob, S
<1>4. c.from \in 1..Len(blob) /\ c.from \in Nat /\ Record(blob, c.from)[1] = blob[c.from]
  <2>1. /\ c.from \in 1..Len(blob) /\ RecLen(blob[c.from].rec) \in Nat \ {0}
        /\ \A n \in 1..RecLen(blob[c.from].rec) : Record(blob, c.from)[n] = blob[c.from + n - 1]
    BY <1>1, <1>2, RecordFacts
  <2>2. c.from \in Nat /\ c.from + 1 - 1 = c.from /\ 1 \in 1..RecLen(blob[c.from].rec)
    BY <2>1
  <2> QED
    BY <2>1, <2>2
<1>5. blob[c.from].rec = Other
  BY <1>1, <1>3, <1>4
<1> QED
  BY <1>2, <1>4, <1>5 DEF IsTarget, Wanted, Other

\* One answer holds the photo once: if enough was kept for it, all of it was.
LEMMA EnoughIsAll ==
  ASSUME ContentInv, ~StaleKept, answers <= 1, PhotoLen <= Cardinality(KeptSeqs(Bulk))
  PROVE  AllSentKept
<1> DEFINE S == KeptSeqs(Bulk)
           N == out[Bulk]
           I == 1..N
           P == {NumberOf(Bulk, i) : i \in I}
<1>1. N \in Nat /\ N <= PhotoLen /\ PhotoLen \in Nat
  <2>1. N \in Nat /\ N <= Total(Bulk) /\ answers \in Nat /\ PhotoLen \in Nat
    BY StreamBounds
  <2>2. Total(Bulk) = answers * PhotoLen
    BY DEF Total
  <2>3. answers = 0 \/ answers = 1
    BY <2>1
  <2>4. CASE answers = 0
    <3>1. Total(Bulk) = 0
      BY <2>1, <2>2, <2>4
    <3> QED
      BY <2>1, <3>1
  <2>5. CASE answers = 1
    <3>1. Total(Bulk) = PhotoLen
      BY <2>1, <2>2, <2>5
    <3> QED
      BY <2>1, <3>1
  <2> QED
    BY <2>3, <2>4, <2>5
<1>2. S \in SUBSET P
  BY KeptIsSent
<1>3. IsFiniteSet(I) /\ Cardinality(I) = N
  <2>1. IF 1 > N THEN N = 0 ELSE N - 1 + 1 = N
    BY <1>1
  <2>2. IsFiniteSet(I) /\ Cardinality(I) = IF 1 > N THEN 0 ELSE N - 1 + 1
    <3>1. 1 \in Int /\ N \in Int
      BY <1>1
    <3> HIDE DEF N
    <3> QED
      BY <3>1, FS_Interval
  <2> QED
    BY <2>1, <2>2
<1> SUFFICES ASSUME NEW i \in I, kept[Bulk][NumberOf(Bulk, i)] = NoSeq PROVE FALSE
  BY DEF AllSentKept
<1> DEFINE J == I \ {i}
           Q == {NumberOf(Bulk, j) : j \in J}
<1>4. IsFiniteSet(J) /\ Cardinality(J) = N - 1
  BY <1>3, FS_RemoveElement
<1>5. IsFiniteSet(Q) /\ Cardinality(Q) <= Cardinality(J)
  <2> DEFINE f == [j \in J |-> NumberOf(Bulk, j)]
  <2>1. f \in [J -> Q] /\ \A q \in Q : \E j \in J : f[j] = q
    OBVIOUS
  <2> HIDE DEF f, J, Q
  <2>2. f \in Surjection(J, Q)
    BY <2>1 DEF Surjection
  <2> QED
    BY <1>4, <2>2, FS_Surjection
<1>6. S \in SUBSET Q
  <2>1. \A s \in S : s # NumberOf(Bulk, i)
    BY DEF KeptSeqs
  <2> QED
    BY <1>2, <2>1
<1>7. Cardinality(S) <= Cardinality(Q) /\ IsFiniteSet(S)
  BY <1>5, <1>6, FS_Subset
<1>8. Cardinality(S) \in Nat /\ Cardinality(Q) \in Nat
  BY <1>5, <1>7, FS_CardinalityType
<1> HIDE DEF S, Q, J, N
<1>9. PhotoLen <= Cardinality(S)
  BY DEF S
<1> QED
  BY <1>1, <1>4, <1>5, <1>7, <1>8, <1>9

\* What is cut out of a stream without left-overs is the photo.
LEMMA FoundIsWhole ==
  ASSUME ContentInv, ~StaleKept, answers <= 1 \/ AllSentKept, NEW c \in Extracted(Bulk)
  PROVE  c.jpeg = Whole
<1> DEFINE blob == Assembled(Bulk)
           r == Record(blob, c.from)
<1>0. PacketTypes /\ Bulk \in Channels
  BY DEF ContentInv, Channels
<1>1. /\ c.from \in Headers(blob) /\ IsTarget(r) /\ Ends(r) # {} /\ c.jpeg = Jpeg(r)
  BY <1>0, CandidateFacts
<1>2. AllSentKept
  <2>1. blob \in Seq(Chunks) /\ Len(blob) = Cardinality(KeptSeqs(Bulk)) /\ Len(blob) \in Nat
    BY <1>0, AssembledFacts
  <2>2. /\ c.from \in 1..Len(blob) /\ RecLen(blob[c.from].rec) \in Nat \ {0}
        /\ c.from + RecLen(blob[c.from].rec) - 1 <= Len(blob)
        /\ \A n \in 1..RecLen(blob[c.from].rec) : r[n] = blob[c.from + n - 1]
    BY <1>1, <2>1, RecordFacts
  <2>3. r[1] = blob[c.from]
    <3>1. c.from \in Nat /\ c.from + 1 - 1 = c.from /\ 1 \in 1..RecLen(blob[c.from].rec)
      BY <2>2
    <3> QED
      BY <2>2, <3>1
  <2>4. RecLen(blob[c.from].rec) = PhotoLen
    BY <1>1, <2>3 DEF IsTarget, RecLen
  <2>5. PhotoLen <= Len(blob)
    BY <2>1, <2>2, <2>4
  <2> QED
    BY <2>1, <2>5, EnoughIsAll
<1>3. r = Whole
  BY <1>1, <1>2, RecordIsWhole
<1> QED
  BY <1>1, <1>3, WholeJpeg

\* A photo that came in full is found.
LEMMA WholeIsFound ==
  ASSUME ContentInv, ~StaleKept, AllSentKept,
         out[Bulk] = Total(Bulk) \/ origin + out[Bulk] <= Modulus,
         NEW n \in 1..(out[Bulk] \div PhotoLen),
         NumberOf(Bulk, (n - 1) * PhotoLen + 1) <= NumberOf(Bulk, n * PhotoLen)
  PROVE  Extracted(Bulk) # {}
<1> DEFINE blob == Assembled(Bulk)
           S == KeptSeqs(Bulk)
           N == out[Bulk]
           L == PhotoLen
           a == (n - 1) * L
<1>1. /\ N \in Nat /\ N <= Modulus /\ origin \in 0..(Modulus - 1) /\ Modulus \in Nat \ {0}
      /\ L \in Nat \ {0}
  BY StreamBounds
<1>2. a \in Nat /\ a % L = 0 /\ n * L = a + L /\ a + L <= N
  <2>1. n - 1 \in Nat /\ n = (n - 1) + 1 /\ n \in Nat
    BY <1>1
  <2>2. a \in Nat /\ n * L = a + L
    BY <1>1, <2>1, OneMoreTimes
  <2>3. L * (N \div L) <= N /\ N \div L \in Int /\ L * (N \div L) \in Int
    <3> DEFINE q == N \div L
               t == L * q
               s == N % L
    <3>1. q \in Int /\ t \in Int /\ N = t + s /\ s \in 0..(L - 1)
      BY <1>1, Division, RemainderType
    <3> HIDE DEF t, s
    <3>2. t <= N
      BY <1>1, <3>1
    <3> QED
      BY <3>1, <3>2 DEF t
  <2>4. n * L <= N
    <3> DEFINE q == N \div L
    <3>1. q \in Nat /\ n <= q /\ L \in Nat
      BY <1>1, <2>1, <2>3
    <3> HIDE DEF q, N, L
    <3>2. n * L <= q * L
      BY <2>1, <3>1, TimesMonotone
    <3>3. q * L = L * q /\ q * L \in Nat /\ n * L \in Nat
      BY <2>1, <3>1
    <3>4. L * q <= N
      BY <2>3 DEF q
    <3>5. N \in Nat
      BY <1>1
    <3> QED
      BY <3>2, <3>3, <3>4, <3>5
  <2>5. a % L = 0
    <3> DEFINE q == a \div L
               s == a % L
    <3>1. s = 0
      BY <1>1, <2>1, RemainderOfTimes
    <3> QED
      BY <3>1
  <2> QED
    BY <2>2, <2>4, <2>5
<1>3. \A p \in 1..N :
        NumberOf(Bulk, p) = IF origin + p <= Modulus THEN origin + p - 1 ELSE origin + p - 1 - Modulus
  <2> TAKE p \in 1..N
  <2>1. p \in 1..Modulus
    BY <1>1
  <2> QED
    BY <2>1, NumberIs DEF ContentInv
<1>4. NumberOf(Bulk, a + 1) <= NumberOf(Bulk, a + L)
  BY <1>2
<1>5. /\ S \in SUBSET Nat /\ IsFiniteSet(S) /\ blob \in Seq(Chunks)
      /\ Len(blob) = Cardinality(S) /\ Len(blob) \in Nat
      /\ \A p \in 1..Len(blob), q \in 1..N :
           NthOf(S, p) = NumberOf(Bulk, q) => blob[p] = ChunkOf(Bulk, q)
      /\ \A s \in S : \E p \in 1..Len(blob) : NthOf(S, p) = s
  BY StreamFacts, NthFacts
<1>s. \A q \in 1..N : NumberOf(Bulk, q) \in S
  BY SentIsKept
<1>t. out[Bulk] = Total(Bulk) \/ origin + N <= Modulus
  OBVIOUS
<1> HIDE DEF N, S, blob, a, L
<1> DEFINE x == NumberOf(Bulk, a + 1)
<1>6. \A j \in 0..(L - 1) : (a + 1) + j \in 1..N /\ NumberOf(Bulk, (a + 1) + j) = x + j
  <2> TAKE j \in 0..(L - 1)
  <2>1. a + 1 \in 1..N /\ a + L \in 1..N /\ (a + 1) + j \in 1..N
    BY <1>1, <1>2
  <2>2. CASE origin + (a + 1) <= Modulus
    <3>1. x = origin + (a + 1) - 1
      BY <1>3, <2>1, <2>2
    <3>2. origin + (a + L) <= Modulus
      <4>1. CASE ~(origin + (a + L) <= Modulus)
        <5>1. NumberOf(Bulk, a + L) = origin + (a + L) - 1 - Modulus
          BY <1>3, <2>1, <4>1
        <5>2. origin + (a + 1) - 1 <= origin + (a + L) - 1 - Modulus
          BY <1>4, <3>1, <5>1
        <5> QED
          BY <1>1, <1>2, <5>2
      <4> QED
        BY <4>1
    <3>3. origin + ((a + 1) + j) <= Modulus
      BY <1>1, <1>2, <3>2
    <3>4. NumberOf(Bulk, (a + 1) + j) = origin + ((a + 1) + j) - 1
      BY <1>3, <2>1, <3>3
    <3>5. origin + ((a + 1) + j) - 1 = (origin + (a + 1) - 1) + j
      BY <1>1, <1>2
    <3> QED
      BY <2>1, <3>1, <3>4, <3>5
  <2>3. CASE ~(origin + (a + 1) <= Modulus)
    <3>1. x = origin + (a + 1) - 1 - Modulus
      BY <1>3, <2>1, <2>3
    <3>3. ~(origin + ((a + 1) + j) <= Modulus)
      BY <1>1, <1>2, <2>3
    <3>4. NumberOf(Bulk, (a + 1) + j) = origin + ((a + 1) + j) - 1 - Modulus
      BY <1>3, <2>1, <3>3
    <3>5. origin + ((a + 1) + j) - 1 - Modulus = (origin + (a + 1) - 1 - Modulus) + j
      BY <1>1, <1>2
    <3> QED
      BY <2>1, <3>1, <3>4, <3>5
  <2> QED
    BY <2>2, <2>3
<1>7. a + 1 \in 1..N /\ x \in S
  BY <1>1, <1>2, <1>s
<1>8. PICK i \in 1..Len(blob) : NthOf(S, i) = x
  BY <1>5, <1>7
<1>9. i + L - 1 <= Len(blob)
  <2>1. \A j \in 0..(L - 1) : NthOf(S, i) + j \in S
    <3> HIDE DEF x
    <3> QED
      BY <1>6, <1>8, <1>s
  <2>2. i \in 1..Cardinality(S) /\ L - 1 \in Nat
    BY <1>1, <1>5
  <2>3. \A j \in 0..(L - 1) : i + j \in 1..Cardinality(S)
    BY <1>5, <2>1, <2>2, RunInOrder
  <2>4. L - 1 \in 0..(L - 1)
    BY <1>1
  <2>5. i + (L - 1) \in 1..Cardinality(S)
    BY <2>3, <2>4
  <2> QED
    BY <1>1, <1>5, <2>5
<1>10. i \in Headers(blob)
  <2>1. blob[i] = ChunkOf(Bulk, a + 1)
    BY <1>5, <1>7, <1>8
  <2>2. a + 1 \in Nat \ {0} /\ (a + 1) - 1 = a
    BY <1>2
  <2>3. ChunkOf(Bulk, a + 1) = [rec |-> Wanted, part |-> 1 + (a % L)]
    BY <2>2, PhotoChunks DEF L
  <2>4. 1 + (a % L) = 1
    BY <1>2
  <2>5. blob[i].part = 1 /\ blob[i].rec = Wanted
    BY <2>1, <2>3, <2>4
  <2>6. RecLen(blob[i].rec) = L
    BY <2>5 DEF RecLen, L
  <2>7. i + RecLen(blob[i].rec) - 1 <= Len(blob)
    BY <1>9, <2>6
  <2> QED
    BY <2>5, <2>7 DEF Headers, Fits
<1>11. PICK j \in StrictRecords(blob) : TRUE
  BY <1>5, <1>10, SomeRecord
<1>12. j \in Headers(blob)
  BY <1>5, StrictFacts
<1>13. Record(blob, j) = Whole
  <2>1. ~(origin + N > Modulus /\ out[Bulk] # Total(Bulk))
    BY <1>1, <1>t
  <2> QED
    BY <1>12, <2>1, RecordIsWhole DEF blob, N
<1>14. IsTarget(Whole) /\ Ends(Whole) # {}
  <2>1. 1 \in 1..PhotoLen
    BY Numbers
  <2> QED
    BY <2>1, WholeJpeg DEF IsTarget
<1>15. [ch |-> Bulk, from |-> j, jpeg |-> Jpeg(Record(blob, j))] \in Extracted(Bulk)
  BY <1>13, <1>14 DEF Extracted, blob
<1> QED
  BY <1>15

-----------------------------------------------------------------------------
(* The photo that is written.                                              *)

PhotoInv ==
    /\ ContentInv
    /\ photo \in Seq(Chunks)
    /\ WholeOrNothing
    /\ ReceivedIsWritten

LEMMA PhotoInit == ASSUME Init PROVE PhotoInv
<1>1. at = "listening" /\ photo = <<>>
  BY DEF Init
<1>2. photo \in Seq(Chunks)
  BY <1>1
<1>3. WholeOrNothing
  BY <1>1 DEF WholeOrNothing
<1>4. ReceivedIsWritten
  BY <1>1 DEF ReceivedIsWritten
<1> QED
  BY <1>2, <1>3, <1>4, ContentInit DEF PhotoInv

\* The end of the flow.
LEMMA PhotoFinish ==
  ASSUME ContentInv, Finish
  PROVE  /\ photo' \in Seq(Chunks)
         /\ at' = "written" => photo' = Whole \/ StaleKept \/ (answers > 1 /\ ~AllSentKept)
         /\ ReceivedIsWritten'
<1> DEFINE found == Extracted(Bulk) \cup Extracted(Thumbs)
<1>0. PacketTypes /\ Bulk \in Channels /\ Thumbs \in Channels
  BY DEF ContentInv, Channels
<1>1. /\ photo' = IF found = {} THEN <<>> ELSE Best(found).jpeg
      /\ at' = IF found = {} THEN "failed" ELSE "written"
      /\ UNCHANGED <<origin, out, answers, kept>>
  BY DEF Finish, cameraVars
<1>2. found = Extracted(Bulk)
  BY NothingOnThumbs
<1>3. \A c \in found : /\ c.ch \in Nat /\ c.from \in Nat /\ c.jpeg \in Seq(Chunks)
                       /\ Len(c.jpeg) \in Nat /\ Len(c.jpeg) <= PhotoLen
  <2>1. Bulk \in Nat
    BY DEF Bulk
  <2> QED
    BY <1>0, <1>2, <2>1, CandidateFacts
<1>4. found # {} => Best(found) \in found
  <2>1. PhotoLen \in Nat
    BY Numbers
  <2> HIDE DEF found
  <2> QED
    BY <1>3, <2>1, BestIsFound
<1> HIDE DEF found
<1>5. photo' \in Seq(Chunks)
  BY <1>1, <1>3, <1>4
<1>6. ASSUME at' = "written", ~StaleKept, answers <= 1 \/ AllSentKept PROVE photo' = Whole
  <2>1. found # {} /\ photo' = Best(found).jpeg
    BY <1>1, <1>6
  <2>2. Best(found) \in Extracted(Bulk)
    BY <1>2, <1>4, <2>1
  <2> QED
    BY <1>6, <2>1, <2>2, FoundIsWhole
<1>7. answers > 1 \/ answers <= 1
  BY <1>0 DEF PacketTypes, Answered
<1>8. ReceivedIsWritten'
  <2> DEFINE Came == AllSentKept /\ ~StaleKept /\ (out[Bulk] = Total(Bulk) \/ origin + out[Bulk] <= Modulus)
             NoWrap(n) == NumberOf(Bulk, (n - 1) * PhotoLen + 1) <= NumberOf(Bulk, n * PhotoLen)
  <2>1. ASSUME Came, NEW n \in 1..(out[Bulk] \div PhotoLen), NoWrap(n) PROVE at' = "written"
    <3>1. Extracted(Bulk) # {}
      BY <2>1, WholeIsFound
    <3> QED
      BY <1>1, <1>2, <3>1
  <2>2. Came' = Came /\ \A n : NoWrap(n)' = NoWrap(n)
    BY <1>1 DEF AllSentKept, StaleKept, Total, NumberOf
  <2>3. ReceivedIsWritten' = (at' # "listening" /\ Came' =>
          \A n \in 1..(out'[Bulk] \div PhotoLen) : NoWrap(n)' => at' = "written")
    BY DEF ReceivedIsWritten
  <2> HIDE DEF Came, NoWrap
  <2> QED
    BY <1>1, <2>1, <2>2, <2>3
<1> QED
  BY <1>5, <1>6, <1>7, <1>8

\* What is sent once the flow is over is not kept any more.
LEMMA TooLate ==
  ASSUME ContentInv, ~StaleKept, Send(Bulk)
  PROVE  kept[Bulk][NumberOf(Bulk, out[Bulk] + 1)] = NoSeq
<1> SUFFICES ASSUME kept[Bulk][NumberOf(Bulk, out[Bulk] + 1)] # NoSeq PROVE FALSE
  OBVIOUS
<1> DEFINE N == out[Bulk]
<1>1. N \in Nat /\ Total(Bulk) \in Nat /\ Total(Bulk) <= Modulus /\ Modulus \in Nat
  BY StreamBounds
<1>2. N < Total(Bulk)
  BY DEF Send
<1>3. N + 1 \in 1..Total(Bulk) /\ N + 1 \in 1..Modulus /\ \A i \in 1..N : i \in 1..Modulus /\ i # N + 1
  <2> HIDE DEF N, Total
  <2> QED
    BY <1>1, <1>2
<1>4. NumberOf(Bulk, N + 1) \in KeptSeqs(Bulk)
  <2>1. Bulk \in Channels /\ origin \in Starts /\ answers \in Nat
    BY DEF Channels, ContentInv, PacketTypes, Answered
  <2>2. NumberOf(Bulk, N + 1) \in Seqs
    BY <1>3, <2>1, NumberOfType
  <2> QED
    BY <2>2 DEF KeptSeqs
<1>5. PICK i \in 1..N : NumberOf(Bulk, N + 1) = NumberOf(Bulk, i)
  BY <1>4, KeptIsSent
<1>6. i = N + 1
  BY <1>3, <1>5, NumbersDiffer DEF ContentInv
<1> QED
  BY <1>3, <1>6

\* Once the flow is over, nothing it leaves changes.
LEMMA PhotoAfter ==
  ASSUME PhotoInv, [Next]_vars, at # "listening"
  PROVE  photo' \in Seq(Chunks) /\ WholeOrNothing' /\ ReceivedIsWritten'
<1>0. ContentInv /\ PacketTypes
  BY DEF PhotoInv, ContentInv
<1>1. UNCHANGED <<origin, kept, photo, at>>
  BY DEF Next, Answer, Lose, Resend, ReceiveReply, Send, Idle, SendAgain, Receive, StopEarly,
         Deadline, Finished, vars, cameraVars, clientVars
<1>2. \/ out' = out /\ (answers' = answers \/ answers' = answers + 1)
      \/ Send(Bulk)
      \/ Send(Thumbs)
  BY DEF Next, Answer, Lose, Resend, ReceiveReply, Idle, SendAgain, Receive, StopEarly,
         Deadline, Finished, vars, cameraVars, clientVars, Channels
<1>3. /\ out[Bulk] \in Nat /\ out \in [Channels -> Nat] /\ Bulk \in Channels
      /\ PhotoLen \in Nat \ {0} /\ Total(Bulk) \in Nat /\ out[Bulk] <= Total(Bulk)
      /\ answers \in Nat /\ Total(Bulk) = answers * PhotoLen
  <2>1. Total(Bulk) = answers * PhotoLen
    BY DEF Total
  <2> QED
    BY <1>0, <2>1, StreamBounds DEF PacketTypes, Channels
<1> DEFINE Number(i) == NumberFrom(origin, i)
           Kept(i) == kept[Bulk][Number(i)] # NoSeq
           NoWrap(n) == Number((n - 1) * PhotoLen + 1) <= Number(n * PhotoLen)
           n0 == out[Bulk]
           n1 == out'[Bulk]
<1>4. /\ \A i : NumberOf(Bulk, i) = Number(i)
      /\ AllSentKept = (\A i \in 1..n0 : Kept(i)) /\ AllSentKept' = (\A i \in 1..n1 : Kept(i))
      /\ StaleKept' = StaleKept
      /\ ReceivedIsWritten = (at # "listening" /\ AllSentKept /\ ~StaleKept
           /\ (n0 = Total(Bulk) \/ origin + n0 <= Modulus) =>
             \A n \in 1..(n0 \div PhotoLen) : NoWrap(n) => at = "written")
      /\ ReceivedIsWritten' = (at # "listening" /\ AllSentKept' /\ ~StaleKept
           /\ (n1 = Total(Bulk)' \/ origin + n1 <= Modulus) =>
             \A n \in 1..(n1 \div PhotoLen) : NoWrap(n) => at = "written")
  BY <1>1 DEF AllSentKept, StaleKept, ReceivedIsWritten, NumberOf, NumberFrom
<1>5. /\ WholeOrNothing = (at = "written" => photo = Whole \/ StaleKept \/ (answers > 1 /\ ~AllSentKept))
      /\ WholeOrNothing' = (at = "written" => photo = Whole \/ StaleKept \/ (answers' > 1 /\ ~AllSentKept'))
  BY <1>1, <1>4 DEF WholeOrNothing, Whole
<1>6. WholeOrNothing /\ ReceivedIsWritten /\ photo \in Seq(Chunks)
  BY DEF PhotoInv
<1>b. Bulk # Thumbs
  BY DEF Bulk, Thumbs
<1>7. n1 \in Nat /\ n0 <= n1 /\ (answers' = answers \/ answers' = answers + 1)
  <2>1. answers' = answers \/ answers' = answers + 1
    BY <1>2 DEF Send
  <2>2. CASE out' = out
    BY <1>3, <2>1, <2>2
  <2>3. CASE Send(Bulk)
    <3>1. n1 = n0 + 1
      BY <1>3, <2>3 DEF Send
    <3> HIDE DEF n0, n1
    <3>2. n0 \in Nat
      BY <1>3 DEF n0
    <3> QED
      BY <2>1, <3>1, <3>2
  <2>4. CASE Send(Thumbs)
    <3>1. n1 = n0
      BY <1>3, <1>b, <2>4 DEF Send
    <3> QED
      BY <1>3, <2>1, <3>1
  <2> QED
    BY <1>2, <2>2, <2>3, <2>4
<1>8. WholeOrNothing'
  <2>1. ~AllSentKept => ~AllSentKept'
    <3> HIDE DEF Kept, n0, n1
    <3>1. n0 \in Nat
      BY <1>3 DEF n0
    <3>2. \A i \in 1..n0 : i \in 1..n1
      BY <1>7, <3>1
    <3> QED
      BY <1>4, <3>2
  <2>2. answers > 1 => answers' > 1
    BY <1>3, <1>7
  <2> QED
    BY <1>5, <1>6, <2>1, <2>2
<1>9. ReceivedIsWritten'
  <2>1. CASE Send(Bulk)
    <3>1. ~StaleKept => kept[Bulk][NumberOf(Bulk, n0 + 1)] = NoSeq
      BY <1>0, <2>1, TooLate
    <3>2. n1 = n0 + 1
      BY <1>3, <2>1 DEF Send
    <3>3. n1 \in 1..n1
      BY <1>3, <3>2
    <3>4. ~StaleKept => ~AllSentKept'
      BY <1>4, <3>1, <3>2, <3>3
    <3> QED
      BY <1>4, <3>4
  <2>2. CASE n1 = n0
    <3>1. n1 = Total(Bulk)' => n0 = Total(Bulk)
      <4>1. CASE answers' = answers
        BY <2>2, <4>1 DEF Total
      <4>2. CASE answers' = answers + 1
        <5>1. Total(Bulk)' = Total(Bulk) + PhotoLen
          BY <1>3, <4>2, TotalGrows DEF Total
        <5> DEFINE t == Total(Bulk)
                   u == Total(Bulk)'
        <5>2. t \in Nat /\ n0 \in Nat /\ n0 <= t /\ u = t + PhotoLen /\ PhotoLen \in Nat \ {0}
          BY <1>3, <5>1
        <5> HIDE DEF t, u, n0
        <5>3. n0 # u
          BY <5>2
        <5> QED
          BY <2>2, <5>3 DEF u
      <4> QED
        BY <1>7, <4>1, <4>2
    <3> HIDE DEF NoWrap, Kept
    <3> QED
      BY <1>4, <1>6, <2>2, <3>1
  <2>3. n1 = n0 \/ Send(Bulk)
    <3>1. CASE Send(Thumbs)
      BY <1>3, <1>b, <3>1 DEF Send
    <3> QED
      BY <1>2, <3>1
  <2> QED
    BY <2>1, <2>2, <2>3
<1> QED
  BY <1>1, <1>6, <1>8, <1>9

LEMMA PhotoStep == ASSUME PhotoInv, [Next]_vars PROVE PhotoInv'
<1>0. ContentInv /\ ContentInv' /\ photo \in Seq(Chunks)
  BY ContentStep DEF PhotoInv
<1>1. CASE at # "listening"
  BY <1>0, <1>1, PhotoAfter DEF PhotoInv
<1>2. CASE at = "listening" /\ Finish
  <2>1. /\ photo' \in Seq(Chunks)
        /\ at' = "written" => photo' = Whole \/ StaleKept \/ (answers > 1 /\ ~AllSentKept)
        /\ ReceivedIsWritten'
    BY <1>0, <1>2, PhotoFinish
  <2>2. UNCHANGED <<origin, out, answers, kept>>
    BY <1>2 DEF Finish, cameraVars
  <2>3. StaleKept' = StaleKept /\ AllSentKept' = AllSentKept
    BY <2>2 DEF StaleKept, AllSentKept, NumberOf
  <2>4. WholeOrNothing'
    BY <2>1, <2>2, <2>3 DEF WholeOrNothing, Whole
  <2> QED
    BY <1>0, <2>1, <2>4 DEF PhotoInv
<1>3. CASE at = "listening" /\ UNCHANGED <<at, photo>>
  <2>1. WholeOrNothing' /\ ReceivedIsWritten'
    BY <1>3 DEF WholeOrNothing, ReceivedIsWritten
  <2> QED
    BY <1>0, <1>3, <2>1 DEF PhotoInv
<1>4. Finish \/ UNCHANGED <<at, photo>>
  BY DEF Next, Answer, Lose, Resend, ReceiveReply, Send, Idle, SendAgain, Receive, StopEarly,
         Deadline, Finished, vars, clientVars
<1> QED
  BY <1>1, <1>2, <1>3, <1>4

LEMMA PhotoTypes == ASSUME PhotoInv PROVE TypeOK
<1>1. PacketTypes /\ photo \in Seq(Chunks)
  BY DEF PhotoInv, ContentInv
<1>2. asks \in 0..MaxRequests /\ answers \in 0..MaxRequests
  BY <1>1, Numbers DEF PacketTypes, Answered
<1> QED
  BY <1>1, <1>2 DEF TypeOK, PacketTypes, Answered

\* The type invariant: what the client keeps are numbers and chunks of the photo,
\* and it has no more answers than it asked for.
THEOREM PhotoTyped ==
  Spec => []TypeOK
  BY PhotoInit, PhotoStep, PhotoTypes, PTL DEF Spec

\* What the flow writes for a photo of any length is that photo from its first to
\* its last chunk, in order and without a hole, however packets were lost,
\* repeated, reordered or wrapped and whatever the other channel carried, except
\* with a left-over chunk on Bulk, or after a second answer that is not kept in full.
THEOREM WholeOrNothingWritten ==
  Spec => []WholeOrNothing
<1>1. PhotoInv => WholeOrNothing
  BY DEF PhotoInv
<1> QED
  BY <1>1, PhotoInit, PhotoStep, PTL DEF Spec

\* A photo all of whose chunks were kept is written, unless its numbers wrapped
\* inside it, or wrapped and the last answer had not been sent to its end.
THEOREM CompleteIsWritten ==
  Spec => []ReceivedIsWritten
<1>1. PhotoInv => ReceivedIsWritten
  BY DEF PhotoInv
<1> QED
  BY <1>1, PhotoInit, PhotoStep, PTL DEF Spec
=============================================================================
