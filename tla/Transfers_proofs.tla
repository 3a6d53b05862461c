------------------------ MODULE Transfers_proofs ------------------------
(***************************************************************************)
(* Proofs about VideoTransfer, for a video of any length, sequence numbers *)
(* of any width and any loss, repetition, reordering and left-over packet, *)
(* and about ControlChannel, for any number of transfers and commands.     *)
(* What is needed of the parameters is in the theorems: an acknowledgement *)
(* at least every Window packets, and a video of at most SeqMod - Span     *)
(* chunks (45536 with the code's 2^16 and 20000).                          *)
(***************************************************************************)
EXTENDS MCTransfers, TLAPS, FiniteSetTheorems

-----------------------------------------------------------------------------
(* Sequence numbers.                                                       *)

\* Both operators on sequence numbers return one.
LEMMA SeqOfType ==
  ASSUME start \in Seqs, NEW i \in 1..NChunks
  PROVE  SeqOf(i) \in Seqs
  BY ConstantsAssumption DEF Seqs, SeqOf, Wrap

LEMMA DeltaType ==
  ASSUME NEW a \in Seqs, NEW s \in Seqs
  PROVE  Delta(a, s) \in Seqs /\ Delta(a, a) = 0
  BY ConstantsAssumption DEF Seqs, Delta, Wrap

\* No two chunks of a video have the same number.
LEMMA SeqOfInjective ==
  ASSUME start \in Seqs, NEW i \in 1..NChunks, NEW j \in 1..NChunks, SeqOf(i) = SeqOf(j)
  PROVE  i = j
  BY ConstantsAssumption DEF Seqs, SeqOf, Wrap

\* Two chunks that both lie within Span of the anchor lie in the order in which
\* they were sent, if the video is too short to go round to the anchor again.
LEMMA NearMeansOrdered ==
  ASSUME start \in Seqs, NEW a \in Seqs, NChunks <= SeqMod - Span,
         NEW i \in 1..NChunks, NEW j \in 1..NChunks, i < j,
         Delta(a, SeqOf(i)) <= Span, Delta(a, SeqOf(j)) <= Span
  PROVE  Delta(a, SeqOf(i)) < Delta(a, SeqOf(j))
  BY ConstantsAssumption DEF Seqs, SeqOf, Delta, Wrap

-----------------------------------------------------------------------------
(* The types of what a packet touches.                                     *)

PacketTypes ==
    /\ start \in Seqs
    /\ sent \in 0..NChunks
    /\ packets \subseteq [seq : Seqs, payload : Payloads]
    /\ anchor \in Seqs \cup {NoSeq}
    /\ chunks \in [Seqs -> Payloads \cup {NoSeq}]
    /\ ackWin \in Seq(Seqs)
    /\ Len(ackWin) <= Window
    /\ ackPending \in 0..(AckEvery - 1)
    /\ acked \subseteq Seqs
    /\ pc \in {"receive", "written", "failed"}

\* What one received packet does to the window: it comes last, and only the
\* oldest number of a full window goes.
LEMMA SlideFacts ==
  ASSUME ackWin \in Seq(Seqs), Len(ackWin) <= Window, NEW s \in Seqs, Slide(s)
  PROVE  /\ ackWin' \in Seq(Seqs)
         /\ Len(ackWin') <= Window
         /\ Len(ackWin') >= 1
         /\ ackWin'[Len(ackWin')] = s
         /\ \/ /\ Len(ackWin') = Len(ackWin) + 1
               /\ \A i \in 1..Len(ackWin) : ackWin'[i] = ackWin[i]
            \/ /\ Len(ackWin) = Window
               /\ Len(ackWin') = Len(ackWin)
               /\ \A i \in 2..Len(ackWin) : ackWin'[i - 1] = ackWin[i]
<1>1. CASE Len(ackWin) < Window
  BY <1>1, ConstantsAssumption DEF Slide
<1>2. CASE Len(ackWin) = Window
  <2>1. ackWin' = Append(Tail(ackWin), s)
    BY <1>2, ConstantsAssumption DEF Slide
  <2>2. /\ Tail(ackWin) \in Seq(Seqs)
        /\ Len(Tail(ackWin)) = Len(ackWin) - 1
        /\ \A i \in 1..(Len(ackWin) - 1) : Tail(ackWin)[i] = ackWin[i + 1]
    BY <1>2, ConstantsAssumption
  <2> QED
    BY <1>2, <2>1, <2>2, ConstantsAssumption
<1> QED
  BY <1>1, <1>2, ConstantsAssumption

\* Nothing else enters the window.
LEMMA SlideIntoWindow ==
  ASSUME ackWin \in Seq(Seqs), Len(ackWin) <= Window, NEW s \in Seqs, Slide(s)
  PROVE  InWindow' \subseteq InWindow \cup {s}
<1> DEFINE n == Len(ackWin)
           m == Len(ackWin')
<1>1. /\ m >= 1 /\ ackWin'[m] = s
      /\ \/ m = n + 1 /\ \A i \in 1..n : ackWin'[i] = ackWin[i]
         \/ m = n /\ \A i \in 2..n : ackWin'[i - 1] = ackWin[i]
  BY SlideFacts
<1>2. n \in Nat /\ m \in Nat
  BY SlideFacts
<1> HIDE DEF n, m
<1>3. \A j \in 1..m : ackWin'[j] \in {ackWin[i] : i \in 1..n} \cup {s}
  <2> TAKE j \in 1..m
  <2>1. CASE j = m
    BY <2>1, <1>1
  <2>2. CASE j # m /\ m = n + 1 /\ \A i \in 1..n : ackWin'[i] = ackWin[i]
    <3>1. j \in 1..n /\ ackWin'[j] = ackWin[j]
      BY <2>2, <1>2
    <3> QED
      BY <3>1
  <2>3. CASE j # m /\ m = n /\ \A i \in 2..n : ackWin'[i - 1] = ackWin[i]
    <3>1. j + 1 \in 2..n /\ ackWin'[(j + 1) - 1] = ackWin[j + 1] /\ (j + 1) - 1 = j
      BY <2>3, <1>2
    <3>2. j + 1 \in 1..n
      BY <3>1, <1>2
    <3> QED
      BY <3>1, <3>2
  <2> QED
    BY <1>1, <2>1, <2>2, <2>3
<1> QED
  BY <1>3 DEF InWindow, n, m

LEMMA PacketTypesInit == Init => PacketTypes
  BY ConstantsAssumption DEF Init, PacketTypes, Seqs, Payloads, LeftOver

LEMMA PacketTypesStep == PacketTypes /\ [Next]_vars => PacketTypes'
<1> SUFFICES ASSUME PacketTypes, [Next]_vars PROVE PacketTypes'
  OBVIOUS
<1> USE ConstantsAssumption DEF PacketTypes
<1>1. CASE Send
  <2>1. Packet(sent + 1) \in [seq : Seqs, payload : Payloads]
    BY <1>1, SeqOfType DEF Send, Packet, Payloads
  <2> QED
    BY <1>1, <2>1 DEF Send, clientVars
<1>2. ASSUME NEW i \in 1..NChunks, SendAgain(i) PROVE PacketTypes'
  <2>1. Packet(i) \in [seq : Seqs, payload : Payloads]
    BY <1>2, SeqOfType DEF Packet, Payloads
  <2> QED
    BY <1>2, <2>1 DEF SendAgain, clientVars
<1>3. ASSUME NEW p \in packets, Lose(p) PROVE PacketTypes'
  BY <1>3 DEF Lose, cameraVars, clientVars
<1>4. ASSUME NEW p \in packets, DropOutlier(p) PROVE PacketTypes'
  BY <1>4 DEF DropOutlier, Sees, cameraVars, clientVars
<1>5. ASSUME NEW p \in packets, Receive(p) PROVE PacketTypes'
  <2>1. p.seq \in Seqs /\ p.payload \in Payloads
    OBVIOUS
  <2>2. ackWin' \in Seq(Seqs) /\ Len(ackWin') <= Window
    BY <1>5, <2>1, SlideFacts DEF Receive
  <2>3. InWindow' \subseteq Seqs
    BY <2>2 DEF InWindow
  <2>4. acked' \subseteq Seqs /\ ackPending' \in 0..(AckEvery - 1)
    BY <1>5, <2>3 DEF Receive, Acknowledge
  <2>5. chunks' \in [Seqs -> Payloads \cup {NoSeq}] /\ anchor' \in Seqs \cup {NoSeq}
    BY <1>5, <2>1 DEF Receive
  <2> QED
    BY <1>5, <2>2, <2>4, <2>5 DEF Receive, Sees, cameraVars
<1>6. CASE Finish
  <2>1. InWindow \subseteq Seqs
    BY DEF InWindow
  <2> QED
    BY <1>6, <2>1 DEF Finish, Flush, cameraVars, networkVars
<1>7. CASE UNCHANGED vars
  BY <1>7 DEF vars, cameraVars, networkVars, clientVars
<1> QED
  BY <1>1, <1>2, <1>3, <1>4, <1>5, <1>6, <1>7 DEF Next, Finished

-----------------------------------------------------------------------------
(* Acknowledgements.                                                       *)

\* The numbers received since the last acknowledgement: the last ackPending ones
\* of the window.
Unacknowledged ==
    {ackWin[i] : i \in (Len(ackWin) - ackPending + 1)..Len(ackWin)}

\* The inductive invariant about acknowledgements.
AckInv ==
    /\ PacketTypes
    /\ InWindow \subseteq Kept
    /\ acked \subseteq Kept
    /\ ackPending <= Len(ackWin)
    /\ Kept \subseteq acked \cup Unacknowledged
    /\ pc # "receive" => Kept \subseteq acked

\* A received number joins the numbers kept, and none of them goes.
LEMMA KeptGrows ==
  ASSUME PacketTypes, NEW p \in packets, Receive(p)
  PROVE  Kept' = Kept \cup {p.seq}
<1>1. p.seq \in Seqs /\ p.payload # NoSeq
  BY ConstantsAssumption DEF PacketTypes, Payloads, LeftOver
<1>2. chunks' = IF chunks[p.seq] = NoSeq THEN [chunks EXCEPT ![p.seq] = p.payload] ELSE chunks
  BY DEF Receive
<1> QED
  BY <1>1, <1>2 DEF Kept, PacketTypes

LEMMA AckStep ==
  ASSUME AckEvery <= Window, AckInv, [Next]_vars
  PROVE  AckInv'
<1>0. PacketTypes'
  BY PacketTypesStep DEF AckInv
<1>1. ASSUME NEW p \in packets, Receive(p) PROVE AckInv'
  <2>1. PacketTypes /\ pc = "receive" /\ pc' = pc /\ p.seq \in Seqs
    BY <1>1 DEF AckInv, Receive, Sees, PacketTypes
  <2>2. Kept' = Kept \cup {p.seq}
    BY <1>1, <2>1, KeptGrows
  <2> DEFINE n == Len(ackWin)
             m == Len(ackWin')
  <2>3. /\ ackWin' \in Seq(Seqs) /\ m <= Window /\ m >= 1 /\ ackWin'[m] = p.seq
        /\ \/ m = n + 1 /\ \A i \in 1..n : ackWin'[i] = ackWin[i]
           \/ n = Window /\ m = n /\ \A i \in 2..n : ackWin'[i - 1] = ackWin[i]
    BY <1>1, <2>1, SlideFacts DEF Receive, PacketTypes
  <2>4. n \in Nat /\ m \in Nat /\ ackPending \in Nat /\ Window \in Nat /\ AckEvery \in Nat
    BY <2>1, <2>3, ConstantsAssumption DEF PacketTypes
  <2>5. InWindow' \subseteq InWindow \cup {p.seq}
    BY <1>1, <2>1, SlideIntoWindow DEF Receive, PacketTypes
  <2>6. InWindow' \subseteq Kept' /\ p.seq \in InWindow'
    <3>1. InWindow' = {ackWin'[j] : j \in 1..m}
      BY DEF InWindow
    <3>2. p.seq \in InWindow'
      BY <2>3, <2>4, <3>1
    <3> QED
      BY <2>2, <2>5, <3>2 DEF AckInv
  <2>7. ackPending <= n /\ ackPending + 1 <= AckEvery /\ ackPending + 1 <= Window
    BY <2>1, <2>4, AckEvery <= Window DEF AckInv, PacketTypes
  <2> HIDE DEF n, m
  <2>8. ackPending + 1 <= m
    BY <2>3, <2>4, <2>7
  <2>9. \A i \in (n - ackPending + 1)..n : \E j \in (m - ackPending)..m : ackWin'[j] = ackWin[i]
    <3> TAKE i \in (n - ackPending + 1)..n
    <3>1. i \in 1..n
      BY <2>4, <2>7
    <3>2. CASE m = n + 1 /\ \A j \in 1..n : ackWin'[j] = ackWin[j]
      <4>1. ackWin'[i] = ackWin[i] /\ i \in (m - ackPending)..m
        BY <3>1, <3>2, <2>4
      <4> QED
        BY <4>1
    <3>3. CASE n = Window /\ m = n /\ \A j \in 2..n : ackWin'[j - 1] = ackWin[j]
      <4>1. i \in 2..n
        BY <3>1, <3>3, <2>4, <2>7
      <4>2. ackWin'[i - 1] = ackWin[i] /\ i - 1 \in (m - ackPending)..m
        BY <4>1, <3>3, <2>4
      <4> QED
        BY <4>2
    <3> QED
      BY <2>3, <3>2, <3>3
  <2>10. Kept' \subseteq acked \cup {ackWin'[j] : j \in (m - ackPending)..m}
    <3>1. Unacknowledged \subseteq {ackWin'[j] : j \in (m - ackPending)..m}
      BY <2>9 DEF Unacknowledged, n
    <3>2. p.seq \in {ackWin'[j] : j \in (m - ackPending)..m}
      BY <2>3, <2>4, <2>8
    <3> QED
      BY <2>2, <3>1, <3>2 DEF AckInv
  <2>11. CASE ackPending' = 0 /\ acked' = acked \cup InWindow'
    <3>1. {ackWin'[j] : j \in (m - ackPending)..m} \subseteq InWindow'
      <4>1. (m - ackPending)..m \subseteq 1..m
        BY ONLY <2>3, <2>4, <2>8
      <4> QED
        BY ONLY <4>1 DEF InWindow, m
    <3>2. Kept' \subseteq acked' /\ acked' \subseteq Kept'
      BY <2>2, <2>6, <2>10, <2>11, <3>1 DEF AckInv
    <3> QED
      BY <1>0, <2>1, <2>4, <2>6, <2>11, <3>2 DEF AckInv
  <2>12. CASE ackPending' = ackPending + 1 /\ acked' = acked
    <3>1. Unacknowledged' = {ackWin'[j] : j \in (m - ackPending)..m}
      <4>1. m - ackPending' + 1 = m - ackPending
        BY <2>4, <2>12
      <4> QED
        BY <4>1 DEF Unacknowledged, m
    <3>2. Kept' \subseteq acked' \cup Unacknowledged' /\ acked' \subseteq Kept'
      BY <2>2, <2>10, <2>12, <3>1 DEF AckInv
    <3> QED
      BY <1>0, <2>1, <2>6, <2>8, <2>12, <3>2 DEF AckInv, m
  <2> QED
    BY <1>1, <2>11, <2>12 DEF Receive, Acknowledge
<1>2. CASE Finish
  <2>1. UNCHANGED <<ackWin, ackPending, chunks>>
    BY <1>2 DEF Finish
  <2>2. Kept' = Kept /\ InWindow' = InWindow /\ Unacknowledged' = Unacknowledged
    BY <2>1 DEF Kept, InWindow, Unacknowledged
  <2>3. acked' = IF ackPending > 0 THEN acked \cup InWindow ELSE acked
    BY <1>2 DEF Finish, Flush
  <2>4. Unacknowledged \subseteq InWindow /\ (ackPending = 0 => Unacknowledged = {})
    BY DEF AckInv, PacketTypes, Unacknowledged, InWindow
  <2>5. Kept \subseteq acked' /\ acked' \subseteq Kept
    BY <2>3, <2>4 DEF AckInv, PacketTypes
  <2> QED
    BY <1>0, <2>1, <2>2, <2>5 DEF AckInv
<1>3. CASE UNCHANGED <<chunks, ackWin, ackPending, acked, pc>>
  <2>1. Kept' = Kept /\ InWindow' = InWindow /\ Unacknowledged' = Unacknowledged
    BY <1>3 DEF Kept, InWindow, Unacknowledged
  <2> QED
    BY <1>0, <1>3, <2>1 DEF AckInv
<1>4. \/ \E p \in packets : Receive(p)
      \/ Finish
      \/ UNCHANGED <<chunks, ackWin, ackPending, acked, pc>>
  BY DEF Next, Send, SendAgain, Lose, DropOutlier, Finished, vars, clientVars
<1> QED
  BY <1>1, <1>2, <1>3, <1>4

\* However sparse the acknowledgements (one in AckEvery, the last Window numbers
\* each), every packet that was kept is acknowledged before it leaves the window,
\* and all of them by the end: true of 10 and 17, and of any AckEvery <= Window.
THEOREM AcknowledgedInTime ==
  ASSUME AckEvery <= Window
  PROVE  Spec => []NothingSlips
<1>1. Init => AckInv
  <2> SUFFICES ASSUME Init PROVE AckInv
    OBVIOUS
  <2>1. Kept = {} /\ InWindow = {}
    BY DEF Init, Kept, InWindow
  <2> QED
    BY <2>1, PacketTypesInit DEF AckInv, Init
<1>2. AckInv /\ [Next]_vars => AckInv'
  BY AckStep, AckEvery <= Window
<1>3. AckInv => NothingSlips
  BY DEF AckInv, PacketTypes, NothingSlips, Unacknowledged, InWindow
<1> QED
  BY <1>1, <1>2, <1>3, PTL DEF Spec

-----------------------------------------------------------------------------
(* Payloads and their order.                                               *)

\* Packets under way and chunks kept carry the payload that belongs to their
\* number, or one of another video, and nothing kept lies beyond Span.
PayloadInv ==
    /\ PacketTypes
    /\ acked \subseteq Kept
    /\ InWindow \subseteq Kept
    /\ \A p \in packets :
         p.payload \in 1..NChunks => p.payload \in 1..sent /\ p.seq = SeqOf(p.payload)
    /\ \A s \in Kept :
         chunks[s] \in 1..NChunks => chunks[s] \in 1..sent /\ s = SeqOf(chunks[s])
    /\ anchor = NoSeq => Kept = {}
    /\ \A s \in Kept : Delta(anchor, s) <= Span

LEMMA PayloadInit == Init => PayloadInv
<1> SUFFICES ASSUME Init PROVE PayloadInv
  OBVIOUS
<1>1. Kept = {} /\ InWindow = {}
  BY DEF Init, Kept, InWindow
<1>2. \A p \in packets : p.payload \notin 1..NChunks
  BY ConstantsAssumption DEF Init, LeftOver
<1> QED
  BY <1>1, <1>2, PacketTypesInit DEF PayloadInv, Init

LEMMA PayloadStep == ASSUME PayloadInv, [Next]_vars PROVE PayloadInv'
<1>0. PacketTypes /\ PacketTypes'
  BY PacketTypesStep DEF PayloadInv
<1>s. start' = start /\ sent' \in Nat /\ sent \in Nat /\ sent <= sent' /\ 1..sent \subseteq 1..sent'
  <2>1. start' = start /\ (sent' = sent \/ sent' = sent + 1)
    BY DEF Next, Send, SendAgain, Lose, DropOutlier, Receive, Finish, Finished, vars, cameraVars
  <2> QED
    BY <2>1, <1>0 DEF PacketTypes
<1>q. \A i : SeqOf(i)' = SeqOf(i)
  BY <1>s DEF SeqOf, Wrap
<1>1. ASSUME NEW q \in packets, Receive(q) PROVE PayloadInv'
  <2>1. q.seq \in Seqs /\ q.payload \in Payloads
    BY <1>0 DEF PacketTypes
  <2>2. Kept' = Kept \cup {q.seq}
    BY <1>0, <1>1, KeptGrows
  <2>3. chunks' = IF chunks[q.seq] = NoSeq THEN [chunks EXCEPT ![q.seq] = q.payload] ELSE chunks
    BY <1>1 DEF Receive
  <2>4. anchor' \in Seqs /\ (anchor = NoSeq => anchor' = q.seq) /\ (anchor # NoSeq => anchor' = anchor)
    BY <1>0, <1>1, <2>1 DEF Receive, PacketTypes
  <2>5. Delta(anchor', q.seq) <= Span
    <3>1. CASE anchor = NoSeq
      BY <2>1, <2>4, <3>1, DeltaType, ConstantsAssumption
    <3>2. CASE anchor # NoSeq
      <4>1. anchor' = anchor /\ ~(Delta(anchor, q.seq) > Span)
        BY <1>1, <2>4, <3>2 DEF Receive, IsOutlier
      <4>2. Delta(anchor', q.seq) \in Nat
        BY <2>1, <2>4, DeltaType DEF Seqs
      <4>3. Span \in Nat
        BY ConstantsAssumption
      <4> QED
        BY ONLY <4>1, <4>2, <4>3
    <3> QED
      BY <3>1, <3>2
  <2>6. \A s \in Kept' : Delta(anchor', s) <= Span
    BY <2>2, <2>4, <2>5 DEF PayloadInv
  <2>7. \A s \in Kept' : (Delta(anchor, s))' <= Span
    BY <2>6 DEF Delta, Wrap
  <2>8. \A s \in Kept : s \in Seqs /\ chunks[s] # NoSeq /\ chunks'[s] = chunks[s]
    BY <2>3, <1>0 DEF Kept, PacketTypes
  <2>9. chunks'[q.seq] = q.payload \/ (q.seq \in Kept /\ chunks'[q.seq] = chunks[q.seq])
    BY <2>1, <2>3, <1>0 DEF PacketTypes, Kept
  <2>10. \A s \in Kept' : chunks'[s] \in 1..NChunks => chunks'[s] \in 1..sent /\ s = SeqOf(chunks'[s])
    BY <2>2, <2>8, <2>9 DEF PayloadInv
  <2>11. sent' = sent /\ packets' \subseteq packets
    BY <1>1 DEF Receive, Sees, cameraVars
  <2>12. InWindow' \subseteq InWindow \cup {q.seq}
    <3>1. ackWin \in Seq(Seqs) /\ Len(ackWin) <= Window /\ Slide(q.seq)
      BY <1>0, <1>1 DEF PacketTypes, Receive
    <3> QED
      BY <3>1, <2>1, SlideIntoWindow
  <2>13. acked' \subseteq Kept' /\ InWindow' \subseteq Kept'
    BY <1>1, <2>2, <2>12 DEF PayloadInv, Receive, Acknowledge
  <2> QED
    BY <1>0, <1>q, <2>4, <2>7, <2>10, <2>11, <2>13, ConstantsAssumption DEF PayloadInv, Seqs
<1>2. CASE UNCHANGED <<anchor, chunks, ackWin>> /\ acked' \subseteq acked \cup InWindow
           /\ \A p \in packets' : p \in packets \/ \E i \in 1..sent' : p = Packet(i)
  <2>1. Kept' = Kept /\ InWindow' = InWindow /\ \A s : (Delta(anchor, s))' = Delta(anchor, s)
    BY <1>2 DEF Kept, InWindow, Delta, Wrap
  <2>2. \A p \in packets' :
           p.payload \in 1..NChunks => p.payload \in 1..sent' /\ p.seq = SeqOf(p.payload)
    BY <1>2, <1>s DEF PayloadInv, Packet
  <2>3. \A s \in Kept' : chunks'[s] \in 1..NChunks => chunks'[s] \in 1..sent' /\ s = SeqOf(chunks'[s])
    BY <1>2, <1>s, <2>1 DEF PayloadInv
  <2> QED
    BY <1>0, <1>2, <1>q, <2>1, <2>2, <2>3 DEF PayloadInv
<1>3. CASE Send
  BY <1>2, <1>3, <1>0 DEF Send, clientVars, PacketTypes
<1>4. ASSUME NEW i \in 1..NChunks, SendAgain(i) PROVE PayloadInv'
  <2>1. i \in 1..sent' /\ packets' = packets \cup {Packet(i)}
    BY <1>4, <1>0 DEF SendAgain, PacketTypes
  <2> QED
    BY <1>2, <1>4, <2>1 DEF SendAgain, clientVars
<1>5. ASSUME NEW p \in packets, Lose(p) \/ DropOutlier(p) PROVE PayloadInv'
  BY <1>2, <1>5 DEF Lose, DropOutlier, Sees, clientVars
<1>6. CASE Finish
  BY <1>2, <1>6 DEF Finish, Flush, networkVars
<1>7. CASE UNCHANGED vars
  BY <1>2, <1>7 DEF vars, clientVars, networkVars
<1> QED
  BY <1>1, <1>3, <1>4, <1>5, <1>6, <1>7 DEF Next, Finished

LEMMA PayloadAlways == Spec => []PayloadInv
<1>1. PayloadInv /\ [Next]_vars => PayloadInv'
  BY PayloadStep
<1> QED
  BY PayloadInit, <1>1, PTL DEF Spec

\* The camera is never told that it may stop sending a chunk that is not kept.
THEOREM OnlyKeptIsAcknowledged == Spec => []AckedAreKept
<1>1. PayloadInv => AckedAreKept
  <2> SUFFICES ASSUME PayloadInv, NEW i \in 1..sent, SeqOf(i) \in acked, chunks[SeqOf(i)] \notin LeftOver
               PROVE  chunks[SeqOf(i)] = i
    BY DEF AckedAreKept
  <2> DEFINE j == chunks[SeqOf(i)]
  <2>1. j \in 1..sent /\ SeqOf(j) = SeqOf(i)
    BY DEF PayloadInv, PacketTypes, Kept, Payloads
  <2>2. i \in 1..NChunks /\ j \in 1..NChunks /\ start \in Seqs
    BY <2>1, ConstantsAssumption DEF PayloadInv, PacketTypes
  <2> QED
    BY <2>1, <2>2, SeqOfInjective
<1> QED
  BY <1>1, PayloadAlways, PTL

\* In whatever order its packets come, a video of at most SeqMod - Span chunks is
\* ordered by the distances from the anchor as it was sent.
THEOREM OrderSurvives ==
  ASSUME NChunks <= SeqMod - Span
  PROVE  Spec => []KeptInOrder
<1>1. PayloadInv => KeptInOrder
  <2> SUFFICES ASSUME PayloadInv, NEW s \in Kept, NEW t \in Kept,
                      chunks[s] \in 1..NChunks, chunks[t] \in 1..NChunks, chunks[s] < chunks[t]
               PROVE  Delta(anchor, s) < Delta(anchor, t)
    BY DEF KeptInOrder
  <2>1. chunks[s] \in 1..NChunks /\ chunks[t] \in 1..NChunks /\ start \in Seqs
    BY ConstantsAssumption DEF PayloadInv, PacketTypes
  <2>2. s = SeqOf(chunks[s]) /\ t = SeqOf(chunks[t])
    BY DEF PayloadInv
  <2>3. anchor \in Seqs /\ Delta(anchor, s) <= Span /\ Delta(anchor, t) <= Span
    BY DEF PayloadInv, PacketTypes
  <2> QED
    BY <2>1, <2>2, <2>3, NearMeansOrdered, NChunks <= SeqMod - Span
<1> QED
  BY <1>1, PayloadAlways, PTL

-----------------------------------------------------------------------------
(* How the video is put together.                                          *)

\* The members of S that come before s when S is ordered by d, and how many.
Before(S, d, s) == {t \in S : d[t] < d[s]}
Rank(S, d, s) == Cardinality(Before(S, d, s))

\* Ranks are those of a list: each from 0 on is the rank of some member, and
\* they order the members as d does.
LEMMA RankFacts ==
  ASSUME NEW S, IsFiniteSet(S), NEW d \in [S -> Nat],
         \A s, t \in S : d[s] = d[t] => s = t
  PROVE  /\ \A s \in S : Rank(S, d, s) \in 0..(Cardinality(S) - 1)
         /\ \A s, t \in S : Rank(S, d, s) < Rank(S, d, t) <=> d[s] < d[t]
         /\ \A n \in 1..Cardinality(S) : \E s \in S : Rank(S, d, s) = n - 1
<1> DEFINE card == Cardinality(S)
<1>1. card \in Nat
  BY FS_CardinalityType
<1>2. \A s \in S : /\ IsFiniteSet(Before(S, d, s))
                   /\ Rank(S, d, s) \in Nat
                   /\ Rank(S, d, s) <= card
  <2> TAKE s \in S
  <2>1. Before(S, d, s) \in SUBSET S
    BY DEF Before
  <2> QED
    BY <2>1, FS_Subset, FS_CardinalityType DEF Rank
<1>3. \A s \in S : Rank(S, d, s) \in 0..(card - 1)
  <2> TAKE s \in S
  <2>1. Before(S, d, s) \in SUBSET S /\ s \notin Before(S, d, s)
    <3>1. d[s] \in Nat
      OBVIOUS
    <3> QED
      BY <3>1 DEF Before
  <2>2. Rank(S, d, s) # card
    BY <2>1, FS_Subset DEF Rank
  <2> QED
    BY <1>1, <1>2, <2>2
<1>4. \A s, t \in S : d[s] < d[t] => Rank(S, d, s) < Rank(S, d, t)
  <2> SUFFICES ASSUME NEW s \in S, NEW t \in S, d[s] < d[t] PROVE Rank(S, d, s) < Rank(S, d, t)
    OBVIOUS
  <2>1. d[s] \in Nat /\ d[t] \in Nat /\ \A u \in S : d[u] \in Nat
    OBVIOUS
  <2>2. Before(S, d, s) \in SUBSET Before(S, d, t)
    BY <2>1 DEF Before
  <2>3. s \in Before(S, d, t) /\ s \notin Before(S, d, s)
    BY <2>1 DEF Before
  <2>4. Rank(S, d, s) <= Rank(S, d, t) /\ Rank(S, d, s) # Rank(S, d, t)
    BY <1>2, <2>2, <2>3, FS_Subset DEF Rank
  <2> QED
    BY <1>2, <2>4
<1>5. \A s, t \in S : Rank(S, d, s) < Rank(S, d, t) <=> d[s] < d[t]
  <2> TAKE s, t \in S
  <2>1. d[s] \in Nat /\ d[t] \in Nat /\ Rank(S, d, s) \in Nat /\ Rank(S, d, t) \in Nat
    BY <1>2
  <2>2. d[s] = d[t] => Rank(S, d, s) = Rank(S, d, t)
    OBVIOUS
  <2>3. d[t] < d[s] => Rank(S, d, t) < Rank(S, d, s)
    BY <1>4
  <2>4. d[s] < d[t] => Rank(S, d, s) < Rank(S, d, t)
    BY <1>4
  <2> QED
    BY <2>1, <2>2, <2>3, <2>4
<1>6. \A n \in 1..card : \E s \in S : Rank(S, d, s) = n - 1
  <2> DEFINE T == 0..(card - 1)
             f == [s \in S |-> Rank(S, d, s)]
  <2>1. f \in [S -> T] /\ \A s \in S : f[s] = Rank(S, d, s)
    BY <1>3
  <2>2. \A s, t \in S : f[s] = f[t] => s = t
    <3> TAKE s, t \in S
    <3>1. d[s] \in Nat /\ d[t] \in Nat /\ Rank(S, d, s) \in Nat /\ Rank(S, d, t) \in Nat
      BY <1>2
    <3>2. d[s] < d[t] \/ d[t] < d[s] \/ d[s] = d[t]
      BY <3>1
    <3>3. Rank(S, d, s) = Rank(S, d, t) => d[s] = d[t]
      BY <3>1, <3>2, <1>5
    <3> QED
      BY <2>1, <3>3
  <2> HIDE DEF f
  <2>3. f \in Injection(S, T)
    BY <2>1, <2>2 DEF Injection, IsInjective
  <2>4. IsFiniteSet(T) /\ Cardinality(T) = card
    <3>1. CASE card = 0
      BY <1>1, <3>1, FS_Interval
    <3>2. CASE card # 0
      BY <1>1, <3>2, FS_Interval
    <3> QED
      BY <3>1, <3>2
  <2>5. f \in Surjection(S, T)
    BY <2>3, <2>4, FS_Injection
  <2>6. \A k \in T : \E s \in S : f[s] = k
    BY <2>5 DEF Surjection
  <2> TAKE n \in 1..card
  <2>7. n - 1 \in T
    BY <1>1
  <2> QED
    BY <2>1, <2>6, <2>7
<1> QED
  BY <1>3, <1>5, <1>6

\* InOrder(S) lists S, nearest to the anchor first.
LEMMA InOrderFacts ==
  ASSUME anchor \in Seqs, NEW S \in SUBSET Seqs
  PROVE  /\ Cardinality(S) \in Nat
         /\ \A i \in 1..Cardinality(S) : InOrder(S)[i] \in S
         /\ \A i, j \in 1..Cardinality(S) :
              i < j => Delta(anchor, InOrder(S)[i]) < Delta(anchor, InOrder(S)[j])
         /\ \A s \in S : \E i \in 1..Cardinality(S) : InOrder(S)[i] = s
<1> DEFINE d == [s \in S |-> Delta(anchor, s)]
           card == Cardinality(S)
           order == InOrder(S)
<1>1. IsFiniteSet(S) /\ card \in Nat
  <2>1. S \in SUBSET Nat /\ SeqMod \in Nat /\ \A s \in S : s <= SeqMod
    BY ConstantsAssumption DEF Seqs
  <2> QED
    BY <2>1, FS_BoundedSetOfNaturals, FS_CardinalityType
<1>2. d \in [S -> Nat] /\ \A s \in S : d[s] = Delta(anchor, s)
  BY DeltaType DEF Seqs
<1>3. \A s, t \in S : d[s] = d[t] => s = t
  <2>1. \A s, t \in Seqs : Delta(anchor, s) = Delta(anchor, t) => s = t
    BY ConstantsAssumption DEF Seqs, Delta, Wrap
  <2> QED
    BY <2>1, <1>2
<1>4. \A s \in S : {t \in S : Delta(anchor, t) < Delta(anchor, s)} = Before(S, d, s)
  BY <1>2 DEF Before
<1> HIDE DEF d
<1>5. /\ \A s \in S : Rank(S, d, s) \in 0..(card - 1)
      /\ \A s, t \in S : Rank(S, d, s) < Rank(S, d, t) <=> d[s] < d[t]
      /\ \A n \in 1..card : \E s \in S : Rank(S, d, s) = n - 1
  BY <1>1, <1>2, <1>3, RankFacts
<1>6. \A n \in 1..card : order[n] \in S /\ Rank(S, d, order[n]) = n - 1
  <2> TAKE n \in 1..card
  <2>1. order[n] = CHOOSE s \in S : Cardinality({t \in S : Delta(anchor, t) < Delta(anchor, s)}) = n - 1
    BY DEF InOrder
  <2>2. PICK s \in S : Rank(S, d, s) = n - 1
    BY <1>5
  <2>3. Cardinality({t \in S : Delta(anchor, t) < Delta(anchor, s)}) = n - 1
    BY <2>2, <1>4 DEF Rank
  <2>4. order[n] \in S /\ Cardinality({t \in S : Delta(anchor, t) < Delta(anchor, order[n])}) = n - 1
    BY <2>1, <2>3
  <2> QED
    BY <2>4, <1>4 DEF Rank
<1> HIDE DEF order
<1>7. \A i, j \in 1..card : i < j => Delta(anchor, order[i]) < Delta(anchor, order[j])
  <2> SUFFICES ASSUME NEW i \in 1..card, NEW j \in 1..card, i < j
               PROVE  Delta(anchor, order[i]) < Delta(anchor, order[j])
    OBVIOUS
  <2>1. Rank(S, d, order[i]) = i - 1 /\ Rank(S, d, order[j]) = j - 1
    BY <1>6
  <2>2. Rank(S, d, order[i]) < Rank(S, d, order[j])
    BY <2>1, <1>1
  <2> QED
    BY <2>2, <1>2, <1>5, <1>6
<1>8. \A s \in S : \E i \in 1..card : order[i] = s
  <2> TAKE s \in S
  <2>1. Rank(S, d, s) \in 0..(card - 1)
    BY <1>5
  <2> DEFINE i == Rank(S, d, s) + 1
  <2>2. i \in 1..card /\ i - 1 = Rank(S, d, s)
    BY <2>1, <1>1
  <2> HIDE DEF i
  <2>3. order[i] \in S /\ Rank(S, d, order[i]) = Rank(S, d, s)
    BY <2>2, <1>6
  <2>4. ~(d[order[i]] < d[s]) /\ ~(d[s] < d[order[i]])
    <3>1. ~(Rank(S, d, s) < Rank(S, d, s))
      BY <2>1
    <3> QED
      BY <3>1, <2>3, <1>5
  <2>5. d[order[i]] \in Nat /\ d[s] \in Nat
    BY <2>3, <1>2
  <2> QED
    BY <2>2, <2>3, <2>4, <2>5, <1>3
<1> QED
  BY <1>1, <1>6, <1>7, <1>8 DEF order

\* A function on 1..n is a sequence of length n.
LEMMA ListOf ==
  ASSUME NEW S, NEW n \in Nat, NEW f \in [1..n -> S]
  PROVE  f \in Seq(S) /\ Len(f) = n
  OBVIOUS

\* What is put together is what was kept, nearest to the anchor first.  Chunks of a
\* video short enough stand in it in the order they were sent.
LEMMA AssembledFacts ==
  ASSUME PayloadInv
  PROVE  /\ Assembled \in Seq(Payloads)
         /\ Len(Assembled) = Cardinality(Kept)
         /\ \A i \in 1..Len(Assembled) :
              InOrder(Kept)[i] \in Kept /\ Assembled[i] = chunks[InOrder(Kept)[i]]
         /\ \A i, j \in 1..Len(Assembled) :
              i < j => Delta(anchor, InOrder(Kept)[i]) < Delta(anchor, InOrder(Kept)[j])
         /\ \A s \in Kept : \E i \in 1..Len(Assembled) : InOrder(Kept)[i] = s
<1>1. \A s \in Kept : s \in Seqs /\ chunks[s] \in Payloads
  BY DEF PayloadInv, PacketTypes, Kept
<1>2. CASE anchor = NoSeq
  <2>1. Kept = {}
    BY <1>2 DEF PayloadInv
  <2>2. Cardinality(Kept) = 0
    BY <2>1, FS_EmptySet
  <2>3. Assembled = <<>>
    BY <2>2 DEF Assembled
  <2>4. Assembled \in Seq(Payloads) /\ Len(Assembled) = 0 /\ 1..Len(Assembled) = {}
    BY <2>3
  <2> HIDE DEF Assembled
  <2> QED
    BY <2>1, <2>2, <2>4
<1>3. CASE anchor # NoSeq
  <2>1. anchor \in Seqs
    BY <1>3 DEF PayloadInv, PacketTypes
  <2> DEFINE n == Cardinality(Kept)
             order == InOrder(Kept)
  <2>2. Kept \in SUBSET Seqs
    BY <1>1
  <2>3. /\ n \in Nat
        /\ \A i \in 1..n : order[i] \in Kept
        /\ \A i, j \in 1..n : i < j => Delta(anchor, order[i]) < Delta(anchor, order[j])
        /\ \A s \in Kept : \E i \in 1..n : order[i] = s
    BY <2>1, <2>2, InOrderFacts
  <2>4. Assembled = [i \in 1..n |-> chunks[order[i]]]
    BY DEF Assembled
  <2> HIDE DEF n, order
  <2>5. \A i \in 1..n : chunks[order[i]] \in Payloads
    BY <1>1, <2>3
  <2>6. Assembled \in Seq(Payloads) /\ Len(Assembled) = n
    <3>1. Assembled \in [1..n -> Payloads]
      BY <2>4, <2>5
    <3> QED
      BY <3>1, <2>3, ListOf
  <2>7. \A i \in 1..n : Assembled[i] = chunks[order[i]]
    BY <2>4
  <2> QED
    BY <2>3, <2>6, <2>7 DEF n, order
<1> QED
  BY <1>2, <1>3

\* A chunk that was put together came under its own number, near the anchor.
LEMMA OwnPlace ==
  ASSUME PayloadInv, NEW i \in 1..Len(Assembled), Assembled[i] \in 1..NChunks
  PROVE  /\ anchor \in Seqs /\ start \in Seqs
         /\ InOrder(Kept)[i] = SeqOf(Assembled[i])
         /\ SeqOf(Assembled[i]) \in Kept
         /\ Delta(anchor, SeqOf(Assembled[i])) <= Span
<1>1. InOrder(Kept)[i] \in Kept /\ Assembled[i] = chunks[InOrder(Kept)[i]]
  BY AssembledFacts
<1> QED
  BY <1>1 DEF PayloadInv, PacketTypes

LEMMA OwnInOrder ==
  ASSUME PayloadInv, NChunks <= SeqMod - Span,
         NEW i \in 1..Len(Assembled), NEW j \in 1..Len(Assembled), i < j,
         Assembled[i] \in 1..NChunks, Assembled[j] \in 1..NChunks
  PROVE  Assembled[i] < Assembled[j]
<1> DEFINE a == Assembled[i]
           b == Assembled[j]
<1>1. /\ anchor \in Seqs /\ start \in Seqs /\ a \in 1..NChunks /\ b \in 1..NChunks
      /\ Delta(anchor, SeqOf(a)) <= Span /\ Delta(anchor, SeqOf(b)) <= Span
      /\ InOrder(Kept)[i] = SeqOf(a) /\ InOrder(Kept)[j] = SeqOf(b)
  BY OwnPlace
<1>2. Delta(anchor, SeqOf(a)) < Delta(anchor, SeqOf(b))
  <2>1. Delta(anchor, InOrder(Kept)[i]) < Delta(anchor, InOrder(Kept)[j])
    BY AssembledFacts
  <2> QED
    BY <1>1, <2>1
<1> HIDE DEF a, b
<1>3. SeqOf(a) \in Seqs /\ SeqOf(b) \in Seqs
  BY <1>1, SeqOfType
<1>4. Delta(anchor, SeqOf(a)) \in Nat /\ Delta(anchor, SeqOf(b)) \in Nat
  BY <1>1, <1>3, DeltaType DEF Seqs
<1>5. ~(b < a) /\ a # b
  BY <1>1, <1>2, <1>4, NearMeansOrdered, NChunks <= SeqMod - Span
<1>6. a < b
  BY <1>1, <1>5
<1> QED
  BY <1>6 DEF a, b

\* When the flow is over, its result is still what was read from the stream it
\* kept, and what strict mode wrote had no issue.
ResultOf(honoured) ==
    /\ result = Contents(Assembled, Selected(Assembled, honoured))
    /\ pc = "written" /\ strict => ~StrictIssue(Assembled, Selected(Assembled, honoured))

\* Nothing else came for the number of a chunk that came, or that was noticed.
CameInv ==
    /\ came \subseteq 1..sent /\ changed \in BOOLEAN
    /\ ~changed => \A i \in came : chunks[SeqOf(i)] = i

ResultInv ==
    /\ PayloadInv /\ CameInv
    /\ pc = "receive" => result = <<>>
    /\ pc # "receive" => \E honoured \in BOOLEAN : ResultOf(honoured)

LEMMA CameStep == ASSUME PayloadInv, CameInv, [Next]_vars PROVE CameInv'
<1>0. PacketTypes /\ sent \in Nat /\ NoSeq \notin Nat
  BY ConstantsAssumption DEF PayloadInv, PacketTypes
<1>s. start' = start /\ 1..sent \subseteq 1..sent'
  <2>1. start' = start /\ (sent' = sent \/ sent' = sent + 1)
    BY DEF Next, Send, SendAgain, Lose, DropOutlier, Receive, Finish, Finished, vars, cameraVars
  <2> QED
    BY <2>1, <1>0
<1>q. \A i : SeqOf(i)' = SeqOf(i)
  BY <1>s DEF SeqOf, Wrap
<1>1. ASSUME NEW p \in packets, Receive(p) PROVE CameInv'
  <2>1. /\ chunks' = IF chunks[p.seq] = NoSeq THEN [chunks EXCEPT ![p.seq] = p.payload] ELSE chunks
        /\ changed' = (changed \/ chunks[p.seq] \notin {NoSeq, p.payload})
        /\ came' = came \cup ({p.payload} \ LeftOver)
    BY <1>1 DEF Receive
  <2>2. /\ p.seq \in Seqs /\ chunks \in [Seqs -> Payloads \cup {NoSeq}]
        /\ p.payload \notin LeftOver => p.payload \in 1..sent /\ p.seq = SeqOf(p.payload)
    BY <1>0 DEF PayloadInv, PacketTypes, Payloads
  <2>3. came' \subseteq 1..sent' /\ changed' \in BOOLEAN
    BY <1>s, <2>1, <2>2 DEF CameInv
  <2>4. ASSUME ~changed', NEW i \in came' PROVE chunks'[SeqOf(i)] = i
    <3>1. ~changed /\ chunks[p.seq] \in {NoSeq, p.payload}
      BY <2>1, <2>4
    <3>2. chunks'[p.seq] = p.payload
      BY <2>1, <2>2, <3>1
    <3>3. CASE i \in came
      <4>1. chunks[SeqOf(i)] = i /\ i # NoSeq
        BY <1>0, <3>1, <3>3 DEF CameInv
      <4> QED
        BY <2>1, <2>2, <4>1
    <3>4. CASE i = p.payload /\ i \notin LeftOver
      BY <2>2, <3>2, <3>4
    <3> QED
      BY <2>1, <2>4, <3>3, <3>4
  <2> QED
    BY <1>q, <2>3, <2>4 DEF CameInv
<1>2. CASE UNCHANGED <<chunks, changed, came>>
  BY <1>s, <1>q, <1>2 DEF CameInv
<1>3. UNCHANGED <<chunks, changed, came>> \/ \E p \in packets : Receive(p)
  BY DEF Next, Send, SendAgain, Lose, DropOutlier, Finish, Finished, vars, clientVars
<1> QED
  BY <1>1, <1>2, <1>3

LEMMA ResultInit == ASSUME Init PROVE ResultInv
<1>1. came = {} /\ changed \in BOOLEAN
  BY DEF Init
<1>2. pc = "receive" /\ result = <<>>
  BY DEF Init
<1>3. PayloadInv
  BY PayloadInit
<1> QED
  BY <1>1, <1>2, <1>3 DEF ResultInv, CameInv

LEMMA ResultStep == ASSUME ResultInv, [Next]_vars PROVE ResultInv'
<1>0. PayloadInv' /\ CameInv'
  BY PayloadStep, CameStep DEF ResultInv
<1>e. ASSUME UNCHANGED <<anchor, chunks, changed, totalKnown>>
      PROVE  /\ Assembled' = Assembled
             /\ \A st, R : StrictIssue(st, R)' = StrictIssue(st, R)
  <2>1. Kept' = Kept /\ \A a, s : Delta(a, s)' = Delta(a, s)
    BY <1>e DEF Kept, Delta, Wrap
  <2>2. Assembled' = Assembled
    BY <1>e, <2>1 DEF Assembled, InOrder, Kept, Delta, Wrap
  <2>3. \A st, R : StrictIssue(st, R)' = StrictIssue(st, R)
    BY <1>e, <2>1 DEF StrictIssue, MissingSeqs, Kept, Delta, Wrap
  <2> QED
    BY <2>2, <2>3
<1>1. CASE Finish
  <2>1. UNCHANGED <<anchor, chunks, changed, totalKnown, strict>> /\ pc' \in {"written", "failed"}
    BY <1>1 DEF Finish, cameraVars
  <2>2. PICK honoured \in BOOLEAN :
          /\ result' = Contents(Assembled, Selected(Assembled, honoured))
          /\ pc' = "written" => ~(strict /\ StrictIssue(Assembled, Selected(Assembled, honoured)))
    BY <1>1 DEF Finish
  <2>3. ResultOf(honoured)'
    BY <1>e, <2>1, <2>2 DEF ResultOf
  <2> QED
    BY <1>0, <2>1, <2>3 DEF ResultInv
<1>2. CASE UNCHANGED <<result, pc>> /\ pc = "receive"
  BY <1>0, <1>2 DEF ResultInv
<1>3. CASE UNCHANGED <<anchor, chunks, changed, totalKnown, strict, result, pc>>
  <2>1. \A honoured \in BOOLEAN : ResultOf(honoured) => ResultOf(honoured)'
    BY <1>3, <1>e DEF ResultOf
  <2> QED
    BY <1>0, <1>3, <2>1 DEF ResultInv
<1>4. \/ Finish
      \/ UNCHANGED <<result, pc>> /\ pc = "receive"
      \/ UNCHANGED <<anchor, chunks, changed, totalKnown, strict, result, pc>>
  BY DEF Next, Send, SendAgain, Lose, Receive, DropOutlier, Sees, Finished, vars, cameraVars, clientVars
<1> QED
  BY <1>1, <1>2, <1>3, <1>4

LEMMA ResultAlways == Spec => []ResultInv
<1>1. ResultInv /\ [Next]_vars => ResultInv'
  BY ResultStep
<1> QED
  BY ResultInit, <1>1, PTL DEF Spec

\* What is written stands where it stood in the stream.
LEMMA WrittenFacts ==
  ASSUME ResultInv, pc # "receive", NEW i \in DOMAIN result
  PROVE  i \in 1..Len(Assembled) /\ result[i] = Assembled[i]
<1>1. PICK honoured \in BOOLEAN : result = Contents(Assembled, Selected(Assembled, honoured))
  BY DEF ResultInv, ResultOf
<1> QED
  BY <1>1 DEF Contents

\* Of a video of at most SeqMod - Span chunks, what is written stands in the order
\* it was sent, although packets overtake each other, are left over, and numbers
\* wrap.
THEOREM PutTogetherInOrder ==
  ASSUME NChunks <= SeqMod - Span
  PROVE  Spec => []PlacedInOrder
<1>1. ResultInv => PlacedInOrder
  <2> SUFFICES ASSUME ResultInv, pc = "written", NEW i \in DOMAIN result, NEW j \in DOMAIN result,
                      i < j, result[i] \in 1..NChunks, result[j] \in 1..NChunks
               PROVE  result[i] < result[j]
    BY DEF PlacedInOrder
  <2>1. PayloadInv /\ pc # "receive"
    BY DEF ResultInv
  <2>2. /\ i \in 1..Len(Assembled) /\ result[i] = Assembled[i]
        /\ j \in 1..Len(Assembled) /\ result[j] = Assembled[j]
    BY <2>1, WrittenFacts
  <2> QED
    BY <2>1, <2>2, OwnInOrder, NChunks <= SeqMod - Span
<1> QED
  BY <1>1, ResultAlways, PTL

\* A chunk sent between two that are near the anchor lies between them.
LEMMA BetweenNear ==
  ASSUME start \in Seqs, NEW a \in Seqs, NChunks <= SeqMod - Span,
         NEW i \in 1..NChunks, NEW k \in 1..NChunks, NEW j \in 1..NChunks, i < k, k < j,
         Delta(a, SeqOf(i)) <= Span, Delta(a, SeqOf(j)) <= Span
  PROVE  Delta(a, SeqOf(k)) < Delta(a, SeqOf(j)) /\ Delta(a, SeqOf(k)) <= Span
  BY ConstantsAssumption DEF Seqs, SeqOf, Delta, Wrap

\* Where no number is missing, something stands for each chunk between two.
LEMMA BetweenStands ==
  ASSUME PayloadInv, NChunks <= SeqMod - Span, MissingSeqs(Kept) = {},
         NEW i \in 1..Len(Assembled), NEW j \in 1..Len(Assembled),
         Assembled[i] \in 1..NChunks, Assembled[j] \in 1..NChunks,
         NEW v \in 1..NChunks, Assembled[i] < v, v < Assembled[j]
  PROVE  \E k \in 1..Len(Assembled) : i < k /\ k < j /\ InOrder(Kept)[k] = SeqOf(v) /\ SeqOf(v) \in Kept
<1> DEFINE n == Len(Assembled)
           a == Assembled[i]
           b == Assembled[j]
           order == InOrder(Kept)
<1>1. /\ anchor \in Seqs /\ start \in Seqs /\ a \in 1..NChunks /\ b \in 1..NChunks
      /\ Delta(anchor, SeqOf(a)) <= Span /\ Delta(anchor, SeqOf(b)) <= Span
      /\ order[i] = SeqOf(a) /\ order[j] = SeqOf(b) /\ SeqOf(b) \in Kept
      /\ a < v /\ v < b
  BY OwnPlace
<1>2. /\ \A k \in 1..n : order[k] \in Kept
      /\ \A k, l \in 1..n : k < l => Delta(anchor, order[k]) < Delta(anchor, order[l])
      /\ \A s \in Kept : \E k \in 1..n : order[k] = s
      /\ n \in Nat /\ i \in 1..n /\ j \in 1..n
  BY AssembledFacts
<1> HIDE DEF n, a, b, order
<1>3. SeqOf(v) \in Seqs /\ Delta(anchor, SeqOf(v)) < Delta(anchor, SeqOf(b)) /\ Delta(anchor, SeqOf(v)) <= Span
  BY <1>1, BetweenNear, SeqOfType, NChunks <= SeqMod - Span
<1>4. Delta(anchor, SeqOf(a)) < Delta(anchor, SeqOf(v))
  BY <1>1, <1>3, NearMeansOrdered, NChunks <= SeqMod - Span
<1>5. SeqOf(v) \in Kept
  BY <1>1, <1>3 DEF MissingSeqs
<1>6. PICK k \in 1..n : order[k] = SeqOf(v)
  BY <1>2, <1>5
<1>7. \A s \in Kept : Delta(anchor, s) \in Nat
  BY <1>1, DeltaType DEF Seqs, Kept
<1>8. /\ Delta(anchor, order[i]) \in Nat /\ Delta(anchor, order[j]) \in Nat /\ Delta(anchor, order[k]) \in Nat
      /\ Delta(anchor, order[i]) < Delta(anchor, order[k]) /\ Delta(anchor, order[k]) < Delta(anchor, order[j])
  BY <1>1, <1>2, <1>3, <1>4, <1>6, <1>7
<1>9. ~(k < i) /\ k # i /\ ~(j < k) /\ k # j
  BY <1>2, <1>8
<1>10. i < k /\ k < j
  BY <1>2, <1>9
<1> QED
  BY <1>5, <1>6, <1>10 DEF n, order

\* Where no number is missing, chunks side by side are neighbours in the video.
LEMMA NoHole ==
  ASSUME PayloadInv, NChunks <= SeqMod - Span, MissingSeqs(Kept) = {},
         NEW i \in 1..Len(Assembled), i + 1 \in 1..Len(Assembled),
         Assembled[i] \in 1..NChunks, Assembled[i + 1] \in 1..NChunks
  PROVE  Assembled[i + 1] = Assembled[i] + 1
<1> DEFINE a == Assembled[i]
           b == Assembled[i + 1]
<1>1. a < b /\ a \in 1..NChunks /\ b \in 1..NChunks
  BY OwnInOrder, NChunks <= SeqMod - Span
<1>2. SUFFICES ASSUME b # a + 1 PROVE FALSE
  OBVIOUS
<1>3. \A v \in 1..NChunks : a < v /\ v < b => FALSE
  <2> SUFFICES ASSUME NEW v \in 1..NChunks, a < v, v < b PROVE FALSE
    OBVIOUS
  <2>1. PICK k \in 1..Len(Assembled) : i < k /\ k < i + 1
    BY BetweenStands, NChunks <= SeqMod - Span
  <2> QED
    BY <2>1
<1> HIDE DEF a, b
<1>4. NChunks \in Nat
  BY ConstantsAssumption
<1>5. a + 1 \in 1..NChunks /\ a < a + 1 /\ a + 1 < b
  BY ONLY <1>1, <1>2, <1>4
<1> QED
  BY <1>3, <1>5

LEMMA ElementType ==
  ASSUME NEW S, NEW seq \in Seq(S), NEW i \in 1..Len(seq)
  PROVE  seq[i] \in S
  OBVIOUS

\* A list of numbers that grows and leaves none out grows in steps of one.
LEMMA EvenSteps ==
  ASSUME NEW n \in Nat, NEW f \in [1..n -> Nat],
         \A i, j \in 1..n : i < j => f[i] < f[j],
         \A i, j \in 1..n : \A v \in Nat : f[i] < v /\ v < f[j] => \E k \in 1..n : f[k] = v,
         NEW i \in 1..n, NEW j \in 1..n, i <= j
  PROVE  f[j] + i = f[i] + j
<1> DEFINE T == f[i]..f[j]
           g == [k \in i..j |-> f[k]]
<1>1. f[i] \in Nat /\ f[j] \in Nat /\ f[i] <= f[j]
  OBVIOUS
<1>2. \A k \in i..j : k \in 1..n /\ f[k] \in Nat /\ f[i] <= f[k] /\ f[k] <= f[j]
  <2> TAKE k \in i..j
  <2>1. k \in 1..n /\ (k = i \/ i < k) /\ (k = j \/ k < j)
    OBVIOUS
  <2> QED
    BY <1>1, <2>1
<1>3. g \in [i..j -> T] /\ \A k \in i..j : g[k] = f[k]
  BY <1>1, <1>2
<1>4. \A k, l \in i..j : f[k] = f[l] => k = l
  <2> TAKE k, l \in i..j
  <2>1. k \in 1..n /\ l \in 1..n /\ f[k] \in Nat /\ f[l] \in Nat /\ (k < l \/ l < k \/ k = l)
    BY <1>2
  <2> QED
    BY <2>1
<1>5. \A v \in T : \E k \in i..j : f[k] = v
  <2> TAKE v \in T
  <2>1. v \in Nat /\ (v = f[i] \/ v = f[j] \/ (f[i] < v /\ v < f[j]))
    BY <1>1
  <2>2. CASE f[i] < v /\ v < f[j]
    <3>1. PICK k \in 1..n : f[k] = v
      BY <2>1, <2>2
    <3>2. ~(k < i) /\ k # i /\ ~(j < k) /\ k # j
      BY <1>1, <2>1, <2>2, <3>1
    <3>3. k \in i..j
      BY <3>2
    <3> QED
      BY <3>1, <3>3
  <2>3. i \in i..j /\ j \in i..j
    OBVIOUS
  <2> QED
    BY <2>1, <2>2, <2>3
<1> HIDE DEF g
<1>6. g \in Surjection(i..j, T) /\ g \in Injection(i..j, T)
  BY <1>3, <1>4, <1>5 DEF Surjection, Injection, IsInjective
<1>7. IsFiniteSet(i..j) /\ Cardinality(i..j) = j - i + 1 /\ Cardinality(T) = f[j] - f[i] + 1
  BY <1>1, FS_Interval
<1>8. Cardinality(T) = Cardinality(i..j)
  BY <1>6, <1>7, FS_Surjection
<1>9. f[j] - f[i] + 1 = j - i + 1
  BY <1>7, <1>8
<1>10. i \in Int /\ j \in Int
  OBVIOUS
<1> DEFINE a == f[i]
           b == f[j]
<1>11. a \in Int /\ b \in Int /\ b - a + 1 = j - i + 1
  BY <1>1, <1>9
<1> HIDE DEF a, b
<1>12. b + i = a + j
  BY ONLY <1>10, <1>11
<1> QED
  BY <1>12 DEF a, b

\* A row of chunks, each one after the one before.
EvenlySpaced(st) == \A i, j \in 1..Len(st) : st[j] + i = st[i] + j

IsRun(st) == st \in Seq(1..NChunks) /\ EvenlySpaced(st)

\* A stream in which nothing is missing and nothing left over holds one chunk
\* after the other.
LEMMA CleanStream ==
  ASSUME PayloadInv, NChunks <= SeqMod - Span, MissingSeqs(Kept) = {},
         \A s \in Kept : chunks[s] \notin LeftOver
  PROVE  IsRun(Assembled)
<1> DEFINE n == Len(Assembled)
           f == Assembled
<1>1. /\ Assembled \in Seq(Payloads)
      /\ \A i \in 1..n : InOrder(Kept)[i] \in Kept /\ Assembled[i] = chunks[InOrder(Kept)[i]]
  BY AssembledFacts
<1>2. n \in Nat /\ \A i \in 1..n : Assembled[i] \in 1..NChunks
  BY <1>1 DEF Payloads
<1>3. Assembled \in Seq(1..NChunks) /\ Assembled \in [1..n -> Nat]
  <2>1. Assembled = [i \in 1..n |-> Assembled[i]]
    BY <1>1
  <2>2. NChunks \in Nat
    BY ConstantsAssumption
  <2>3. Assembled \in [1..n -> 1..NChunks] /\ Assembled \in [1..n -> Nat]
    BY <1>2, <2>1, <2>2
  <2> QED
    BY <1>2, <2>3, ListOf
<1>4. \A i, j \in 1..n : i < j => Assembled[i] < Assembled[j]
  BY <1>2, OwnInOrder, NChunks <= SeqMod - Span
<1>5. ASSUME NEW i \in 1..n, NEW j \in 1..n, NEW v \in Nat, Assembled[i] < v, v < Assembled[j]
      PROVE  \E k \in 1..n : Assembled[k] = v
  <2>1. Assembled[i] \in 1..NChunks /\ Assembled[j] \in 1..NChunks /\ NChunks \in Nat
    BY <1>2, ConstantsAssumption
  <2>2. v \in 1..NChunks
    BY <1>5, <2>1
  <2>3. PICK k \in 1..n : InOrder(Kept)[k] = SeqOf(v)
    BY <1>5, <2>1, <2>2, BetweenStands, NChunks <= SeqMod - Span
  <2>4. Assembled[k] \in 1..NChunks
    BY <1>2
  <2>5. SeqOf(Assembled[k]) = SeqOf(v) /\ start \in Seqs
    BY <2>3, <2>4, OwnPlace
  <2>6. Assembled[k] = v
    BY <2>2, <2>4, <2>5, SeqOfInjective
  <2> QED
    BY <2>6
<1> HIDE DEF n
<1> DEFINE Even(i, j) == Assembled[j] + i = Assembled[i] + j
<1>6. ASSUME NEW i \in 1..n, NEW j \in 1..n, i <= j
      PROVE  Even(i, j) /\ Even(j, i)
  <2>1. \A k, l \in 1..n : \A v \in Nat :
            f[k] < v /\ v < f[l] => \E m \in 1..n : f[m] = v
    BY <1>5
  <2>2. n \in Nat /\ f \in [1..n -> Nat] /\ \A k, l \in 1..n : k < l => f[k] < f[l]
    BY <1>2, <1>3, <1>4
  <2> HIDE DEF f
  <2>3. f[j] + i = f[i] + j
    BY ONLY <1>6, <2>1, <2>2, EvenSteps
  <2> QED
    BY <2>3 DEF f
<1>7. EvenlySpaced(Assembled)
  <2>1. \A i, j \in 1..n : i <= j \/ j <= i
    BY <1>2
  <2> HIDE DEF Even
  <2>2. \A i, j \in 1..n : Even(i, j)
    BY <1>6, <2>1
  <2> QED
    BY <2>2 DEF EvenlySpaced, n, Even
<1> QED
  BY <1>3, <1>7 DEF IsRun

-----------------------------------------------------------------------------
(* Reading a stream without holes, or anything left over.                  *)

\* What a run holds at two places is as far apart as they are.
LEMMA RunStep ==
  ASSUME NEW st, IsRun(st), NEW i \in 1..Len(st), NEW j \in 1..Len(st)
  PROVE  /\ Len(st) \in Nat /\ 1 \in 1..Len(st) /\ Len(st) \in 1..Len(st)
         /\ st[i] \in 1..NChunks /\ st[j] \in 1..NChunks
         /\ st[j] + i = st[i] + j
<1>1. st \in Seq(1..NChunks) /\ EvenlySpaced(st)
  BY DEF IsRun
<1>2. Len(st) \in Nat /\ st[i] \in 1..NChunks /\ st[j] \in 1..NChunks
  <2>1. Len(st) \in Nat
    BY <1>1
  <2>2. \A k \in 1..Len(st) : st[k] \in 1..NChunks
    BY <1>1, ElementType
  <2> QED
    BY <2>1, <2>2
<1>3. 1 \in 1..Len(st) /\ Len(st) \in 1..Len(st)
  BY <1>2
<1>4. st[j] + i = st[i] + j
  BY <1>1, Zenon DEF EvenlySpaced
<1> QED
  BY <1>2, <1>3, <1>4

LEMMA RecordFacts ==
  ASSUME NEW c \in 1..NChunks
  PROVE  /\ First[c] \in 1..NChunks /\ Last[c] \in 1..NChunks /\ First[c] <= c /\ c <= Last[c]
         /\ \A d \in First[c]..Last[c] :
              /\ d \in 1..NChunks /\ First[d] = First[c] /\ Last[d] = Last[c]
              /\ d \in Audio <=> c \in Audio
  BY ConstantsAssumption, RecordsAssumption

\* Records do not overlap.
LEMMA RecordsInRow ==
  ASSUME NEW c \in 1..NChunks, NEW d \in 1..NChunks, c <= d
  PROVE  First[c] <= First[d] /\ Last[c] <= Last[d]
<1>1. /\ First[c] \in Nat /\ Last[c] \in Nat /\ First[c] <= c /\ c <= Last[c]
      /\ First[d] \in Nat /\ Last[d] \in Nat /\ First[d] <= d /\ d <= Last[d]
  BY RecordFacts
<1>2. c \in First[d]..Last[d] => First[c] = First[d] /\ Last[c] = Last[d]
  BY RecordFacts
<1>3. d \in First[c]..Last[c] => First[c] = First[d] /\ Last[c] = Last[d]
  BY RecordFacts
<1> QED
  BY <1>1, <1>2, <1>3

\* The places of a record in a run are those of its chunks.
LEMMA RunHeaders ==
  ASSUME NEW st, IsRun(st), NEW p \in 1..Len(st), NEW q \in 1..Len(st)
  PROVE  /\ p \in Headers(st) <=> First[st[p]] = st[p] /\ Last[st[p]] <= st[Len(st)]
         /\ q \in Extent(st, p) <=> st[p] <= st[q] /\ st[q] <= Last[st[p]]
<1> DEFINE n == Len(st)
           c == st[p]
           d == st[q]
           e == st[n]
<1>1. n \in Nat /\ n \in 1..n /\ c \in 1..NChunks /\ d \in 1..NChunks /\ e \in 1..NChunks
  BY RunStep
<1>2. d + p = c + q /\ e + p = c + n
  <2> HIDE DEF n
  <2>1. n \in 1..Len(st)
    BY <1>1 DEF n
  <2> QED
    BY <2>1, RunStep
<1>3. Beginning \notin Nat /\ c # Beginning
  BY <1>1, ConstantsAssumption
<1>4. Length(c) = Last[c] - c + 1 /\ (IsHeader(c) <=> First[c] = c)
  BY <1>1, <1>3 DEF Length, IsHeader
<1>5. Last[c] \in Nat
  BY <1>1, RecordFacts
<1>6. p \in Headers(st) <=> First[c] = c /\ p + Length(c) - 1 <= n
  BY <1>4 DEF Headers
<1>7. q \in Extent(st, p) <=> p <= q /\ q <= p + Length(c) - 1
  BY <1>1, <1>4, <1>5 DEF Extent
<1>8. p \in Nat /\ q \in Nat /\ c \in Nat /\ d \in Nat /\ e \in Nat
  BY <1>1
<1> HIDE DEF n, c, d, e
<1>9. p + Length(c) - 1 <= n <=> Last[c] <= e
  BY <1>1, <1>2, <1>4, <1>5, <1>8
<1>10. p <= q <=> c <= d
  BY <1>2, <1>8
<1>11. q <= p + Length(c) - 1 <=> d <= Last[c]
  BY <1>2, <1>4, <1>5, <1>8
<1> QED
  BY <1>6, <1>7, <1>9, <1>10, <1>11 DEF n, c, d, e

\* All records that are whole are read.
LEMMA RunRecords ==
  ASSUME NEW st, IsRun(st)
  PROVE  Records(st) = Headers(st)
<1> DEFINE H == Headers(st)
           Reads(R) == \A q \in H : q \in R <=> \A p \in R : p < q => q \notin Extent(st, p)
<1>1. \A p, q \in H : p < q => q \notin Extent(st, p)
  <2> SUFFICES ASSUME NEW p \in H, NEW q \in H, p < q, q \in Extent(st, p) PROVE FALSE
    OBVIOUS
  <2>1. p \in 1..Len(st) /\ q \in 1..Len(st)
    BY DEF Headers
  <2>2. /\ st[p] \in 1..NChunks /\ st[q] \in 1..NChunks
        /\ st[q] + p = st[p] + q
    BY <2>1, RunStep
  <2>3. /\ First[st[p]] = st[p] /\ First[st[q]] = st[q]
        /\ st[p] <= st[q] /\ st[q] <= Last[st[p]]
    BY <2>1, RunHeaders
  <2>4. st[q] \in First[st[p]]..Last[st[p]]
    BY <2>2, <2>3, RecordFacts
  <2>5. First[st[q]] = First[st[p]]
    BY <2>2, <2>4, RecordFacts
  <2>6. st[q] = st[p]
    BY <2>3, <2>5
  <2> QED
    BY <2>1, <2>2, <2>6
<1>2. Records(st) = CHOOSE R \in SUBSET H : Reads(R)
  BY DEF Records
<1> HIDE DEF H
<1>3. H \in SUBSET H /\ Reads(H)
  BY <1>1
<1>4. Records(st) \in SUBSET H /\ Reads(Records(st))
  <2> HIDE DEF Reads
  <2> QED
    BY <1>2, <1>3
<1>5. \A q \in H : q \in Records(st)
  BY <1>1, <1>4
<1> QED
  BY <1>4, <1>5 DEF H

\* What is read of a run: the chunks of its whole records.
LEMMA RunContents ==
  ASSUME NEW st, IsRun(st), NEW q \in 1..Len(st)
  PROVE  (\E p \in Headers(st) : q \in Extent(st, p))
           <=> st[1] <= First[st[q]] /\ Last[st[q]] <= st[Len(st)]
<1> DEFINE n == Len(st)
<1>1. n \in Nat /\ 1 \in 1..n /\ n \in 1..n /\ q \in 1..n
  BY RunStep
<1>2. \A i \in 1..n : st[i] \in 1..NChunks /\ st[i] + 1 = st[1] + i
  BY <1>1, RunStep
<1>3. ASSUME NEW p \in Headers(st), q \in Extent(st, p)
      PROVE  st[1] <= First[st[q]] /\ Last[st[q]] <= st[n]
  <2>1. p \in 1..n
    BY DEF Headers
  <2>2. First[st[p]] = st[p] /\ Last[st[p]] <= st[n] /\ st[p] <= st[q] /\ st[q] <= Last[st[p]]
    BY <1>3, <2>1, RunHeaders
  <2>3. st[q] \in First[st[p]]..Last[st[p]]
    BY <1>1, <1>2, <2>1, <2>2, RecordFacts
  <2>4. First[st[q]] = st[p] /\ Last[st[q]] = Last[st[p]]
    BY <1>2, <2>1, <2>2, <2>3, RecordFacts
  <2>5. st[1] <= st[p]
    BY <1>1, <1>2, <2>1
  <2> QED
    BY <2>2, <2>4, <2>5
<1>4. ASSUME st[1] <= First[st[q]], Last[st[q]] <= st[n]
      PROVE  \E p \in Headers(st) : q \in Extent(st, p)
  <2> DEFINE c == st[q]
             f == First[c]
             p == q - (c - f)
  <2>1. c \in 1..NChunks /\ f \in 1..NChunks /\ f <= c /\ c <= Last[c] /\ Last[c] \in Nat
    BY <1>1, <1>2, RecordFacts
  <2>2. c + 1 = st[1] + q /\ st[1] \in Nat /\ st[1] <= f /\ Last[c] <= st[n]
    BY <1>1, <1>2, <1>4
  <2>h. f \in First[c]..Last[c] => First[f] = f /\ Last[f] = Last[c]
    BY <2>1, RecordFacts
  <2> HIDE DEF c
  <2>3. First[f] = f /\ Last[f] = Last[c]
    BY <2>1, <2>h
  <2> HIDE DEF f
  <2>4. p \in 1..n /\ p + c = q + f
    BY <1>1, <2>1, <2>2
  <2> HIDE DEF p
  <2>5. st[p] + 1 = st[1] + p /\ st[p] \in Nat
    BY <1>2, <2>4
  <2>6. st[p] = f
    BY <1>1, <2>1, <2>2, <2>4, <2>5
  <2>7. p \in Headers(st)
    BY <2>2, <2>3, <2>4, <2>6, RunHeaders
  <2>8. q \in Extent(st, p)
    BY <2>1, <2>3, <2>4, <2>6, RunHeaders DEF c
  <2> QED
    BY <2>7, <2>8
<1> QED
  BY <1>3, <1>4

\* It is a run itself.
LEMMA RunIsWhole ==
  ASSUME NEW st, IsRun(st), NEW i \in DOMAIN Contents(st, Headers(st)),
         NEW j \in DOMAIN Contents(st, Headers(st)), NEW k \in i..j
  PROVE  k \in DOMAIN Contents(st, Headers(st))
<1>1. i \in 1..Len(st) /\ j \in 1..Len(st) /\ Len(st) \in Nat
  BY DEF Contents, IsRun
<1>2. k \in 1..Len(st)
  BY <1>1
<1>3. /\ st[i] \in 1..NChunks /\ st[j] \in 1..NChunks /\ st[k] \in 1..NChunks
      /\ 1 \in 1..Len(st) /\ Len(st) \in 1..Len(st)
      /\ st[k] + i = st[i] + k /\ st[j] + k = st[k] + j
  BY <1>1, <1>2, RunStep
<1>4. st[i] <= st[k] /\ st[k] <= st[j]
  BY <1>1, <1>2, <1>3
<1>5. First[st[i]] <= First[st[k]] /\ Last[st[k]] <= Last[st[j]]
  BY <1>3, <1>4, RecordsInRow
<1>6. st[1] <= First[st[i]] /\ Last[st[j]] <= st[Len(st)]
  BY <1>1, RunContents DEF Contents
<1>7. /\ st[1] \in Nat /\ st[Len(st)] \in Nat /\ First[st[i]] \in Nat /\ First[st[k]] \in Nat
      /\ Last[st[k]] \in Nat /\ Last[st[j]] \in Nat
  <2>1. st[1] \in 1..NChunks /\ st[Len(st)] \in 1..NChunks
    BY <1>3, RunStep
  <2>2. NChunks \in Nat
    BY ConstantsAssumption
  <2>3. /\ First[st[i]] \in 1..NChunks /\ First[st[k]] \in 1..NChunks
        /\ Last[st[k]] \in 1..NChunks /\ Last[st[j]] \in 1..NChunks
    BY <1>3, RecordFacts
  <2> QED
    BY <2>1, <2>2, <2>3
<1>8. st[1] <= First[st[k]] /\ Last[st[k]] <= st[Len(st)]
  BY <1>5, <1>6, <1>7
<1> QED
  BY <1>2, <1>8, RunContents DEF Contents

\* With as many frames as the video has, all of them are read.
LEMMA RunHasFrames ==
  ASSUME NEW st, IsRun(st), Cardinality(Frames(st, Headers(st))) = Cardinality(FrameChunks),
         NEW c \in (1..NChunks) \ Audio
  PROVE  \E q \in DOMAIN Contents(st, Headers(st)) : Contents(st, Headers(st))[q] = c
<1> DEFINE F == Frames(st, Headers(st))
           g == [p \in F |-> st[p]]
           n == Len(st)
<1>1. \A p \in F : p \in 1..n /\ st[p] \in FrameChunks
  <2> TAKE p \in F
  <2>1. p \in Headers(st) /\ st[p] \notin Audio /\ p \in 1..n
    BY DEF Frames, Sounds, Headers
  <2>2. First[st[p]] = st[p] /\ st[p] \in 1..NChunks
    BY <2>1, RunHeaders, RunStep
  <2> QED
    BY <2>1, <2>2 DEF FrameChunks
<1>2. g \in [F -> FrameChunks] /\ \A p \in F : g[p] = st[p]
  BY <1>1
<1>3. \A p, q \in F : st[p] = st[q] => p = q
  <2> TAKE p, q \in F
  <2>1. p \in 1..n /\ q \in 1..n /\ st[p] \in 1..NChunks /\ st[q] + p = st[p] + q
    BY <1>1, RunStep
  <2> QED
    BY <2>1
<1> HIDE DEF g
<1>4. g \in Injection(F, FrameChunks)
  BY <1>2, <1>3 DEF Injection, IsInjective
<1>5. IsFiniteSet(FrameChunks)
  <2>1. NChunks \in Int /\ 1 \in Int
    BY ConstantsAssumption
  <2>2. IsFiniteSet(1..NChunks)
    BY <2>1, FS_Interval
  <2>3. FrameChunks \in SUBSET (1..NChunks)
    BY DEF FrameChunks
  <2> QED
    BY <2>2, <2>3, FS_Subset
<1>6. g \in Surjection(F, FrameChunks)
  BY <1>4, <1>5, FS_Injection
<1>7. /\ First[c] \in 1..NChunks /\ First[c] <= c /\ c <= Last[c] /\ Last[c] \in Nat
      /\ First[First[c]] = First[c] /\ Last[First[c]] = Last[c] /\ First[c] \notin Audio
  <2>1. First[c] \in 1..NChunks /\ First[c] <= c /\ c <= Last[c] /\ Last[c] \in Nat
    BY RecordFacts
  <2>2. First[c] \in First[c]..Last[c]
    BY <2>1
  <2> QED
    BY <2>1, <2>2, RecordFacts
<1>8. First[c] \in FrameChunks
  BY <1>7 DEF FrameChunks
<1>9. PICK p \in F : st[p] = First[c]
  BY <1>2, <1>6, <1>8 DEF Surjection
<1>10. p \in 1..n /\ p \in Headers(st)
  BY <1>1 DEF Frames
<1>11. Last[c] <= st[n]
  BY <1>7, <1>9, <1>10, RunHeaders
<1> DEFINE q == p + (c - First[c])
<1>12. q \in 1..n
  <2>1. n \in Nat /\ n \in 1..n /\ st[n] + p = st[p] + n /\ st[n] \in Nat
    <3>1. n \in Nat /\ n \in 1..n
      BY <1>10, RunStep
    <3>2. st[n] + p = st[p] + n /\ st[n] \in 1..NChunks
      BY <1>10, <3>1, RunStep
    <3> QED
      BY <3>1, <3>2
  <2> QED
    BY <1>7, <1>9, <1>10, <1>11, <2>1
<1>13. st[q] = c
  <2>1. st[q] + p = st[p] + q /\ st[q] \in Nat
    <3> HIDE DEF q
    <3>1. st[q] + p = st[p] + q /\ st[q] \in 1..NChunks
      BY <1>10, <1>12, RunStep
    <3> QED
      BY <3>1
  <2> QED
    BY <1>7, <1>9, <1>10, <2>1
<1> HIDE DEF q
<1>14. q \in Extent(st, p)
  BY <1>7, <1>9, <1>10, <1>12, <1>13, RunHeaders
<1> QED
  BY <1>10, <1>12, <1>13, <1>14 DEF Contents

\* What strict mode writes of such a video: no chunk that came gave way to anything
\* else, none is missing between two side by side, and without left-over packets it
\* is a run of whole records, with every frame when their number is known.
THEOREM StrictHasNoHole ==
  ASSUME NChunks <= SeqMod - Span
  PROVE  Spec => []StrictWritesARun
<1>1. ResultInv => StrictWritesARun
  <2> SUFFICES ASSUME ResultInv, pc = "written", strict PROVE StrictWritesARun
    BY DEF StrictWritesARun
  <2>1. PayloadInv /\ CameInv /\ pc # "receive"
    BY DEF ResultInv
  <2> DEFINE st == Assembled
  <2>2. PICK honoured \in BOOLEAN :
          /\ result = Contents(st, Selected(st, honoured))
          /\ ~StrictIssue(st, Selected(st, honoured))
    BY DEF ResultInv, ResultOf
  <2>3. /\ MissingSeqs(Kept) = {} /\ ~changed /\ Records(st) = Selected(st, honoured)
        /\ totalKnown => Cardinality(Frames(st, Selected(st, honoured))) = Cardinality(FrameChunks)
    BY <2>2 DEF StrictIssue
  <2>4. \A i \in came : chunks[SeqOf(i)] = i
    BY <2>1, <2>3 DEF CameInv
  <2>5. ASSUME NEW i \in DOMAIN result, i + 1 \in DOMAIN result,
               result[i] \in 1..NChunks, result[i + 1] \in 1..NChunks
        PROVE  result[i + 1] = result[i] + 1
    <3>1. /\ i \in 1..Len(st) /\ result[i] = st[i]
          /\ i + 1 \in 1..Len(st) /\ result[i + 1] = st[i + 1]
      BY <2>1, <2>5, WrittenFacts
    <3> QED
      BY <2>1, <2>3, <2>5, <3>1, NoHole, NChunks <= SeqMod - Span
  <2>6. ASSUME \A s \in Kept : chunks[s] \notin LeftOver
        PROVE  /\ \A i, j \in DOMAIN result : i..j \subseteq DOMAIN result
               /\ totalKnown => (1..NChunks) \ Audio \subseteq {result[i] : i \in DOMAIN result}
    <3>1. IsRun(st)
      BY <2>1, <2>3, <2>6, CleanStream, NChunks <= SeqMod - Span
    <3>2. Selected(st, honoured) = Headers(st)
      BY <2>3, <3>1, RunRecords
    <3>3. result = Contents(st, Headers(st))
      BY <2>2, <3>2
    <3>4. \A i, j \in DOMAIN result : \A k \in i..j : k \in DOMAIN result
      BY <3>1, <3>3, RunIsWhole
    <3>5. totalKnown => \A c \in (1..NChunks) \ Audio : \E q \in DOMAIN result : result[q] = c
      BY <2>3, <3>1, <3>2, <3>3, RunHasFrames
    <3> QED
      BY <3>4, <3>5
  <2> QED
    BY <2>4, <2>5, <2>6 DEF StrictWritesARun
<1> QED
  BY <1>1, ResultAlways, PTL

\* The type invariant: every number the client keeps is a sequence number, the
\* window and the pending count stay within their bounds, and what is written is
\* read from what was kept.
THEOREM VideoTyped == Spec => []TypeOK
<1> DEFINE Inv == /\ ResultInv
                  /\ start \in Starts /\ again \in 0..MaxAgain /\ lost \in 0..MaxLost
                  /\ totalKnown \in BOOLEAN /\ strict \in BOOLEAN
<1>1. Init => Inv
  <2> SUFFICES ASSUME Init PROVE Inv
    OBVIOUS
  <2>1. again \in 0..MaxAgain /\ lost \in 0..MaxLost
    BY ConstantsAssumption DEF Init
  <2>2. start \in Starts /\ totalKnown \in BOOLEAN /\ strict \in BOOLEAN
    BY DEF Init
  <2> QED
    BY <2>1, <2>2, ResultInit
<1>2. Inv /\ [Next]_vars => Inv'
  <2> SUFFICES ASSUME Inv, [Next]_vars PROVE Inv'
    OBVIOUS
  <2>1. ResultInv'
    BY ResultStep
  <2> DEFINE Held == again' \in 0..MaxAgain /\ lost' \in 0..MaxLost /\ start' = start
                     /\ totalKnown' = totalKnown /\ strict' = strict
  <2>1a. again \in Nat /\ lost \in Nat /\ MaxAgain \in Nat /\ MaxLost \in Nat
    BY ConstantsAssumption
  <2>2. ASSUME Send PROVE Held
    BY <2>2 DEF Send
  <2>3. ASSUME NEW i \in 1..NChunks, SendAgain(i) PROVE Held
    <3>1. again < MaxAgain /\ again' = again + 1
      BY <2>3 DEF SendAgain
    <3>2. again' \in 0..MaxAgain
      BY <2>1a, <3>1
    <3> QED
      BY <2>3, <3>2 DEF SendAgain
  <2>4. ASSUME NEW p \in packets, Lose(p) PROVE Held
    <3>1. lost < MaxLost /\ lost' = lost + 1
      BY <2>4 DEF Lose
    <3>2. lost' \in 0..MaxLost
      BY <2>1a, <3>1
    <3> QED
      BY <2>4, <3>2 DEF Lose, cameraVars
  <2>5. ASSUME NEW p \in packets, Receive(p) \/ DropOutlier(p) PROVE Held
    BY <2>5 DEF Receive, DropOutlier, cameraVars
  <2>6. ASSUME Finish PROVE Held
    BY <2>6 DEF Finish, cameraVars, networkVars
  <2>7. ASSUME Finished \/ UNCHANGED vars PROVE Held
    BY <2>7 DEF Finished, vars, cameraVars, networkVars
  <2> QED
    BY <2>1, <2>2, <2>3, <2>4, <2>5, <2>6, <2>7 DEF Next
<1>3. Inv => TypeOK
  <2> SUFFICES ASSUME Inv PROVE TypeOK
    OBVIOUS
  <2>1. \A q \in DOMAIN result : q \in 1..Cardinality(Kept) /\ result[q] \in Payloads
    <3>1. CASE pc = "receive"
      <4>1. result = <<>>
        BY <3>1 DEF ResultInv
      <4> QED
        BY <4>1
    <3>2. CASE pc # "receive"
      <4> TAKE q \in DOMAIN result
      <4>1. q \in 1..Len(Assembled) /\ result[q] = Assembled[q]
        BY <3>2, WrittenFacts
      <4>2. Assembled \in Seq(Payloads) /\ Len(Assembled) = Cardinality(Kept)
        BY AssembledFacts DEF ResultInv
      <4> QED
        BY <4>1, <4>2
    <3> QED
      BY <3>1, <3>2
  <2> QED
    BY <2>1 DEF TypeOK, ResultInv, CameInv, PayloadInv, PacketTypes
<1> QED
  BY <1>1, <1>2, <1>3, PTL DEF Spec

-----------------------------------------------------------------------------
(* ControlChannel: the numbers of commands.                                *)

Ats == {"none", "idle", "ready", "taken", "loaded", "gone"}
SenderStates == [at : Ats, seq : Nat, next : Nat]
CommandNames == {"between", "listing", "drain", "request", "listening", "stopping", "beat", "again"}

\* The senders that have read the counter, and not yet written it.
Pending == {s \in Senders : senders[s].at \in {"taken", "loaded"}}

CommandTypes ==
    /\ ctrlSeq \in Nat
    /\ senders \in [Senders -> SenderStates]
    /\ commands \in Seq([seq : Nat, by : Senders, cmd : CommandNames])
    /\ transfer \in 0..MaxTransfers /\ kind \in Kinds
    /\ started \in BOOLEAN /\ stopped \subseteq 1..MaxTransfers
    /\ flowAt \in CommandNames \ {"beat", "again"}
    /\ flowAt # "between" => transfer \in 1..MaxTransfers

\* While the first request of a download is on its way the flow is alone: its
\* number is the counter's, and what it will write there is one more.
FlowAlone ==
    flowAt = "request" =>
        /\ Drained
        /\ senders[Flow].at \in {"taken", "loaded"} => senders[Flow].seq = ctrlSeq
        /\ senders[Flow].at = "loaded" => senders[Flow].next = ctrlSeq + 1

\* A request is behind: the counter, what is about to be written there, and the
\* numbers taken and not yet sent are past its own.
Passed(n) ==
    /\ ctrlSeq > n
    /\ \A s \in Senders :
         /\ senders[s].at \in {"taken", "loaded"} => senders[s].seq > n
         /\ senders[s].at = "loaded" => senders[s].next > n

RequestInv ==
    /\ CommandTypes /\ FlowAlone /\ LaterGoBeyond
    /\ \A i \in 1..Len(commands) : commands[i].cmd = "request" => Passed(commands[i].seq)

LEMMA FlowIsNoThread == Flow \in Senders /\ Flow \notin Threads
  BY CommandsAssumption DEF Senders, Threads

LEMMA StartFacts ==
  ASSUME CommandTypes, NEW k \in 1..MaxTransfers, NEW c \in Kinds
  PROVE  /\ Start(k, c, senders) \in [Senders -> SenderStates]
         /\ \A s \in Senders : \/ Start(k, c, senders)[s] = senders[s]
                               \/ s \in Threads /\ Start(k, c, senders)[s] = [senders[s] EXCEPT !.at = "idle"]
<1>1. \A s \in Senders : \/ Start(k, c, senders)[s] = senders[s]
                         \/ /\ s \in {<<k, "beat">>} \cup {<<k, "again">>}
                            /\ Start(k, c, senders)[s] = [senders[s] EXCEPT !.at = "idle"]
  BY DEF Start
<1>2. {<<k, "beat">>} \cup {<<k, "again">>} \subseteq Threads
  BY DEF Threads
<1>3. Start(k, c, senders) \in [Senders -> SenderStates]
  BY DEF Start, CommandTypes, SenderStates, Ats
<1> QED
  BY <1>1, <1>2, <1>3

\* A step of a sender, of the flow, or of the rest.
LEMMA CommandTypesStep == ASSUME CommandTypes, [ControlNext]_controlVars PROVE CommandTypes'
<1> USE DEF CommandTypes
<1>1. ASSUME NEW s \in Senders, Take(s) PROVE CommandTypes'
  BY <1>1 DEF Take, flowVars, SenderStates, Ats
<1>2. ASSUME NEW s \in Senders, Load(s) PROVE CommandTypes'
  <2>1. ctrlSeq + 1 \in Nat /\ senders[s] \in SenderStates
    OBVIOUS
  <2>2. senders' = [senders EXCEPT ![s] = [senders[s] EXCEPT !.at = "loaded", !.next = ctrlSeq + 1]]
    BY <1>2, <2>1 DEF Load, SenderStates
  <2>3. [senders[s] EXCEPT !.at = "loaded", !.next = ctrlSeq + 1] \in SenderStates
    BY <2>1 DEF SenderStates, Ats
  <2> QED
    BY <1>2, <2>2, <2>3 DEF Load, flowVars
<1>3. ASSUME NEW s \in Senders, Store(s) PROVE CommandTypes'
  <2>1. /\ senders[s].next \in Nat /\ senders[s].seq \in Nat
        /\ Command(s) \in CommandNames
    BY DEF SenderStates, Command, CommandNames
  <2>2. /\ ctrlSeq' = senders[s].next
        /\ commands' = Append(commands, [seq |-> senders[s].seq, by |-> s, cmd |-> Command(s)])
        /\ senders' = [senders EXCEPT ![s] = [at |-> "idle", seq |-> 0, next |-> 0]]
        /\ UNCHANGED flowVars
    BY <1>3 DEF Store
  <2>3. senders' \in [Senders -> SenderStates]
    BY <2>2 DEF SenderStates, Ats
  <2> QED
    BY <2>1, <2>2, <2>3 DEF flowVars
<1>4. ASSUME NEW t \in Threads, Decide(t) PROVE CommandTypes'
  BY <1>4 DEF Decide, Goes, flowVars, SenderStates, Ats
<1>5. ASSUME NEW t \in Threads, Leave(t) PROVE CommandTypes'
  BY <1>5 DEF Leave, Goes, flowVars, SenderStates, Ats
<1>6. ASSUME NEW c \in Kinds, Begin(c) PROVE CommandTypes'
  <2>1. transfer + 1 \in 1..MaxTransfers
    BY <1>6, CommandsAssumption DEF Begin
  <2>2. senders' \in [Senders -> SenderStates]
    BY <1>6, <2>1, StartFacts DEF Begin
  <2>3. transfer' = transfer + 1 /\ transfer' \in 0..MaxTransfers
    BY <1>6, <2>1, CommandsAssumption DEF Begin
  <2>4. started' \in BOOLEAN /\ UNCHANGED <<ctrlSeq, commands, stopped>> /\ kind' \in Kinds
    BY <1>6 DEF Begin
  <2>5. flowAt' \in CommandNames \ {"beat", "again"}
    BY <1>6 DEF Begin, CommandNames
  <2> QED
    BY <2>1, <2>2, <2>3, <2>4, <2>5
<1>7. CASE Request
  BY <1>7, FlowIsNoThread DEF Request, SenderStates, Ats, CommandNames
<1>8. CASE Listen
  <2>1. senders' \in [Senders -> SenderStates]
    BY <1>8 DEF Listen, Start, SenderStates, Ats
  <2> QED
    BY <1>8, <2>1 DEF Listen, CommandNames
<1>9. CASE Data
  BY <1>9 DEF Data, commandVars
<1>10. CASE ListCommand
  BY <1>10 DEF ListCommand, Goes, flowVars, SenderStates, Ats
<1>11. CASE StopVideo
  BY <1>11 DEF StopVideo, Goes, SenderStates, Ats, CommandNames
<1>12. CASE End
  BY <1>12, CommandsAssumption DEF End, commandVars, CommandNames
<1>13. CASE UNCHANGED controlVars
  BY <1>13 DEF controlVars, commandVars, flowVars
<1> QED
  BY <1>1, <1>2, <1>3, <1>4, <1>5, <1>6, <1>7, <1>8, <1>9, <1>10, <1>11, <1>12, <1>13
  DEF ControlNext, ControlFinished

\* The steps that send nothing: no sender gets nearer to writing the counter.
Quieter ==
    /\ UNCHANGED <<ctrlSeq, commands>>
    /\ \A s \in Senders :
         /\ senders'[s].at \in {"taken", "loaded"} => senders'[s].at = senders[s].at
         /\ senders'[s].seq = senders[s].seq /\ senders'[s].next = senders[s].next

LEMMA FlowSteps ==
  ASSUME CommandTypes, [ControlNext]_controlVars
  PROVE  \/ \E s \in Senders : Take(s) \/ Load(s) \/ Store(s)
         \/ Quieter /\ (flowAt' # "request" \/ Request \/ flowAt = "request")
<1> USE DEF CommandTypes
<1>4. ASSUME NEW t \in Threads, Decide(t) \/ Leave(t) PROVE Quieter /\ flowAt' = flowAt
  <2>1. /\ senders[t].at = "idle" /\ UNCHANGED <<ctrlSeq, commands>> /\ flowAt' = flowAt
        /\ \/ senders' = [senders EXCEPT ![t].at = "ready"]
           \/ senders' = [senders EXCEPT ![t].at = "gone"]
    BY <1>4 DEF Decide, Leave, Goes, flowVars
  <2>2. t \in Senders
    BY DEF Senders
  <2>3. \A s \in Senders : /\ (senders'[s].at = senders[s].at \/ senders'[s].at \in {"ready", "gone"})
                            /\ senders'[s].seq = senders[s].seq /\ senders'[s].next = senders[s].next
    <3> TAKE s \in Senders
    <3>1. senders \in [Senders -> SenderStates] /\ senders[s] \in SenderStates
      OBVIOUS
    <3>2. CASE s # t
      BY <2>1, <2>2, <3>1, <3>2
    <3>3. CASE s = t
      <4>1. \/ senders'[s] = [senders[s] EXCEPT !.at = "ready"]
            \/ senders'[s] = [senders[s] EXCEPT !.at = "gone"]
        BY <2>1, <2>2, <3>1, <3>3
      <4> QED
        BY <3>1, <4>1 DEF SenderStates
    <3> QED
      BY <3>2, <3>3
  <2> QED
    BY <2>1, <2>3 DEF Quieter
<1>5. ASSUME NEW k \in 1..MaxTransfers, NEW c \in Kinds
      PROVE  \A s \in Senders :
                 /\ \/ Start(k, c, senders)[s] = senders[s]
                    \/ Start(k, c, senders)[s].at = "idle"
                 /\ Start(k, c, senders)[s].seq = senders[s].seq
                 /\ Start(k, c, senders)[s].next = senders[s].next
  <2> TAKE s \in Senders
  <2>1. LET r == [senders[s] EXCEPT !.at = "idle"]
        IN  r.at = "idle" /\ r.seq = senders[s].seq /\ r.next = senders[s].next
    BY DEF SenderStates
  <2>2. \/ Start(k, c, senders)[s] = senders[s]
        \/ Start(k, c, senders)[s] = [senders[s] EXCEPT !.at = "idle"]
    BY StartFacts
  <2> QED
    BY <2>1, <2>2
<1>6. ASSUME NEW c \in Kinds, Begin(c) PROVE Quieter /\ flowAt' # "request"
  <2>1. transfer + 1 \in 1..MaxTransfers
    BY <1>6, CommandsAssumption DEF Begin
  <2>2. senders' = Start(transfer + 1, c, senders) \/ senders' = senders
    BY <1>6 DEF Begin
  <2>3. \A s \in Senders : /\ (senders'[s] = senders[s] \/ senders'[s].at = "idle")
                            /\ senders'[s].seq = senders[s].seq /\ senders'[s].next = senders[s].next
    BY <1>5, <2>1, <2>2
  <2> QED
    BY <1>6, <2>3 DEF Begin, Quieter
<1>7. CASE Request
  <2>1. Quieter
    BY <1>7, FlowIsNoThread DEF Request, Quieter, SenderStates
  <2> QED
    BY <1>7, <2>1
<1>8. CASE Listen
  <2>1. transfer \in 1..MaxTransfers /\ kind \in Kinds
    BY <1>8 DEF Listen
  <2>2. \A s \in Senders : /\ (senders'[s] = senders[s] \/ senders'[s].at = "idle")
                            /\ senders'[s].seq = senders[s].seq /\ senders'[s].next = senders[s].next
    BY <1>5, <1>8, <2>1 DEF Listen
  <2> QED
    BY <1>8, <2>2 DEF Listen, Quieter
<1>9. CASE Data
  BY <1>9 DEF Data, commandVars, Quieter
<1>10. CASE ListCommand
  BY <1>10 DEF ListCommand, Goes, flowVars, Quieter, SenderStates
<1>11. CASE StopVideo
  BY <1>11 DEF StopVideo, Goes, Quieter, SenderStates
<1>12. CASE End
  BY <1>12 DEF End, commandVars, Quieter
<1>13. CASE UNCHANGED controlVars
  BY <1>13 DEF controlVars, commandVars, flowVars, Quieter
<1> QED
  BY <1>4, <1>6, <1>7, <1>8, <1>9, <1>10, <1>11, <1>12, <1>13 DEF ControlNext, ControlFinished

\* While the flow asks, no thread has begun to send.
LEMMA FlowAloneStep ==
  ASSUME CommandTypes, FlowAlone, [ControlNext]_controlVars
  PROVE  FlowAlone'
<1> USE DEF CommandTypes
<1> SUFFICES ASSUME flowAt' = "request"
             PROVE  /\ Drained'
                    /\ senders'[Flow].at \in {"taken", "loaded"} => senders'[Flow].seq = ctrlSeq'
                    /\ senders'[Flow].at = "loaded" => senders'[Flow].next = ctrlSeq' + 1
  BY DEF FlowAlone
<1>1. CASE Request
  <2>1. Drained' /\ senders'[Flow].at = "ready"
    BY <1>1, FlowIsNoThread DEF Request, Drained, SenderStates, Senders
  <2> QED
    BY <2>1
<1>2. CASE ~Request
  <2>1. flowAt = "request" /\ ~(\E t \in Threads : Decide(t) \/ Leave(t)) /\ ~Listen
    <3>1. flowAt = "request"
      <4>1. \A s \in Senders : Take(s) \/ Load(s) \/ Store(s) => flowAt' = flowAt
        BY DEF Take, Load, Store, flowVars
      <4> QED
        BY <1>2, <4>1, FlowSteps
    <3>2. \A t \in Threads : senders[t].at # "idle"
      BY <3>1 DEF FlowAlone, Drained
    <3> QED
      BY <3>1, <3>2 DEF Decide, Leave, Goes, Listen
  <2>2. /\ Drained
        /\ senders[Flow].at \in {"taken", "loaded"} => senders[Flow].seq = ctrlSeq
        /\ senders[Flow].at = "loaded" => senders[Flow].next = ctrlSeq + 1
    BY <2>1 DEF FlowAlone
  <2>3. ASSUME NEW s \in Senders, Take(s) \/ Load(s) \/ Store(s)
        PROVE  /\ Drained'
               /\ senders'[Flow].at \in {"taken", "loaded"} => senders'[Flow].seq = ctrlSeq'
               /\ senders'[Flow].at = "loaded" => senders'[Flow].next = ctrlSeq' + 1
    <3>1. s = Flow
      BY <2>2, <2>3 DEF Drained, Take, Load, Store, Senders
    <3>2. Drained'
      BY <2>2, <2>3, <3>1, FlowIsNoThread DEF Drained, Take, Load, Store, Senders
    <3>3. CASE Take(s)
      BY <3>1, <3>2, <3>3 DEF Take, SenderStates
    <3>4. CASE Load(s)
      BY <2>2, <3>1, <3>2, <3>4 DEF Load, SenderStates
    <3>5. CASE Store(s)
      BY <3>1, <3>2, <3>5 DEF Store, SenderStates
    <3> QED
      BY <2>3, <3>3, <3>4, <3>5
  <2>4. CASE UNCHANGED <<ctrlSeq, senders>>
    BY <2>2, <2>4 DEF Drained
  <2> QED
    BY <2>1, <2>3, <2>4, <1>2
    DEF ControlNext, Begin, Data, ListCommand, StopVideo, End, ControlFinished, controlVars, commandVars
<1> QED
  BY <1>1, <1>2

\* The same of the state that a step leads to.
PassedNext(n) ==
    /\ ctrlSeq' > n
    /\ \A s \in Senders :
         /\ senders'[s].at \in {"taken", "loaded"} => senders'[s].seq > n
         /\ senders'[s].at = "loaded" => senders'[s].next > n

\* What comes after a request passes its number.
LEMMA PassedStep ==
  ASSUME CommandTypes, NEW n \in Nat, Passed(n), [ControlNext]_controlVars
  PROVE  PassedNext(n)
<1> USE DEF CommandTypes
<1>1. ASSUME NEW s \in Senders, Take(s) PROVE PassedNext(n)
  BY <1>1 DEF Take, Passed, PassedNext, SenderStates
<1>2. ASSUME NEW s \in Senders, Load(s) PROVE PassedNext(n)
  <2>1. senders' = [senders EXCEPT ![s] = [senders[s] EXCEPT !.at = "loaded", !.next = ctrlSeq + 1]]
    BY <1>2 DEF Load, SenderStates
  <2>2. senders'[s].next = ctrlSeq + 1 /\ senders'[s].seq = senders[s].seq /\ senders[s].at = "taken"
    BY <1>2, <2>1 DEF Load, SenderStates
  <2>3. \A u \in Senders : u # s => senders'[u] = senders[u]
    BY <2>1
  <2>4. ctrlSeq' = ctrlSeq /\ ctrlSeq + 1 > n
    BY <1>2 DEF Load, Passed
  <2> QED
    BY <2>2, <2>3, <2>4 DEF Passed, PassedNext
<1>3. ASSUME NEW s \in Senders, Store(s) PROVE PassedNext(n)
  BY <1>3 DEF Store, Passed, PassedNext, SenderStates
<1>4. CASE Quieter
  BY <1>4 DEF Quieter, Passed, PassedNext
<1> QED
  BY <1>1, <1>2, <1>3, <1>4, FlowSteps

LEMMA RequestStep == ASSUME RequestInv, [ControlNext]_controlVars PROVE RequestInv'
<1>0. CommandTypes /\ FlowAlone /\ CommandTypes' /\ FlowAlone'
  BY CommandTypesStep, FlowAloneStep DEF RequestInv
<1>1. \A n \in Nat : Passed(n) => PassedNext(n)
  BY <1>0, PassedStep
<1> DEFINE l == Len(commands)
<1>2. l \in Nat /\ \A i \in 1..l : commands[i].seq \in Nat
  <2>1. commands \in Seq([seq : Nat, by : Senders, cmd : CommandNames])
    BY <1>0 DEF CommandTypes
  <2>2. \A i \in 1..Len(commands) : commands[i] \in [seq : Nat, by : Senders, cmd : CommandNames]
    BY <2>1, ElementType
  <2>3. l \in Nat
    BY <2>1
  <2> QED
    BY <2>2, <2>3
<1>3. \A i \in 1..l : commands[i].cmd = "request" => Passed(commands[i].seq)
  BY DEF RequestInv
<1>4. \A i, j \in 1..l : commands[i].cmd = "request" /\ i < j => commands[j].seq > commands[i].seq
  BY DEF RequestInv, LaterGoBeyond
<1>5. ASSUME UNCHANGED commands PROVE RequestInv'
  <2>1. \A i \in 1..l : commands[i].cmd = "request" => PassedNext(commands[i].seq)
    BY <1>1, <1>2, <1>3
  <2>2. LaterGoBeyond'
    BY <1>4, <1>5, <2>1 DEF LaterGoBeyond, PassedNext
  <2> QED
    BY <1>0, <1>5, <2>1, <2>2 DEF RequestInv, Passed, PassedNext
<1>6. ASSUME NEW s \in Senders, Store(s) PROVE RequestInv'
  <2> DEFINE q == senders[s].seq
  <2>1. /\ commands' = Append(commands, [seq |-> q, by |-> s, cmd |-> Command(s)])
        /\ senders' = [senders EXCEPT ![s] = [at |-> "idle", seq |-> 0, next |-> 0]]
        /\ ctrlSeq' = senders[s].next
        /\ senders[s].at = "loaded" /\ flowAt' = flowAt
    BY <1>6 DEF Store, flowVars
  <2>2. /\ q \in Nat /\ Len(commands') = l + 1
        /\ \A i \in 1..l : commands'[i] = commands[i]
        /\ commands'[l + 1].seq = q /\ commands'[l + 1].cmd = Command(s)
    BY <1>0, <2>1 DEF CommandTypes, SenderStates
  <2>3. Command(s) = "request" => PassedNext(q)
    <3> HAVE Command(s) = "request"
    <3>1. s = Flow /\ flowAt = "request"
      BY DEF Command
    <3>2. Drained /\ senders[s].seq = ctrlSeq /\ senders[s].next = ctrlSeq + 1
      BY <1>0, <2>1, <3>1 DEF FlowAlone
    <3>3. \A u \in Senders : senders'[u].at \notin {"taken", "loaded"}
      BY <1>0, <2>1, <3>1, <3>2 DEF Drained, Senders, CommandTypes
    <3>4. ctrlSeq' = ctrlSeq + 1 /\ q = ctrlSeq /\ ctrlSeq \in Nat
      BY <1>0, <2>1, <3>2 DEF CommandTypes
    <3> QED
      BY <3>3, <3>4 DEF PassedNext
  <2>4. \A i \in 1..l : commands[i].cmd = "request" => q > commands[i].seq
    BY <1>3, <2>1 DEF Passed
  <2> HIDE DEF q, l
  <2>5. \A i \in 1..(l + 1) : i \in 1..l \/ i = l + 1
    BY <1>2
  <2>6. \A i, j \in 1..(l + 1) : i < j => i \in 1..l
    BY <1>2
  <2>7. \A i \in 1..Len(commands') : commands'[i].cmd = "request" => PassedNext(commands'[i].seq)
    BY <1>1, <1>2, <1>3, <2>2, <2>3, <2>5
  <2>8. \A i, j \in 1..Len(commands') :
          commands'[i].cmd = "request" /\ i < j => commands'[j].seq > commands'[i].seq
    BY <1>4, <2>2, <2>4, <2>5, <2>6
  <2>9. LaterGoBeyond'
    BY <2>7, <2>8 DEF LaterGoBeyond, PassedNext
  <2> QED
    BY <1>0, <2>7, <2>9 DEF RequestInv, Passed, PassedNext
<1>7. UNCHANGED commands \/ \E s \in Senders : Store(s)
  BY <1>0, FlowSteps DEF Take, Load, Quieter
<1> QED
  BY <1>5, <1>6, <1>7

LEMMA RequestInit == ASSUME ControlInit PROVE RequestInv
<1>1. senders \in [Senders -> SenderStates]
  BY DEF ControlInit, SenderStates, Ats
<1>2. transfer \in 0..MaxTransfers /\ ctrlSeq \in Nat
  BY CommandsAssumption DEF ControlInit
<1>3. /\ started \in BOOLEAN /\ stopped \subseteq 1..MaxTransfers /\ kind \in Kinds
      /\ flowAt = "between" /\ flowAt \in CommandNames \ {"beat", "again"}
  BY DEF ControlInit, Kinds, CommandNames
<1>5. commands \in Seq([seq : Nat, by : Senders, cmd : CommandNames])
  <2>1. commands = <<>>
    BY DEF ControlInit
  <2> QED
    BY <2>1
<1>4. CommandTypes
  BY <1>1, <1>2, <1>3, <1>5 DEF CommandTypes
<1> QED
  BY <1>4 DEF ControlInit, RequestInv, FlowAlone, LaterGoBeyond

\* What goes out after the first request of a download has a higher number, and the
\* counter stays above it, whatever the threads of the transfers before do: any
\* number of transfers and of commands.
THEOREM RequestIsOutrun == ControlSpec => []LaterGoBeyond
<1>1. ControlInit => RequestInv
  BY RequestInit
<1>2. RequestInv /\ [ControlNext]_controlVars => RequestInv'
  BY RequestStep
<1>3. RequestInv => LaterGoBeyond
  BY DEF RequestInv
<1> QED
  BY <1>1, <1>2, <1>3, PTL DEF ControlSpec

-----------------------------------------------------------------------------
(* The counter stays below the number of commands, sent or under way, so   *)
(* that its bound is the bound on commands.                                *)

CountInv ==
    /\ CommandTypes
    /\ ctrlSeq <= Len(commands)
    /\ Len(commands) + Cardinality(Pending) <= MaxCommands
    /\ \A n \in 1..Len(commands) : commands[n].seq <= MaxCommands
    /\ \A s \in Senders :
         /\ senders[s].seq <= MaxCommands /\ senders[s].next <= MaxCommands
         /\ senders[s].at = "loaded" => senders[s].next <= Len(commands) + 1

LEMMA PendingFinite ==
  /\ IsFiniteSet(Pending) /\ Cardinality(Pending) \in Nat
  /\ IsFiniteSet(Pending') /\ Cardinality(Pending') \in Nat
<1>1. IsFiniteSet(1..MaxTransfers)
  BY FS_Interval, CommandsAssumption
<1>2. IsFiniteSet({"beat", "again"})
  <2>1. IsFiniteSet({"beat"} \cup {"again"})
    BY FS_Singleton, FS_AddElement
  <2>2. {"beat"} \cup {"again"} = {"beat", "again"}
    OBVIOUS
  <2> QED
    BY <2>1, <2>2
<1>3. IsFiniteSet(Senders)
  BY <1>1, <1>2, FS_Product, FS_AddElement DEF Senders, Threads
<1>4. Pending \subseteq Senders /\ Pending' \subseteq Senders
  BY DEF Pending
<1> QED
  BY <1>3, <1>4, FS_Subset, FS_CardinalityType

LEMMA CountStep == ASSUME CountInv, [ControlNext]_controlVars PROVE CountInv'
<1> DEFINE l == Len(commands)
           c == Cardinality(Pending)
<1>0. CommandTypes /\ CommandTypes' /\ l \in Nat /\ c \in Nat /\ MaxCommands \in Nat /\ ctrlSeq \in Nat
  BY CommandTypesStep, PendingFinite, CommandsAssumption DEF CountInv, CommandTypes
<1>p. IsFiniteSet(Pending) /\ IsFiniteSet(Pending') /\ Cardinality(Pending') \in Nat
  BY PendingFinite
<1>i. /\ ctrlSeq <= l /\ l + c <= MaxCommands
      /\ \A n \in 1..l : commands[n].seq <= MaxCommands
      /\ \A s \in Senders : /\ senders[s].seq <= MaxCommands /\ senders[s].next <= MaxCommands
                            /\ senders[s].at = "loaded" => senders[s].next <= l + 1
  BY DEF CountInv
<1>s. \A s \in Senders : senders[s] \in SenderStates /\ senders[s].seq \in Nat /\ senders[s].next \in Nat
  BY <1>0 DEF CommandTypes, SenderStates
<1> HIDE DEF l, c
<1>1. ASSUME NEW s \in Senders, Take(s) PROVE CountInv'
  <2>1. /\ l + c < MaxCommands /\ senders[s].at = "ready"
        /\ senders' = [senders EXCEPT ![s] = [at |-> "taken", seq |-> ctrlSeq, next |-> 0]]
        /\ UNCHANGED <<ctrlSeq, commands>>
    BY <1>1 DEF Take, Pending, l, c
  <2>2. Pending' = Pending \cup {s} /\ s \notin Pending
    BY <1>0, <2>1 DEF Pending, CommandTypes
  <2>3. Cardinality(Pending') = c + 1
    BY <1>p, <2>2, FS_AddElement DEF c
  <2>4. Len(commands') = l
    BY <2>1 DEF l
  <2>5. \A u \in Senders : IF u = s THEN senders'[u] = [at |-> "taken", seq |-> ctrlSeq, next |-> 0]
                                    ELSE senders'[u] = senders[u]
    BY <1>0, <2>1 DEF CommandTypes
  <2> QED
    BY <1>0, <1>i, <2>1, <2>3, <2>4, <2>5 DEF CountInv
<1>2. ASSUME NEW s \in Senders, Load(s) PROVE CountInv'
  <2>1. /\ senders[s].at = "taken" /\ UNCHANGED <<ctrlSeq, commands>>
        /\ senders' = [senders EXCEPT ![s] = [senders[s] EXCEPT !.at = "loaded", !.next = ctrlSeq + 1]]
    BY <1>2, <1>s DEF Load, SenderStates
  <2>2. \A u \in Senders : IF u = s THEN senders'[u] = [senders[s] EXCEPT !.at = "loaded", !.next = ctrlSeq + 1]
                                    ELSE senders'[u] = senders[u]
    BY <1>0, <2>1 DEF CommandTypes
  <2>3. /\ senders'[s].at = "loaded" /\ senders'[s].seq = senders[s].seq
        /\ senders'[s].next = ctrlSeq + 1
    BY <1>s, <2>2 DEF SenderStates
  <2>4. Pending' = Pending /\ s \in Pending
    BY <2>1, <2>2, <2>3 DEF Pending
  <2>5. c # 0
    BY <1>p, <2>4, FS_EmptySet DEF c
  <2>6. Len(commands') = l /\ Cardinality(Pending') = c
    BY <2>1, <2>4 DEF l, c
  <2>7. ctrlSeq + 1 <= MaxCommands /\ ctrlSeq + 1 <= l + 1
    BY <1>0, <1>i, <2>5
  <2>8. \A u \in Senders : /\ senders'[u].seq <= MaxCommands /\ senders'[u].next <= MaxCommands
                           /\ senders'[u].at = "loaded" => senders'[u].next <= l + 1
    BY <1>i, <2>2, <2>3, <2>7
  <2> QED
    BY <1>0, <1>i, <2>1, <2>6, <2>8 DEF CountInv
<1>3. ASSUME NEW s \in Senders, Store(s) PROVE CountInv'
  <2>1. /\ commands' = Append(commands, [seq |-> senders[s].seq, by |-> s, cmd |-> Command(s)])
        /\ senders' = [senders EXCEPT ![s] = [at |-> "idle", seq |-> 0, next |-> 0]]
        /\ ctrlSeq' = senders[s].next
        /\ senders[s].at = "loaded"
    BY <1>3 DEF Store
  <2>2. Pending' = Pending \ {s} /\ s \in Pending
    BY <1>0, <2>1 DEF Pending, CommandTypes
  <2>3. Cardinality(Pending') = c - 1
    BY <1>p, <2>2, FS_RemoveElement DEF c
  <2>4. /\ Len(commands') = l + 1
        /\ \A n \in 1..l : commands'[n] = commands[n]
        /\ commands'[l + 1].seq = senders[s].seq
    BY <1>0, <2>1 DEF CommandTypes, l
  <2>5. \A u \in Senders : IF u = s THEN senders'[u] = [at |-> "idle", seq |-> 0, next |-> 0]
                                    ELSE senders'[u] = senders[u]
    BY <1>0, <2>1 DEF CommandTypes
  <2>6. \A n \in 1..(l + 1) : n \in 1..l \/ n = l + 1
    BY <1>0
  <2>7. \A n \in 1..(l + 1) : commands'[n].seq <= MaxCommands
    BY <1>i, <2>4, <2>6
  <2>8. \A u \in Senders : /\ senders'[u].seq <= MaxCommands /\ senders'[u].next <= MaxCommands
                           /\ senders'[u].at = "loaded" => senders'[u].next <= l + 2
    BY <1>0, <1>i, <1>s, <2>5
  <2>9. ctrlSeq' <= l + 1 /\ l + 1 + (c - 1) <= MaxCommands
    BY <1>0, <1>i, <1>s, <2>1
  <2>10. (l + 1) + 1 = l + 2
    BY <1>0
  <2> QED
    BY <1>0, <2>3, <2>4, <2>7, <2>8, <2>9, <2>10 DEF CountInv
<1>4. CASE \A s \in Senders : ~(Take(s) \/ Load(s) \/ Store(s))
  <2>1. Quieter
    BY <1>0, <1>4, FlowSteps
  <2>2. Pending' \subseteq Pending
    BY <2>1 DEF Quieter, Pending
  <2>3. Cardinality(Pending') <= c /\ Len(commands') = l
    BY <1>p, <2>1, <2>2, FS_Subset DEF Quieter, c, l
  <2>4. \A s \in Senders : senders'[s].seq = senders[s].seq /\ senders'[s].next = senders[s].next
    BY <2>1 DEF Quieter
  <2> QED
    BY <1>0, <1>i, <1>p, <2>1, <2>3, <2>4 DEF CountInv, Quieter
<1> QED
  BY <1>1, <1>2, <1>3, <1>4

\* The counter, the numbers of commands and the state of every sender have their
\* types: the counter never runs ahead of the commands.
THEOREM CommandsTyped == ControlSpec => []ControlTypeOK
<1>1. ControlInit => CountInv
  <2> SUFFICES ASSUME ControlInit PROVE CountInv
    OBVIOUS
  <2>1. CommandTypes
    <3>1. RequestInv
      BY RequestInit
    <3> QED
      BY <3>1 DEF RequestInv
  <2>2. Pending = {}
    BY DEF ControlInit, Pending
  <2>3. Cardinality(Pending) = 0
    BY <2>2, FS_EmptySet
  <2>4. Len(commands) = 0 /\ ctrlSeq = 0
    BY DEF ControlInit
  <2>5. \A s \in Senders : senders[s].seq = 0 /\ senders[s].next = 0
    BY DEF ControlInit
  <2> QED
    BY <2>1, <2>3, <2>4, <2>5, CommandsAssumption DEF CountInv
<1>2. CountInv /\ [ControlNext]_controlVars => CountInv'
  BY CountStep
<1>3. CountInv => ControlTypeOK
  <2> SUFFICES ASSUME CountInv PROVE ControlTypeOK
    OBVIOUS
  <2>1. CommandTypes /\ MaxCommands \in Nat
    BY CommandsAssumption DEF CountInv
  <2>2. Len(commands) \in Nat /\ Cardinality(Pending) \in Nat /\ ctrlSeq \in Nat
    BY <2>1, PendingFinite DEF CommandTypes
  <2>3. ctrlSeq \in 0..MaxCommands
    BY <2>1, <2>2 DEF CountInv
  <2>4. \A s \in Senders : senders[s] \in [at : Ats, seq : 0..MaxCommands, next : 0..MaxCommands]
    <3> TAKE s \in Senders
    <3>1. senders[s] \in SenderStates
      BY <2>1 DEF CommandTypes
    <3>2. senders[s].seq \in 0..MaxCommands /\ senders[s].next \in 0..MaxCommands
      BY <2>1, <3>1 DEF CountInv, SenderStates
    <3> QED
      BY <3>1, <3>2 DEF SenderStates
  <2>5. senders \in [Senders -> [at : Ats, seq : 0..MaxCommands, next : 0..MaxCommands]]
    BY <2>1, <2>4 DEF CommandTypes
  <2>6. \A n \in 1..Len(commands) : commands[n].seq \in 0..MaxCommands
    <3> TAKE n \in 1..Len(commands)
    <3>1. commands[n] \in [seq : Nat, by : Senders, cmd : CommandNames]
      BY <2>1, ElementType DEF CommandTypes
    <3> QED
      BY <2>1, <3>1 DEF CountInv
  <2> QED
    BY <2>1, <2>3, <2>5, <2>6 DEF CommandTypes, ControlTypeOK, CommandNames, Ats
<1> QED
  BY <1>1, <1>2, <1>3, PTL DEF ControlSpec

-----------------------------------------------------------------------------
(* The two side by side.                                                   *)

\* A behaviour of both is one of each, with steps that leave it alone.
LEMMA OneBesideTheOther == TransfersSpec => Spec /\ ControlSpec
<1>1. TransfersInit => Init /\ ControlInit
  BY DEF TransfersInit
<1>2. [TransfersNext]_<<vars, controlVars, part>> => [Next]_vars /\ [ControlNext]_controlVars
  BY DEF TransfersNext
<1> QED
  BY <1>1, <1>2, PTL DEF TransfersSpec, Spec, ControlSpec

\* Every state of the two has its types, whatever the constants.
THEOREM TransfersTyped == TransfersSpec => []TypesOK
<1>1. TypeOK /\ ControlTypeOK => TypesOK
  BY DEF TypesOK
<1> QED
  BY <1>1, OneBesideTheOther, VideoTyped, CommandsTyped, PTL
=============================================================================
