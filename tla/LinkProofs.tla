----------------------------- MODULE LinkProofs -----------------------------
(***************************************************************************)
(* Proofs about HmiLink: whatever the network loses, repeats and reorders, *)
(* and however often the windows are restarted on whatever port, the       *)
(* receiver takes no command of a session twice or out of order, refuses   *)
(* none that is the newest, loses no event, and leaves the robot where the *)
(* operator let go of it, for every width of the sequence word and every   *)
(* number of ports, peers and places of the queue.                         *)
(***************************************************************************)
EXTENDS HmiLink, TLAPS, WellFoundedInduction, SequenceTheorems

-----------------------------------------------------------------------------
(* The inductive invariant.                                                *)

\* A panel that has run for long is about to wrap around; it is not restarted.
\* What it has sent before is known to the receiver by this number.
LongRun == sent[Panel] >= SequenceRange - 2
Base(p) == IF LongRun /\ p = 1 THEN SequenceRange - 2 ELSE 0

\* The counts of the datagrams of a port, and the count that a sequence word of
\* that port stands for.
CountsOf(p)     == Base(p) + 1 .. Base(p) + MaxSent
Unwrapped(p, s) == IF s >= Base(p) THEN s ELSE s + SequenceRange
CountAt(i)      == Unwrapped(peers[i].port, peers[i].sequence)

Taken      == ToSet(accepted[Panel]) \cup ToSet(accepted[Teaching])
Everywhere == net \cup Taken

\* The windows are within their bounds.
SentWithinBounds ==
    /\ sent[Teaching] \in 0 .. MaxSent
    /\ \/ sent[Panel] \in 0 .. MaxSent
       \/ sent[Panel] \in SequenceRange - 2 .. SequenceRange - 2 + MaxSent

WindowInv ==
    /\ SentWithinBounds
    /\ LongRun => port[Panel] = 1 /\ session[Panel] = 1
    /\ session[Panel] + session[Teaching] =< MaxRestarts + 2
    /\ dragging => ~released

\* A datagram is what its window has sent, in a session it has had.
IsSound(d) ==
    /\ d.count \in CountsOf(d.port)
    /\ d.sequence = d.count % SequenceRange
    /\ d.session =< session[d.window]
    /\ d.session = session[d.window] => /\ d.port = port[d.window]
                                        /\ d.count =< sent[d.window]
    /\ d.command = Guidance <=> d.window = Teaching
    /\ released /\ d.window = Teaching /\ LastSent(d) => d.pose = target

\* A session keeps its port.
SamePort(d, e) ==
    d.window = e.window /\ d.session = e.session => d.port = e.port

DatagramInv ==
    /\ \A d \in Everywhere : IsSound(d)
    /\ \A d, e \in Everywhere : SamePort(d, e)

\* The table remembers the last datagram taken of every port it knows.
SlotInv ==
    /\ \A d \in Taken : \E i \in Slots : /\ peers[i].used /\ peers[i].port = d.port
                                         /\ d.count =< CountAt(i)
    /\ \A i \in Slots :
          peers[i].used =>
              \/ CountAt(i) = Base(peers[i].port)
              \/ \E d \in Taken : d.port = peers[i].port /\ d.count = CountAt(i)

\* What was taken of a port was taken in the order of the counts.
OrderInv ==
    \A w \in Windows : \A i, j \in DOMAIN accepted[w] :
        /\ accepted[w][i].window = w
        /\ i < j /\ accepted[w][i].port = accepted[w][j].port
              => accepted[w][i].count < accepted[w][j].count

\* The last pose taken is being written, waits, or was consumed.
LastPose == accepted[Teaching][Len(accepted[Teaching])].pose

PoseInv ==
    accepted[Teaching] # << >> =>
        \/ writing = LastPose
        \/ /\ writing = << >> /\ guidanceXyz = LastPose
           /\ guidancePending \/ consumed = LastPose

IInv == /\ LinkTypeOK /\ WindowInv /\ DatagramInv /\ SlotInv /\ OrderInv
        /\ PoseInv /\ NoEventIsLost

-----------------------------------------------------------------------------
(* Sequence words.                                                         *)

\* The sizes that the width of the numbers gives.
LEMMA Widths ==
    /\ HalfRange \in Nat /\ HalfRange >= 2
    /\ SequenceRange \in Nat /\ SequenceRange = 2 * HalfRange
    /\ MaxSent \in 0 .. HalfRange - 1
BY WidthAssumption DEF WidthAssumption, SequenceRange

\* A number that is out of a range by less than the range wraps around once.
LEMMA WrapsOnce ==
    ASSUME NEW n \in Nat \ {0}, NEW k \in 1 - n .. 2 * n - 1
    PROVE  k % n = IF k < 0 THEN k + n ELSE IF k < n THEN k ELSE k - n
<1>1. CASE k < 0
  BY <1>1
<1>2. CASE 0 =< k /\ k < n
  BY <1>2
<1>3. CASE k >= n
  BY <1>3
<1> QED
  BY <1>1, <1>2, <1>3

\* A panel starts at 0, the one with a stale counter just below the wrap.
LEMMA BaseType ==
    ASSUME NEW p
    PROVE  Base(p) \in {0, SequenceRange - 2}
BY DEF Base

\* Of two counts in half a range the words tell which one is the later.
LEMMA WordsCompare ==
    ASSUME NEW p,
           NEW s \in 0 .. SequenceRange - 1, NEW t \in 0 .. SequenceRange - 1,
           Unwrapped(p, s) \in Base(p) .. Base(p) + MaxSent,
           Unwrapped(p, t) \in Base(p) .. Base(p) + MaxSent
    PROVE  Difference(s, t) > 0 <=> Unwrapped(p, s) > Unwrapped(p, t)
<1>1. PICK b \in 0 .. SequenceRange - 1 : b = Base(p)
  BY BaseType, Widths
<1>2. PICK k \in 1 - SequenceRange .. SequenceRange - 1 : k = s - t
  BY Widths
<1>3. k % SequenceRange = IF k < 0 THEN k + SequenceRange ELSE k
  <2>1. SequenceRange \in Nat \ {0} /\ k < SequenceRange
    BY Widths
  <2>2. k \in 1 - SequenceRange .. 2 * SequenceRange - 1
    BY <2>1
  <2>3. k % SequenceRange = IF k < 0 THEN k + SequenceRange
                            ELSE IF k < SequenceRange THEN k
                            ELSE k - SequenceRange
    BY <2>1, <2>2, WrapsOnce
  <2> QED
    BY <2>1, <2>3
<1>4. Difference(s, t) = IF k < 0
                         THEN IF k + SequenceRange >= HalfRange THEN k
                              ELSE k + SequenceRange
                         ELSE IF k >= HalfRange THEN k - SequenceRange ELSE k
  BY <1>2, <1>3, Widths DEF Difference
<1>5. /\ Unwrapped(p, s) = IF s >= b THEN s ELSE s + SequenceRange
      /\ Unwrapped(p, t) = IF t >= b THEN t ELSE t + SequenceRange
  BY <1>1 DEF Unwrapped
<1> QED
  BY <1>1, <1>2, <1>4, <1>5, Widths

\* The word of a datagram stands for its count.
LEMMA WordIsCount ==
    ASSUME NEW d, d.count \in CountsOf(d.port),
           d.sequence = d.count % SequenceRange
    PROVE  /\ Unwrapped(d.port, d.sequence) = d.count
           /\ d.sequence \in 0 .. SequenceRange - 1
<1>1. PICK b \in {0, SequenceRange - 2} : b = Base(d.port)
  BY BaseType
<1>2. PICK k \in b + 1 .. b + MaxSent : k = d.count
  BY <1>1 DEF CountsOf
<1>3. k \in 1 - SequenceRange .. 2 * SequenceRange - 1
  BY <1>2, Widths
<1>4. d.sequence = IF k < SequenceRange THEN k ELSE k - SequenceRange
  <2>1. SequenceRange \in Nat \ {0} /\ k > 0
    BY <1>2, Widths
  <2>2. k % SequenceRange = IF k < 0 THEN k + SequenceRange
                            ELSE IF k < SequenceRange THEN k
                            ELSE k - SequenceRange
    BY <1>3, <2>1, WrapsOnce
  <2> QED
    BY <1>2, <2>1, <2>2
<1> QED
  BY <1>1, <1>2, <1>4, Widths DEF Unwrapped

-----------------------------------------------------------------------------
(* The table of the receiver.                                              *)

\* The smallest of some slots is one of them.
LEMMA SmallestSlot ==
    ASSUME NEW T, T \subseteq Slots, T # {}
    PROVE  \E i \in T : \A j \in T : i =< j
<1>1. T \subseteq Nat
  BY SlotsAssumption DEF SlotsAssumption, Slots
<1>2. PICK i \in T : \A j \in T : <<j, i>> \notin OpToRel(<, Nat)
  BY <1>1, WFMin, NatLessThanWellFounded
<1>3. \A j \in T : ~ (j < i)
  BY <1>1, <1>2 DEF OpToRel
<1> QED
  BY <1>1, <1>3

\* The slot that a datagram gets is one of those it may have.
LEMMA SlotIsChosen ==
    ASSUME NEW d, SlotsFor(d) # {}
    PROVE  SlotOf(d) \in SlotsFor(d)
<1>1. SlotsFor(d) \subseteq Slots
  BY DEF SlotsFor, Known, Unused
<1> QED
  BY <1>1, SmallestSlot DEF SlotOf

-----------------------------------------------------------------------------
(* What a window sends.                                                    *)

\* Only datagrams are under way, and only datagrams were taken.
LEMMA AllAreDatagrams == LinkTypeOK => Everywhere \subseteq Datagrams
<1> SUFFICES ASSUME LinkTypeOK
             PROVE  Everywhere \subseteq Datagrams
  OBVIOUS
<1>1. \A w \in Windows : accepted[w] \in Seq(Datagrams)
  BY DEF LinkTypeOK
<1>2. \A w \in Windows : ToSet(accepted[w]) \subseteq Datagrams
  BY <1>1 DEF ToSet
<1>3. net \subseteq Datagrams
  BY DEF LinkTypeOK
<1> QED
  BY <1>2, <1>3 DEF Everywhere, Taken, Windows

\* A window sends the datagram with the next count, within the range of its
\* port.
SentIsSound(w, q) ==
    /\ q \in Datagrams
    /\ q.window = w /\ q.session = session[w] /\ q.port = port[w]
    /\ q.count = sent[w] + 1 /\ q.sequence = q.count % SequenceRange
    /\ q.count \in CountsOf(q.port)
    /\ net' \subseteq net \cup {q}
    /\ sent' = [sent EXCEPT ![w] = sent[w] + 1]

\* What a window sends is numbered as its latest, and says what it was given.
LEMMA SendIsSound ==
    ASSUME LinkTypeOK, WindowInv,
           NEW w \in Windows, NEW command \in Commands, NEW pose \in Box,
           Send(w, command, pose)
    PROVE  /\ SentIsSound(w, Packet(w, command, pose))
           /\ Packet(w, command, pose).command = command
           /\ Packet(w, command, pose).pose = pose
           /\ LongRun' <=> LongRun
           /\ SentWithinBounds'
<1> DEFINE q == Packet(w, command, pose)
<1>1. /\ q.window = w /\ q.session = session[w] /\ q.port = port[w]
      /\ q.count = sent[w] + 1 /\ q.sequence = (sent[w] + 1) % SequenceRange
      /\ q.command = command /\ q.pose = pose
  BY DEF Packet
<1>2. net' \subseteq net \cup {q} /\ sent' = [sent EXCEPT ![w] = sent[w] + 1]
  BY DEF Send
<1>3. /\ w = Panel \/ w = Teaching
      /\ Panel \in Windows /\ Teaching \in Windows /\ Panel # Teaching
  BY DEF Windows, Panel, Teaching
<1>4. /\ sent \in [Windows -> Nat] /\ session \in [Windows -> Nat \ {0}]
      /\ port \in [Windows -> Ports] /\ port[Panel] # port[Teaching]
  <2>1. /\ sent \in [Windows -> 0 .. SequenceRange + MaxSent]
        /\ session \in [Windows -> 1 .. MaxRestarts + 1]
        /\ port \in [Windows -> Ports] /\ port[Panel] # port[Teaching]
    BY DEF LinkTypeOK
  <2>2. /\ 0 .. SequenceRange + MaxSent \subseteq Nat
        /\ 1 .. MaxRestarts + 1 \subseteq Nat \ {0}
    BY Widths
  <2> QED
    BY <2>1, <2>2
<1>5. sent[w] < FirstCount(w) + MaxSent - (session[w] - 1)
  BY DEF Send
<1>6. sent[w] < FirstCount(w) + MaxSent
  <2>1. FirstCount(w) \in Nat
    BY Widths DEF FirstCount
  <2>2. session[w] \in Nat \ {0} /\ sent[w] \in Nat
    BY <1>4
  <2> QED
    BY <1>5, <2>1, <2>2, Widths
<1> DEFINE Goal == q.count \in CountsOf(q.port) /\ (LongRun' <=> LongRun)
                   /\ SentWithinBounds'
<1>7. ASSUME LongRun, w = Panel PROVE Goal
  <2>1. /\ sent[w] \in SequenceRange - 2 .. SequenceRange - 2 + MaxSent
        /\ port[w] = 1
    BY <1>7, Widths DEF WindowInv, SentWithinBounds, LongRun
  <2>2. FirstCount(w) = SequenceRange - 2 /\ Base(port[w]) = SequenceRange - 2
    BY <1>7, <2>1, Widths DEF FirstCount, Base
  <2>3. /\ q.count \in CountsOf(q.port)
        /\ sent[w] + 1 \in SequenceRange - 2 .. SequenceRange - 2 + MaxSent
    BY <1>1, <1>6, <2>1, <2>2, Widths DEF CountsOf
  <2>4. sent'[Panel] = sent[w] + 1 /\ sent'[Teaching] = sent[Teaching]
    BY <1>2, <1>3, <1>4, <1>7
  <2> QED
    BY <1>7, <2>1, <2>3, <2>4, Widths DEF WindowInv, SentWithinBounds, LongRun
<1>8. ASSUME ~(LongRun /\ w = Panel) PROVE Goal
  <2>1. sent[w] \in 0 .. MaxSent
    BY <1>3, <1>8, Widths DEF WindowInv, SentWithinBounds, LongRun
  <2>2. FirstCount(w) = 0
    BY <2>1, Widths DEF FirstCount
  <2>3. Base(port[w]) = 0
    BY <1>3, <1>4, <1>8 DEF Base, WindowInv
  <2>4. /\ q.count \in CountsOf(q.port)
        /\ sent[w] + 1 \in 0 .. MaxSent
    BY <1>1, <1>6, <2>1, <2>2, <2>3, Widths DEF CountsOf
  <2>5. \/ w = Panel /\ ~LongRun
           /\ sent'[Panel] = sent[w] + 1 /\ sent'[Teaching] = sent[Teaching]
        \/ w = Teaching
           /\ sent'[Teaching] = sent[w] + 1 /\ sent'[Panel] = sent[Panel]
    BY <1>2, <1>3, <1>4, <1>8
  <2> QED
    BY <2>1, <2>4, <2>5, Widths DEF WindowInv, SentWithinBounds, LongRun
<1>9. q \in Datagrams
  <2>1. PICK k \in Nat : k = sent[w] + 1
    BY <1>4
  <2>2. k % SequenceRange \in 0 .. SequenceRange - 1
    BY Widths
  <2>3. session[w] \in 1 .. MaxRestarts + 1 /\ port[w] \in Ports
    BY DEF LinkTypeOK
  <2> QED
    BY <2>1, <2>2, <2>3 DEF Datagrams, Packet
<1> QED
  BY <1>1, <1>2, <1>7, <1>8, <1>9 DEF SentIsSound

\* The datagrams under way stay sound with the one that is sent, if that one
\* holds the target as often as the window has let go of it.
LEMMA SendKeepsDatagrams ==
    ASSUME LinkTypeOK, DatagramInv, NEW w \in Windows, NEW q,
           SentIsSound(w, q), q.command = Guidance <=> w = Teaching,
           w = Panel => target' = target /\ released' = released,
           w = Teaching /\ released' => q.pose = target',
           LongRun' <=> LongRun, UNCHANGED <<port, session, accepted>>
    PROVE  DatagramInv'
<1>1. Everywhere' \subseteq Everywhere \cup {q}
  BY DEF SentIsSound, Everywhere, Taken
<1>2. /\ w = Panel \/ w = Teaching
      /\ Panel # Teaching
  BY DEF Windows, Panel, Teaching
<1>3. /\ sent[w] \in Nat /\ \A v \in Windows : sent[v] \in Nat
      /\ sent'[w] = sent[w] + 1
      /\ \A v \in Windows : v # w => sent'[v] = sent[v]
  BY Widths DEF LinkTypeOK, SentIsSound
<1>4. \A p : CountsOf(p)' = CountsOf(p)
  BY DEF CountsOf, Base
<1>5. \A d \in Everywhere :
          d.count \in Nat /\ d.window \in Windows /\ d.session \in Nat
  BY AllAreDatagrams DEF Datagrams
<1>6. ASSUME NEW d \in Everywhere PROVE IsSound(d)'
  <2>1. IsSound(d)
    BY DEF DatagramInv
  <2>2. ASSUME d.session = session[d.window]
        PROVE  /\ d.port = port[d.window]
               /\ d.count =< sent'[d.window] /\ (d.window = w => d.count < sent'[w])
    BY <1>3, <1>5, <2>1, <2>2 DEF IsSound
  <2>3. ASSUME released', d.window = Teaching, LastSent(d)'
        PROVE  d.pose = target'
    <3>1. d.session = session[Teaching] /\ d.count = sent'[Teaching]
      BY <2>3 DEF LastSent
    <3>2. w # Teaching
      BY <1>3, <1>5, <2>2, <2>3, <3>1
    <3>3. sent'[Teaching] = sent[Teaching] /\ w = Panel
      BY <1>2, <1>3, <3>2 DEF Windows
    <3> QED
      BY <2>1, <2>3, <3>1, <3>3 DEF IsSound, LastSent
  <2> QED
    BY <1>4, <2>1, <2>2, <2>3 DEF IsSound
<1>7. IsSound(q)'
  <2>1. /\ q.window = w /\ q.session = session[w] /\ q.port = port[w]
        /\ q.count = sent'[w] /\ q.sequence = q.count % SequenceRange
        /\ q.count \in CountsOf(q.port)'
    BY <1>3, <1>4 DEF SentIsSound
  <2>2. session[w] \in Nat /\ sent'[w] \in Nat
    BY <1>3 DEF LinkTypeOK
  <2> QED
    BY <2>1, <2>2 DEF IsSound
<1>8. ASSUME NEW d \in Everywhere PROVE SamePort(d, q) /\ SamePort(q, d)
  BY <1>6 DEF DatagramInv, IsSound, SamePort, SentIsSound
<1>9. SamePort(q, q)
  BY DEF SamePort
<1>10. \A d, e \in Everywhere : SamePort(d, e)
  BY DEF DatagramInv
<1> QED
  BY <1>1, <1>6, <1>7, <1>8, <1>9, <1>10 DEF DatagramInv, SamePort

\* The clamp takes every pose into the box.
LEMMA ClampedIsInBox ==
    ASSUME NEW pose \in Poses \cup Box
    PROVE  ClampedPose(pose) \in Box
<1>1. \A a \in Axes : pose[a] \in Int
  BY BoxAssumption DEF BoxAssumption, Poses, Box
<1>2. \A c \in Int : Clamp(c) \in Low .. High
  BY BoxAssumption DEF BoxAssumption, Clamp
<1> QED
  BY <1>1, <1>2 DEF ClampedPose, Box

-----------------------------------------------------------------------------
(* The steps of the windows.                                               *)

linkOnly == <<peers, estop, guidanceVars, taskVars, acceptedVars, consumed>>

PanelsInv == LinkTypeOK /\ WindowInv /\ DatagramInv

\* What a step of a window keeps.
KeepsPanels == PanelsInv' /\ (LongRun' <=> LongRun)

\* A step that sends nothing and is no restart changes the target at most.
LEMMA QuietStep ==
    ASSUME PanelsInv, UNCHANGED <<port, sent, session, net, linkOnly>>,
           target' \in Poses \cup Box, dragging' \in BOOLEAN, released' \in BOOLEAN,
           dragging' => ~released',
           released' => released /\ target' = target
    PROVE  KeepsPanels
<1>1. LinkTypeOK'
  BY DEF PanelsInv, LinkTypeOK, linkOnly, guidanceVars, taskVars, acceptedVars
<1>2. LongRun' <=> LongRun
  BY DEF LongRun
<1>3. WindowInv'
  BY <1>2 DEF PanelsInv, WindowInv, SentWithinBounds
<1>4. Everywhere' = Everywhere /\ \A p : CountsOf(p)' = CountsOf(p)
  BY <1>2 DEF Everywhere, Taken, linkOnly, acceptedVars, CountsOf, Base
<1>5. DatagramInv'
  <2>1. ASSUME NEW d \in Everywhere PROVE IsSound(d)'
    <3>1. IsSound(d)
      BY DEF PanelsInv, DatagramInv
    <3> QED
      BY <1>4, <3>1 DEF IsSound, LastSent
  <2>2. \A d, e \in Everywhere : SamePort(d, e)
    BY DEF PanelsInv, DatagramInv
  <2> QED
    BY <1>4, <2>1, <2>2 DEF DatagramInv, SamePort
<1> QED
  BY <1>1, <1>2, <1>3, <1>5 DEF KeepsPanels, PanelsInv

\* A step that sends is what its window may do, and keeps the rest.
LEMMA SendStep ==
    ASSUME PanelsInv, UNCHANGED <<port, session, linkOnly>>,
           NEW w \in Windows, NEW command \in Commands, NEW pose \in Box,
           Send(w, command, pose), command = Guidance <=> w = Teaching,
           w = Panel => target' = target /\ released' = released,
           w = Teaching /\ released' => pose = target',
           target' \in Poses \cup Box, dragging' \in BOOLEAN, released' \in BOOLEAN,
           dragging' => ~released'
    PROVE  KeepsPanels
<1> DEFINE q == Packet(w, command, pose)
<1>1. /\ SentIsSound(w, q) /\ q.command = command /\ q.pose = pose
      /\ (LongRun' <=> LongRun) /\ SentWithinBounds'
  BY SendIsSound DEF PanelsInv
<1> HIDE DEF q
<1>2. DatagramInv'
  BY <1>1, SendKeepsDatagrams DEF PanelsInv, linkOnly, acceptedVars
<1>3. WindowInv'
  BY <1>1 DEF PanelsInv, WindowInv
<1>4. sent' \in [Windows -> 0 .. SequenceRange + MaxSent]
  <2>1. /\ sent'[Panel] \in 0 .. SequenceRange + MaxSent
        /\ sent'[Teaching] \in 0 .. SequenceRange + MaxSent
    BY <1>1, Widths DEF SentWithinBounds
  <2>2. DOMAIN sent' = Windows /\ sent' = [v \in Windows |-> sent'[v]]
    BY <1>1 DEF SentIsSound, PanelsInv, LinkTypeOK
  <2> QED
    BY <2>1, <2>2 DEF Windows
<1>5. net' \subseteq Datagrams
  BY <1>1 DEF SentIsSound, PanelsInv, LinkTypeOK
<1>6. LinkTypeOK'
  BY <1>4, <1>5 DEF PanelsInv, LinkTypeOK, linkOnly, guidanceVars, taskVars,
                   acceptedVars
<1> QED
  BY <1>1, <1>2, <1>3, <1>6 DEF KeepsPanels, PanelsInv

\* A button sends one command, and keeps the rest.
LEMMA PressButtonStep ==
    ASSUME PanelsInv, PressButton, UNCHANGED linkOnly
    PROVE  KeepsPanels
<1>1. PICK event \in Buttons \cap OfferedEvents : Send(Panel, event, NoPose)
  BY DEF PressButton
<1>2. event \in Commands /\ event # Guidance
  BY ButtonsAssumption DEF ButtonsAssumption, Commands, Events, ToggleEstop, Guidance
<1>3. NoPose \in Box
  BY BoxAssumption DEF BoxAssumption, NoPose, Box
<1>4. Panel \in Windows /\ Panel # Teaching
  BY DEF Windows, Panel, Teaching
<1>5. UNCHANGED <<port, session, target, dragging, released>>
  BY DEF PressButton
<1>6. /\ target' \in Poses \cup Box /\ dragging' \in BOOLEAN /\ released' \in BOOLEAN
      /\ dragging' => ~released'
  BY <1>5 DEF PanelsInv, LinkTypeOK, WindowInv
<1> QED
  BY <1>1, <1>2, <1>3, <1>4, <1>5, <1>6, SendStep

\* The pose of a drag and the last one of a drag are sent the same way.
LEMMA SendTargetStep ==
    ASSUME PanelsInv, UNCHANGED <<port, session, linkOnly>>,
           NEW pose \in Poses \cup Box, SendTarget(pose),
           dragging' \in BOOLEAN, released' \in BOOLEAN, dragging' => ~released'
    PROVE  KeepsPanels
<1>1. ClampedPose(pose) \in Box
  BY ClampedIsInBox
<1>2. target' = ClampedPose(pose) /\ Send(Teaching, Guidance, ClampedPose(pose))
  BY DEF SendTarget
<1>3. Teaching \in Windows /\ Teaching # Panel /\ Guidance \in Commands
  BY DEF Windows, Panel, Teaching, Commands
<1> QED
  BY <1>1, <1>2, <1>3, SendStep

\* While the target is dragged poses are sent, all of them in the box.
LEMMA DragStep ==
    ASSUME PanelsInv, Drag, UNCHANGED linkOnly
    PROVE  KeepsPanels
<1>1. /\ UNCHANGED <<port, session, dragging, released>> /\ dragging
      /\ dragging' \in BOOLEAN /\ released' \in BOOLEAN /\ ~released'
  BY DEF Drag, PanelsInv, LinkTypeOK, WindowInv
<1>2. PICK pose \in Poses :
          \/ SendTarget(pose)
          \/ target' = pose /\ UNCHANGED <<sent, net>>
  BY DEF Drag
<1>3. CASE SendTarget(pose)
  BY <1>1, <1>2, <1>3, SendTargetStep
<1>4. CASE target' = pose /\ UNCHANGED <<sent, net>>
  BY <1>1, <1>2, <1>4, QuietStep
<1> QED
  BY <1>2, <1>3, <1>4

\* Grabbing the target starts a drag from where the target is.
LEMMA GrabStep ==
    ASSUME PanelsInv, Grab, UNCHANGED linkOnly
    PROVE  KeepsPanels
<1>1. /\ UNCHANGED <<port, sent, session, target, net>>
      /\ target' \in Poses \cup Box /\ dragging' = TRUE /\ released' = FALSE
  BY DEF Grab, PanelsInv, LinkTypeOK
<1> QED
  BY <1>1, QuietStep

\* Letting go of the target ends the drag where the target is.
LEMMA ReleaseStep ==
    ASSUME PanelsInv, Release, UNCHANGED linkOnly
    PROVE  KeepsPanels
<1>1. /\ UNCHANGED <<port, session>> /\ SendTarget(target)
      /\ target \in Poses \cup Box /\ dragging' = FALSE /\ released' = TRUE
  BY DEF Release, PanelsInv, LinkTypeOK
<1> QED
  BY <1>1, SendTargetStep

\* A drag that is given up leaves a target that is sound.
LEMMA AbandonStep ==
    ASSUME PanelsInv, Abandon, UNCHANGED linkOnly
    PROVE  KeepsPanels
<1>1. /\ UNCHANGED <<port, sent, session, target, released, net>>
      /\ target' \in Poses \cup Box /\ dragging' = FALSE /\ released' \in BOOLEAN
  BY DEF Abandon, PanelsInv, LinkTypeOK
<1> QED
  BY <1>1, QuietStep

\* A window that is restarted begins a session that no datagram is of.
LEMMA RestartStep ==
    ASSUME PanelsInv, NEW w \in Windows, Restart(w), UNCHANGED linkOnly
    PROVE  KeepsPanels
<1>1. /\ session' = [session EXCEPT ![w] = session[w] + 1]
      /\ sent' = [sent EXCEPT ![w] = 0]
      /\ net' = net
      /\ sent[w] < HalfRange
      /\ session[Panel] + session[Teaching] < MaxRestarts + 2
  BY DEF Restart
<1>2. PICK p \in Ports \ {port[v] : v \in Windows \ {w}} :
          port' = [port EXCEPT ![w] = p]
  BY DEF Restart
<1>3. /\ w = Panel \/ w = Teaching
      /\ Panel \in Windows /\ Teaching \in Windows /\ Panel # Teaching
  BY DEF Windows, Panel, Teaching
<1>4. /\ session \in [Windows -> 1 .. MaxRestarts + 1] /\ MaxRestarts \in Nat
      /\ port \in [Windows -> Ports]
      /\ sent \in [Windows -> 0 .. SequenceRange + MaxSent]
  BY WidthAssumption DEF WidthAssumption, PanelsInv, LinkTypeOK
<1>5. /\ session'[w] = session[w] + 1 /\ sent'[w] = 0
      /\ \A v \in Windows : v # w => /\ session'[v] = session[v]
                                     /\ sent'[v] = sent[v] /\ port'[v] = port[v]
      /\ \A v \in Windows : sent[v] \in Nat /\ session[v] \in Nat \ {0}
  BY <1>1, <1>2, <1>4, Widths
<1>6. /\ w = Panel => ~LongRun /\ ~LongRun'
      /\ LongRun' <=> LongRun
  BY <1>1, <1>3, <1>5, Widths DEF LongRun
<1>7. /\ target' \in Poses \cup Box /\ dragging' \in BOOLEAN
      /\ released' \in BOOLEAN /\ dragging' => ~released'
      /\ w = Teaching => released' = FALSE
      /\ w # Teaching => released' = released /\ target' = target
  <2>1. NoPose \in Box
    BY BoxAssumption DEF BoxAssumption, NoPose, Box
  <2> QED
    BY <2>1 DEF Restart, PanelsInv, LinkTypeOK, WindowInv
<1>8. WindowInv'
  <2>1. SentWithinBounds'
    BY <1>3, <1>5, Widths DEF PanelsInv, WindowInv, SentWithinBounds
  <2>2. session'[Panel] + session'[Teaching] =< MaxRestarts + 2
    BY <1>1, <1>3, <1>4, <1>5
  <2>3. LongRun' => port'[Panel] = 1 /\ session'[Panel] = 1
    BY <1>3, <1>5, <1>6 DEF PanelsInv, WindowInv
  <2> QED
    BY <1>7, <2>1, <2>2, <2>3 DEF WindowInv
<1>9. LinkTypeOK'
  <2>1. session' \in [Windows -> 1 .. MaxRestarts + 1]
    <3>1. session[w] + 1 \in 1 .. MaxRestarts + 1
      BY <1>1, <1>3, <1>4, <1>5
    <3> QED
      BY <1>1, <1>4, <3>1
  <2>2. sent' \in [Windows -> 0 .. SequenceRange + MaxSent]
    BY <1>1, <1>4, Widths
  <2>3. port' \in [Windows -> Ports] /\ port'[Panel] # port'[Teaching]
    BY <1>2, <1>3, <1>4 DEF PanelsInv, LinkTypeOK
  <2> QED
    BY <1>1, <1>7, <2>1, <2>2, <2>3
    DEF PanelsInv, LinkTypeOK, linkOnly, guidanceVars, taskVars, acceptedVars
<1>10. Everywhere' = Everywhere /\ \A r : CountsOf(r)' = CountsOf(r)
  BY <1>1, <1>6 DEF Everywhere, Taken, linkOnly, acceptedVars, CountsOf, Base
<1>11. ASSUME NEW d \in Everywhere PROVE IsSound(d)'
  <2>1. IsSound(d) /\ d.window \in Windows /\ d.session \in Nat
    BY AllAreDatagrams DEF PanelsInv, DatagramInv, Datagrams
  <2>2. d.window = w => d.session < session'[w]
    BY <1>5, <2>1 DEF IsSound
  <2>3. d.session =< session'[d.window]
    BY <1>5, <2>1, <2>2 DEF IsSound
  <2>4. d.session = session'[d.window] => /\ d.port = port'[d.window]
                                          /\ d.count =< sent'[d.window]
    BY <1>5, <2>1, <2>2 DEF IsSound
  <2>5. released' /\ d.window = Teaching /\ LastSent(d)' => d.pose = target'
    BY <1>3, <1>5, <1>7, <2>1 DEF IsSound, LastSent
  <2> QED
    BY <1>10, <2>1, <2>3, <2>4, <2>5 DEF IsSound
<1>12. DatagramInv'
  BY <1>10, <1>11 DEF PanelsInv, DatagramInv, SamePort
<1> QED
  BY <1>6, <1>8, <1>9, <1>12 DEF KeepsPanels, PanelsInv

\* Whatever the panels do, what they sent stays sound.
LEMMA PanelsStep ==
    ASSUME PanelsInv, PanelsNext, UNCHANGED linkOnly
    PROVE  KeepsPanels
BY PressButtonStep, DragStep, GrabStep, ReleaseStep, AbandonStep, RestartStep
   DEF PanelsNext

-----------------------------------------------------------------------------
(* The receiver.                                                           *)

\* What a slot remembers is within the range of its port.
LEMMA SlotCounts ==
    ASSUME LinkTypeOK, DatagramInv, SlotInv, NEW i \in Slots, peers[i].used
    PROVE  CountAt(i) \in Base(peers[i].port) .. Base(peers[i].port) + MaxSent
<1>1. Base(peers[i].port) \in Nat
  BY BaseType, Widths
<1>2. CASE CountAt(i) = Base(peers[i].port)
  BY <1>1, <1>2, Widths
<1>3. CASE \E d \in Taken : d.port = peers[i].port /\ d.count = CountAt(i)
  BY <1>1, <1>3, Widths DEF DatagramInv, Everywhere, IsSound, CountsOf
<1> QED
  BY <1>2, <1>3 DEF SlotInv

\* The words tell whether a datagram is later than what its slot remembers.
LEMMA NewsIsLaterThanSlot ==
    ASSUME LinkTypeOK, DatagramInv, SlotInv, NEW d \in net, SlotsFor(d) # {}
    PROVE  /\ SlotOf(d) \in Slots
           /\ peers[SlotOf(d)].used =>
                 /\ peers[SlotOf(d)].port = d.port
                 /\ IsNews(d) <=> CountAt(SlotOf(d)) < d.count
           /\ ~peers[SlotOf(d)].used => Known(d) = {} /\ IsNews(d)
<1>1. PICK i \in SlotsFor(d) : i = SlotOf(d)
  BY SlotIsChosen
<1>2. i \in Slots /\ (peers[i].used => i \in Known(d))
  BY <1>1 DEF SlotsFor, Known, Unused
<1>3. ~peers[i].used => Known(d) = {} /\ IsNews(d)
  BY <1>1 DEF SlotsFor, Known, IsNews
<1>4. ASSUME peers[i].used
      PROVE  peers[i].port = d.port /\ (IsNews(d) <=> CountAt(i) < d.count)
  <2>1. peers[i].port = d.port
    BY <1>2, <1>4 DEF Known
  <2>2. peers[i].sequence \in 0 .. SequenceRange - 1
    BY <1>2 DEF LinkTypeOK
  <2>3. CountAt(i) \in Base(d.port) .. Base(d.port) + MaxSent
    BY <1>2, <1>4, <2>1, SlotCounts
  <2>4. IsSound(d)
    BY DEF DatagramInv, Everywhere
  <2>5. /\ Unwrapped(d.port, d.sequence) = d.count
        /\ d.sequence \in 0 .. SequenceRange - 1
    BY <2>4, WordIsCount DEF IsSound
  <2>6. d.count \in Base(d.port) .. Base(d.port) + MaxSent
    BY <2>4, BaseType, Widths DEF IsSound, CountsOf
  <2>7. Difference(d.sequence, peers[i].sequence) > 0 <=> d.count > CountAt(i)
    BY <2>1, <2>2, <2>3, <2>5, <2>6, WordsCompare DEF CountAt
  <2>8. d.count \in Int /\ CountAt(i) \in Int
    BY <2>3, <2>6, BaseType, Widths
  <2>9. IsNews(d) <=> Difference(d.sequence, peers[i].sequence) > 0
    BY <1>1, <1>4 DEF IsNews
  <2> QED
    BY <2>1, <2>7, <2>8, <2>9
<1> QED
  BY <1>1, <1>2, <1>3, <1>4

\* What is news is later than all that was taken of its port.
LEMMA NewsIsLater ==
    ASSUME LinkTypeOK, DatagramInv, SlotInv, NEW d \in net, IsNews(d),
           NEW e \in Taken, e.port = d.port
    PROVE  e.count < d.count
<1>1. PICK i \in Slots : /\ peers[i].used /\ peers[i].port = d.port
                         /\ e.count =< CountAt(i)
  BY DEF SlotInv
<1>2. SlotsFor(d) # {} /\ i \in Known(d)
  BY <1>1 DEF IsNews, Known
<1>3. SlotOf(d) \in Slots /\ peers[SlotOf(d)].used /\ peers[SlotOf(d)].port = d.port
  BY <1>2, NewsIsLaterThanSlot
<1>4. SlotOf(d) = i
  BY <1>1, <1>3 DEF LinkTypeOK
<1>5. CountAt(i) < d.count
  BY <1>2, <1>3, <1>4, NewsIsLaterThanSlot
<1>6. e.count \in Int /\ d.count \in Int /\ CountAt(i) \in Int
  <2>1. e \in Datagrams /\ d \in Datagrams
    BY AllAreDatagrams DEF Everywhere
  <2>2. CountAt(i) \in Int
    BY <1>1, SlotCounts, BaseType, Widths
  <2> QED
    BY <2>1, <2>2 DEF Datagrams
<1> QED
  BY <1>1, <1>5, <1>6

\* A datagram that is accepted is taken, and nothing else is.
LEMMA AcceptTakes ==
    ASSUME LinkTypeOK, NEW d \in Datagrams, Accept(d)
    PROVE  /\ Taken' = Taken \cup {d}
           /\ accepted' \in [Windows -> Seq(Datagrams)]
           /\ \A w \in Windows :
                 w # d.window => accepted'[w] = accepted[w]
           /\ DOMAIN accepted[d.window] = 1 .. Len(accepted[d.window])
           /\ DOMAIN accepted'[d.window] = 1 .. Len(accepted[d.window]) + 1
           /\ \A i \in DOMAIN accepted[d.window] :
                 accepted'[d.window][i] = accepted[d.window][i]
           /\ Len(accepted[d.window]) \in Nat
           /\ Len(accepted'[d.window]) = Len(accepted[d.window]) + 1
           /\ accepted'[d.window][Len(accepted[d.window]) + 1] = d
<1> DEFINE w == d.window
           s == accepted[w]
<1>1. w \in Windows /\ s \in Seq(Datagrams)
  BY DEF Datagrams, LinkTypeOK
<1>2. /\ accepted' = [accepted EXCEPT ![w] = Append(s, d)]
      /\ accepted \in [Windows -> Seq(Datagrams)]
  BY DEF Accept, LinkTypeOK
<1>3. /\ Append(s, d) \in Seq(Datagrams)
      /\ Len(Append(s, d)) = Len(s) + 1
      /\ \A i \in 1 .. Len(s) : Append(s, d)[i] = s[i]
      /\ Append(s, d)[Len(s) + 1] = d
  BY <1>1, AppendProperties
<1>4. /\ Len(s) \in Nat /\ DOMAIN s = 1 .. Len(s)
      /\ DOMAIN Append(s, d) = 1 .. Len(s) + 1
  BY <1>1, <1>3, LenProperties
<1>5. ToSet(Append(s, d)) = ToSet(s) \cup {d}
  BY <1>3, <1>4 DEF ToSet
<1>6. /\ accepted'[w] = Append(s, d)
      /\ \A v \in Windows : v # w => accepted'[v] = accepted[v]
      /\ accepted' \in [Windows -> Seq(Datagrams)]
  BY <1>1, <1>2, <1>3
<1>7. Taken' = Taken \cup {d}
  <2>1. w = Panel \/ w = Teaching
    BY <1>1 DEF Windows
  <2>2. Panel \in Windows /\ Teaching \in Windows /\ Panel # Teaching
    BY DEF Windows, Panel, Teaching
  <2> QED
    BY <1>5, <1>6, <2>1, <2>2 DEF Taken
<1> QED
  BY <1>3, <1>4, <1>6, <1>7

-----------------------------------------------------------------------------
(* The steps of the receiver and of the tasks behind it.                   *)

\* A step that takes no datagram and leaves the windows alone.
LEMMA BehindReceiver ==
    ASSUME IInv, UNCHANGED <<panelVars, peers, acceptedVars>>
    PROVE  WindowInv' /\ DatagramInv' /\ SlotInv' /\ OrderInv'
<1>1. /\ WindowInv /\ DatagramInv /\ SlotInv /\ OrderInv
      /\ UNCHANGED <<port, sent, session, target, dragging, released, net, peers,
                     accepted>>
  BY DEF IInv, panelVars, acceptedVars
<1>2. (LongRun' <=> LongRun) /\ Everywhere' = Everywhere /\ Taken' = Taken
  BY <1>1 DEF LongRun, Everywhere, Taken
<1>3. \A p : Base(p)' = Base(p) /\ CountsOf(p)' = CountsOf(p)
  BY <1>2 DEF Base, CountsOf
<1>4. WindowInv'
  BY <1>1, <1>2 DEF WindowInv, SentWithinBounds
<1>5. DatagramInv'
  BY <1>1, <1>2, <1>3 DEF DatagramInv, IsSound, LastSent, SamePort
<1>6. SlotInv'
  BY <1>1, <1>2, <1>3 DEF SlotInv, CountAt, Unwrapped
<1>7. OrderInv'
  BY <1>1 DEF OrderInv
<1> QED
  BY <1>4, <1>5, <1>6, <1>7

\* An event that is appended to the events accepted is the one retained.
LEMMA RetainedIsLast ==
    ASSUME LinkTypeOK, NoEventIsLost, pending = NoEvent, NEW event \in Events
    PROVE  Append(acceptedEvents, event) = delivered \o queue \o <<event>>
<1>1. /\ delivered \in Seq(Events) /\ queue \in Seq(Events)
      /\ acceptedEvents \in Seq(Events)
  BY DEF LinkTypeOK
<1>2. delivered \o queue \in Seq(Events)
  BY <1>1, ConcatProperties
<1>3. acceptedEvents = delivered \o queue
  BY <1>2, ConcatEmptySeq DEF NoEventIsLost
<1> QED
  BY <1>2, <1>3, AppendIsConcat

\* A datagram that is no news changes nothing but the network.
LEMMA IgnoredStep ==
    ASSUME IInv, NEW d \in net, Receive(d), ~IsNews(d)
    PROVE  IInv'
<1>1. /\ net' \subseteq net
      /\ UNCHANGED <<port, sent, session, target, dragging, released, peers, estop,
                     guidanceVars, taskVars, acceptedVars, consumed>>
  BY DEF Receive, taskVars
<1>2. (LongRun' <=> LongRun) /\ Everywhere' \subseteq Everywhere /\ Taken' = Taken
  BY <1>1 DEF LongRun, Everywhere, Taken, acceptedVars
<1>3. \A p : Base(p)' = Base(p) /\ CountsOf(p)' = CountsOf(p)
  BY <1>2 DEF Base, CountsOf
<1>4. LinkTypeOK' /\ NoEventIsLost'
  BY <1>1 DEF IInv, LinkTypeOK, NoEventIsLost, guidanceVars, taskVars, acceptedVars
<1>5. WindowInv'
  BY <1>1, <1>2 DEF IInv, WindowInv, SentWithinBounds
<1>6. DatagramInv'
  BY <1>1, <1>2, <1>3 DEF IInv, DatagramInv, IsSound, LastSent, SamePort
<1>7. SlotInv'
  BY <1>1, <1>2, <1>3 DEF IInv, SlotInv, CountAt, Unwrapped
<1>8. OrderInv' /\ PoseInv'
  BY <1>1 DEF IInv, OrderInv, PoseInv, LastPose, guidanceVars, acceptedVars
<1> QED
  BY <1>4, <1>5, <1>6, <1>7, <1>8 DEF IInv

\* A datagram that is news is taken once, as its panel sent it.
LEMMA NewsStep ==
    ASSUME IInv, NEW d \in net, Receive(d), IsNews(d)
    PROVE  IInv'
<1>1. /\ LinkTypeOK /\ WindowInv /\ DatagramInv /\ SlotInv /\ OrderInv
      /\ PoseInv /\ NoEventIsLost
  BY DEF IInv
<1>2. /\ net' \subseteq net /\ Idle /\ Remember(d) /\ Act(d) /\ Accept(d)
      /\ UNCHANGED <<port, sent, session, target, dragging, released, queue,
                     delivered, consumed>>
  BY DEF Receive
<1>3. d \in Datagrams /\ IsSound(d)
  BY <1>1, AllAreDatagrams DEF DatagramInv, Everywhere
<1>4. /\ Taken' = Taken \cup {d}
      /\ accepted' \in [Windows -> Seq(Datagrams)]
      /\ \A w \in Windows :
            w # d.window => accepted'[w] = accepted[w]
      /\ DOMAIN accepted[d.window] = 1 .. Len(accepted[d.window])
      /\ DOMAIN accepted'[d.window] = 1 .. Len(accepted[d.window]) + 1
      /\ \A i \in DOMAIN accepted[d.window] :
            accepted'[d.window][i] = accepted[d.window][i]
      /\ Len(accepted[d.window]) \in Nat
      /\ Len(accepted'[d.window]) = Len(accepted[d.window]) + 1
      /\ accepted'[d.window][Len(accepted[d.window]) + 1] = d
  BY <1>1, <1>2, <1>3, AcceptTakes
<1>5. (LongRun' <=> LongRun) /\ Everywhere' \subseteq Everywhere
  BY <1>2, <1>4 DEF LongRun, Everywhere
<1>6. \A p : Base(p)' = Base(p) /\ CountsOf(p)' = CountsOf(p)
  BY <1>5 DEF Base, CountsOf
<1>7. PICK k \in Slots : /\ k = SlotOf(d)
                         /\ peers[k].used => peers[k].port = d.port
                         /\ ~peers[k].used => Known(d) = {}
  BY <1>1, NewsIsLaterThanSlot DEF IsNews
<1>8. peers' = [peers EXCEPT ![k] = [used |-> TRUE, port |-> d.port,
                                     sequence |-> d.sequence]]
  BY <1>2, <1>7 DEF Remember
<1>9. /\ peers'[k] = [used |-> TRUE, port |-> d.port, sequence |-> d.sequence]
      /\ \A i \in Slots : i # k => peers'[i] = peers[i]
      /\ peers' \in [Slots -> [used : BOOLEAN, port : Ports,
                              sequence : 0 .. SequenceRange - 1]]
  BY <1>1, <1>3, <1>7, <1>8 DEF LinkTypeOK, Datagrams
<1>10. \A i \in Slots : i # k /\ peers[i].used => peers[i].port # d.port
  BY <1>1, <1>7 DEF LinkTypeOK, Known
<1>11. LinkTypeOK'
  <2>1. \A i, j \in Slots : i # j /\ peers'[i].used /\ peers'[j].used
                               => peers'[i].port # peers'[j].port
    <3>1. \A i, j \in Slots : i # j /\ peers[i].used /\ peers[j].used
                               => peers[i].port # peers[j].port
      BY <1>1 DEF LinkTypeOK
    <3>2. /\ peers'[k].port = d.port
          /\ \A i \in Slots : i # k /\ peers'[i].used =>
                /\ peers[i].used /\ peers'[i].port = peers[i].port
                /\ peers'[i].port # d.port
      BY <1>9, <1>10
    <3> QED
      BY <3>1, <3>2
  <2>2. /\ guidanceXyz' \in Box /\ writing' \in Box \cup {<< >>}
        /\ estop' \in BOOLEAN /\ guidancePending' \in BOOLEAN
        /\ pending' \in Events \cup {NoEvent}
    <3>1. d.pose \in Box /\ guidanceXyz \in Box
      BY <1>1, <1>3 DEF LinkTypeOK, Datagrams
    <3>2. [guidanceXyz EXCEPT ![1] = d.pose[1]] \in Box
      BY <3>1 DEF Box, Axes
    <3> QED
      BY <1>1, <1>2, <3>1, <3>2 DEF Act, LinkTypeOK
  <2>3. acceptedEvents' \in Seq(Events)
    BY <1>1, <1>2, AppendProperties DEF Accept, LinkTypeOK
  <2> QED
    BY <1>1, <1>2, <1>4, <1>9, <2>1, <2>2, <2>3 DEF LinkTypeOK
<1>12. WindowInv'
  BY <1>1, <1>2, <1>5 DEF WindowInv, SentWithinBounds
<1>13. DatagramInv'
  BY <1>1, <1>2, <1>5, <1>6 DEF DatagramInv, IsSound, LastSent, SamePort
<1>14. SlotInv'
  <2>1. CountAt(k)' = d.count
    <3>1. Unwrapped(d.port, d.sequence) = d.count
      BY <1>3, WordIsCount DEF IsSound
    <3> QED
      BY <1>6, <1>9, <3>1 DEF CountAt, Unwrapped
  <2>2. \A i \in Slots : i # k => CountAt(i)' = CountAt(i)
    BY <1>6, <1>9 DEF CountAt, Unwrapped
  <2>3. ASSUME NEW e \in Taken'
        PROVE  \E i \in Slots : /\ peers'[i].used /\ peers'[i].port = e.port
                                /\ e.count =< CountAt(i)'
    <3>1. CASE e.port = d.port
      <4>1. e = d \/ e.count < d.count
        BY <1>1, <1>4, <3>1, NewsIsLater
      <4>2. e.count \in Nat /\ d.count \in Nat
        BY <1>3, <1>4, <1>1, AllAreDatagrams DEF Datagrams, Everywhere
      <4> QED
        BY <1>7, <1>9, <2>1, <3>1, <4>1, <4>2
    <3>2. CASE e.port # d.port
      <4>1. e \in Taken
        BY <1>4, <3>2
      <4>2. PICK i \in Slots : /\ peers[i].used /\ peers[i].port = e.port
                              /\ e.count =< CountAt(i)
        BY <1>1, <4>1 DEF SlotInv
      <4>3. i # k
        BY <1>7, <3>2, <4>2
      <4> QED
        BY <1>9, <2>2, <4>2, <4>3
    <3> QED
      BY <3>1, <3>2
  <2>4. ASSUME NEW i \in Slots, peers'[i].used
        PROVE  \/ CountAt(i)' = Base(peers[i].port)'
               \/ \E e \in Taken' : e.port = peers'[i].port /\ e.count = CountAt(i)'
    <3>1. CASE i = k
      BY <1>4, <1>9, <2>1, <3>1
    <3>2. CASE i # k
      BY <1>1, <1>4, <1>6, <1>9, <2>2, <2>4, <3>2 DEF SlotInv
    <3> QED
      BY <3>1, <3>2
  <2> QED
    BY <2>3, <2>4 DEF SlotInv
<1>15. OrderInv'
  <2> SUFFICES ASSUME NEW w \in Windows, NEW i \in DOMAIN accepted'[w],
                      NEW j \in DOMAIN accepted'[w]
               PROVE  /\ accepted'[w][i].window = w
                      /\ i < j /\ accepted'[w][i].port = accepted'[w][j].port
                            => accepted'[w][i].count < accepted'[w][j].count
    BY DEF OrderInv
  <2>1. CASE w # d.window
    BY <1>1, <1>4, <2>1 DEF OrderInv
  <2>2. CASE w = d.window
    <3> DEFINE n == Len(accepted[w])
    <3>1. i \in 1 .. n + 1 /\ j \in 1 .. n + 1 /\ n \in Nat
      BY <1>4, <2>2
    <3>2. \A m \in 1 .. n : /\ accepted'[w][m] = accepted[w][m]
                            /\ m \in DOMAIN accepted[w]
                            /\ accepted[w][m] \in Taken
      BY <1>4, <2>2 DEF Taken, ToSet, Windows
    <3>3. accepted'[w][n + 1] = d
      BY <1>4, <2>2
    <3>4. CASE i \in 1 .. n /\ j \in 1 .. n
      BY <1>1, <3>2, <3>4 DEF OrderInv
    <3>5. CASE i \in 1 .. n /\ j = n + 1
      BY <1>1, <3>2, <3>3, <3>5, NewsIsLater DEF OrderInv
    <3>6. CASE i = n + 1
      BY <2>2, <3>1, <3>3, <3>6
    <3> QED
      BY <3>1, <3>4, <3>5, <3>6
  <2> QED
    BY <2>1, <2>2
<1>16. PoseInv'
  <2>1. CASE d.window = Teaching
    BY <1>2, <1>3, <1>4, <2>1 DEF IsSound, Act, PoseInv, LastPose
  <2>2. CASE d.window # Teaching
    <3>1. d.command # Guidance /\ accepted'[Teaching] = accepted[Teaching]
      BY <1>3, <1>4, <2>2 DEF IsSound, Windows
    <3>2. UNCHANGED <<guidanceXyz, writing, guidancePending, consumed>>
      BY <1>2, <3>1 DEF Act, Idle
    <3> QED
      BY <1>1, <3>1, <3>2 DEF PoseInv, LastPose
  <2> QED
    BY <2>1, <2>2
<1>17. NoEventIsLost'
  <2>1. pending = NoEvent
    BY <1>2 DEF Idle
  <2>2. CASE d.command \in Events
    <3>1. d.command # NoEvent
      BY <2>2 DEF Events, NoEvent
    <3>2. Append(acceptedEvents, d.command) = delivered \o queue \o <<d.command>>
      BY <1>1, <2>1, <2>2, RetainedIsLast
    <3> QED
      BY <1>2, <2>2, <3>1, <3>2 DEF Act, Accept, NoEventIsLost
  <2>3. CASE d.command \notin Events
    BY <1>1, <1>2, <2>1, <2>3 DEF Act, Accept, NoEventIsLost
  <2> QED
    BY <2>2, <2>3
<1> QED
  BY <1>11, <1>12, <1>13, <1>14, <1>15, <1>16, <1>17 DEF IInv

\* The pose that was being written becomes the pending one, whole.
LEMMA FinishPoseStep ==
    ASSUME IInv, FinishPose
    PROVE  IInv'
<1>1. /\ writing # << >> /\ writing \in Box /\ guidanceXyz' = writing
      /\ guidancePending' = TRUE /\ writing' = << >>
      /\ UNCHANGED <<panelVars, peers, estop, taskVars, acceptedVars, consumed>>
  BY DEF FinishPose, IInv, LinkTypeOK
<1>2. LinkTypeOK' /\ NoEventIsLost'
  BY <1>1 DEF IInv, LinkTypeOK, NoEventIsLost, panelVars, taskVars, acceptedVars
<1>3. PoseInv'
  BY <1>1 DEF IInv, PoseInv, LastPose, acceptedVars
<1>4. WindowInv' /\ DatagramInv' /\ SlotInv' /\ OrderInv'
  BY <1>1, BehindReceiver
<1> QED
  BY <1>2, <1>3, <1>4 DEF IInv

\* The cycle takes the pending pose as it was accepted.
LEMMA ConsumeGuidanceStep ==
    ASSUME IInv, ConsumeGuidance
    PROVE  IInv'
<1>1. /\ guidancePending /\ guidancePending' = FALSE /\ consumed' = guidanceXyz
      /\ UNCHANGED <<panelVars, peers, estop, guidanceXyz, writing, taskVars,
                     acceptedVars>>
  BY DEF ConsumeGuidance
<1>2. LinkTypeOK' /\ NoEventIsLost'
  BY <1>1 DEF IInv, LinkTypeOK, NoEventIsLost, panelVars, taskVars, acceptedVars
<1>3. PoseInv'
  BY <1>1 DEF IInv, PoseInv, LastPose, acceptedVars
<1>4. WindowInv' /\ DatagramInv' /\ SlotInv' /\ OrderInv'
  BY <1>1, BehindReceiver
<1> QED
  BY <1>2, <1>3, <1>4 DEF IInv

\* The event that waits goes to the end of the queue.
LEMMA PostStep ==
    ASSUME IInv, Post
    PROVE  IInv'
<1>1. /\ pending \in Events /\ Len(queue) < QueueLength
      /\ queue' = Append(queue, pending) /\ pending' = NoEvent
      /\ UNCHANGED <<panelVars, peers, estop, guidanceVars, delivered, acceptedVars,
                     consumed>>
  BY DEF Post, SupervisorCommand, IInv, LinkTypeOK
<1>2. /\ queue \in Seq(Events) /\ delivered \in Seq(Events) /\ QueueLength \in Nat
  BY SlotsAssumption DEF SlotsAssumption, IInv, LinkTypeOK
<1>3. /\ queue' \in Seq(Events) /\ Len(queue') = Len(queue) + 1
      /\ queue' = queue \o <<pending>> /\ Len(queue) \in Nat
  BY <1>1, <1>2, AppendProperties, AppendIsConcat, LenProperties
<1>4. LinkTypeOK'
  BY <1>1, <1>2, <1>3 DEF IInv, LinkTypeOK, panelVars, guidanceVars, acceptedVars
<1>5. NoEventIsLost'
  <2>1. pending # NoEvent /\ <<pending>> \in Seq(Events)
    BY <1>1 DEF Events, NoEvent
  <2>2. acceptedEvents = (delivered \o queue) \o <<pending>>
    BY <2>1 DEF IInv, NoEventIsLost
  <2>3. acceptedEvents = delivered \o queue'
    BY <1>2, <1>3, <2>1, <2>2, ConcatAssociative
  <2>4. delivered \o queue' \in Seq(Events)
    BY <1>2, <1>3, ConcatProperties
  <2> QED
    BY <1>1, <2>3, <2>4, ConcatEmptySeq DEF NoEventIsLost, acceptedVars
<1>6. PoseInv'
  BY <1>1 DEF IInv, PoseInv, LastPose, guidanceVars, acceptedVars
<1>7. WindowInv' /\ DatagramInv' /\ SlotInv' /\ OrderInv'
  BY <1>1, BehindReceiver
<1> QED
  BY <1>4, <1>5, <1>6, <1>7 DEF IInv

\* The supervisor takes the event that is the first of the queue.
LEMMA TakeStep ==
    ASSUME IInv, Take
    PROVE  IInv'
<1>1. /\ queue # << >> /\ queue' = Tail(queue)
      /\ delivered' = Append(delivered, Head(queue))
      /\ UNCHANGED <<panelVars, peers, estop, guidanceVars, pending, acceptedVars,
                     consumed>>
  BY DEF Take
<1>2. /\ queue \in Seq(Events) /\ delivered \in Seq(Events)
      /\ QueueLength \in Nat /\ Len(queue) =< QueueLength
  BY SlotsAssumption DEF SlotsAssumption, IInv, LinkTypeOK
<1>3. /\ queue' \in Seq(Events) /\ Len(queue') = Len(queue) - 1
      /\ Head(queue) \in Events /\ Len(queue) \in Nat
  BY <1>1, <1>2, HeadTailProperties, LenProperties
<1>4. /\ delivered' \in Seq(Events) /\ delivered' = delivered \o <<Head(queue)>>
  BY <1>1, <1>2, <1>3, AppendProperties, AppendIsConcat
<1>5. LinkTypeOK'
  BY <1>1, <1>2, <1>3, <1>4
  DEF IInv, LinkTypeOK, panelVars, guidanceVars, acceptedVars
<1>6. NoEventIsLost'
  <2>1. <<Head(queue)>> \in Seq(Events)
    BY <1>3
  <2>2. queue = <<Head(queue)>> \o Tail(queue)
    BY <1>1, <1>2
  <2>3. delivered' \o queue' = delivered \o queue
    BY <1>1, <1>2, <1>3, <1>4, <2>1, <2>2, ConcatAssociative
  <2> QED
    BY <1>1, <2>3 DEF IInv, NoEventIsLost, acceptedVars
<1>7. PoseInv'
  BY <1>1 DEF IInv, PoseInv, LastPose, guidanceVars, acceptedVars
<1>8. WindowInv' /\ DatagramInv' /\ SlotInv' /\ OrderInv'
  BY <1>1, BehindReceiver
<1> QED
  BY <1>5, <1>6, <1>7, <1>8 DEF IInv

\* A step of a window leaves alone what is behind the network.
LEMMA PanelsKeepInv ==
    ASSUME IInv, PanelsNext, UNCHANGED linkOnly
    PROVE  IInv'
<1>1. KeepsPanels
  BY PanelsStep DEF IInv, PanelsInv
<1>2. \A p : Base(p)' = Base(p)
  BY <1>1 DEF KeepsPanels, Base
<1>3. SlotInv'
  BY <1>2 DEF IInv, SlotInv, CountAt, Unwrapped, Taken, linkOnly, acceptedVars
<1>4. OrderInv' /\ PoseInv' /\ NoEventIsLost'
  BY DEF IInv, OrderInv, PoseInv, LastPose, NoEventIsLost, linkOnly, guidanceVars,
         taskVars, acceptedVars
<1> QED
  BY <1>1, <1>3, <1>4 DEF IInv, KeepsPanels, PanelsInv

-----------------------------------------------------------------------------
(* The invariant holds in the beginning and is kept.                       *)

\* The invariant holds at the start.
LEMMA InvInit == LinkInit => IInv
<1> SUFFICES ASSUME LinkInit
             PROVE  IInv
  OBVIOUS
<1>1. /\ PanelsInit
      /\ peers = [i \in Slots |->
                     IF i = 1 /\ sent[Panel] > 0
                     THEN [used |-> TRUE, port |-> port[Panel],
                           sequence |-> sent[Panel]]
                     ELSE Free]
      /\ accepted = [w \in Windows |-> << >>] /\ acceptedEvents = << >>
      /\ queue = << >> /\ delivered = << >> /\ pending = NoEvent
  BY DEF LinkInit
<1>2. Panel \in Windows /\ Teaching \in Windows /\ Panel # Teaching
  BY DEF Windows, Panel, Teaching
<1>3. /\ sent \in [Windows -> {0, SequenceRange - 2}] /\ sent[Teaching] = 0
      /\ session = [w \in Windows |-> 1]
      /\ port = [w \in Windows |-> IF w = Panel THEN 1 ELSE 2]
      /\ port[Panel] = 1 /\ port[Teaching] = 2
      /\ net = {} /\ target = NoPose /\ dragging = FALSE /\ released = FALSE
  BY <1>1, <1>2 DEF PanelsInit
<1>4. Everywhere = {} /\ Taken = {}
  BY <1>1, <1>2, <1>3 DEF Everywhere, Taken, ToSet
<1>5. LongRun <=> sent[Panel] = SequenceRange - 2
  BY <1>2, <1>3, Widths DEF LongRun
<1>6. NoPose \in Box
  BY BoxAssumption DEF BoxAssumption, NoPose, Box
<1>7. LinkTypeOK
  <2>1. port \in [Windows -> Ports] /\ port[Panel] # port[Teaching]
    BY <1>3, PortsAssumption DEF PortsAssumption, Ports
  <2>2. /\ sent \in [Windows -> 0 .. SequenceRange + MaxSent]
        /\ session \in [Windows -> 1 .. MaxRestarts + 1]
    BY <1>3, Widths, WidthAssumption DEF WidthAssumption
  <2>3. /\ peers \in [Slots -> [used : BOOLEAN, port : Ports,
                                sequence : 0 .. SequenceRange - 1]]
        /\ \A i, j \in Slots : i # j /\ peers[i].used /\ peers[j].used
                                  => peers[i].port # peers[j].port
    <3>1. 1 \in Ports /\ 0 \in 0 .. SequenceRange - 1
      BY PortsAssumption, Widths DEF PortsAssumption, Ports
    <3>2. sent[Panel] \in 0 .. SequenceRange - 1
      BY <1>2, <1>3, Widths
    <3> QED
      BY <1>1, <1>3, <3>1, <3>2 DEF Free
  <2>4. queue \in Seq(Events) /\ Len(queue) =< QueueLength
    BY <1>1, SlotsAssumption DEF SlotsAssumption
  <2>5. /\ accepted \in [Windows -> Seq(Datagrams)]
        /\ acceptedEvents \in Seq(Events) /\ delivered \in Seq(Events)
    BY <1>1
  <2> QED
    BY <1>1, <1>3, <1>6, <2>1, <2>2, <2>3, <2>4, <2>5 DEF LinkTypeOK, LinkInit
<1>8. WindowInv
  BY <1>2, <1>3, <1>5, Widths, WidthAssumption
  DEF WidthAssumption, WindowInv, SentWithinBounds
<1>9. DatagramInv
  BY <1>4 DEF DatagramInv
<1>10. SlotInv
  <2>1. ASSUME NEW i \in Slots, peers[i].used
        PROVE  CountAt(i) = Base(peers[i].port)
    <3>1. /\ peers[i].port = 1 /\ peers[i].sequence = sent[Panel] /\ sent[Panel] > 0
      BY <1>1, <1>3, <2>1 DEF Free
    <3>2. sent[Panel] = SequenceRange - 2
      BY <1>2, <1>3, <3>1
    <3> QED
      BY <1>5, <3>1, <3>2, Widths DEF CountAt, Base, Unwrapped
  <2> QED
    BY <1>4, <2>1 DEF SlotInv
<1>11. OrderInv /\ PoseInv
  BY <1>1, <1>2 DEF OrderInv, PoseInv
<1>12. NoEventIsLost
  BY <1>1 DEF NoEventIsLost
<1> QED
  BY <1>7, <1>8, <1>9, <1>10, <1>11, <1>12 DEF IInv

\* Every step keeps the invariant.
LEMMA InvNext == IInv /\ [Next]_linkVars => IInv'
<1> SUFFICES ASSUME IInv, [Next]_linkVars
             PROVE  IInv'
  OBVIOUS
<1>1. CASE PanelsNext /\ UNCHANGED <<peers, estop, guidanceVars, taskVars,
                                     acceptedVars, consumed>>
  BY <1>1, PanelsKeepInv DEF linkOnly
<1>2. ASSUME NEW d \in net, Receive(d) PROVE IInv'
  BY <1>2, IgnoredStep, NewsStep
<1>3. CASE HmiTask
  BY <1>3, FinishPoseStep, PostStep DEF HmiTask
<1>4. CASE ConsumeGuidance
  BY <1>4, ConsumeGuidanceStep
<1>5. CASE Take
  BY <1>5, TakeStep
<1>6. CASE UNCHANGED linkVars
  <2>1. UNCHANGED <<panelVars, peers, acceptedVars>>
    BY <1>6 DEF linkVars
  <2>2. WindowInv' /\ DatagramInv' /\ SlotInv' /\ OrderInv'
    BY <2>1, BehindReceiver
  <2>3. LinkTypeOK' /\ NoEventIsLost' /\ PoseInv'
    BY <1>6 DEF IInv, LinkTypeOK, NoEventIsLost, PoseInv, LastPose, linkVars,
                panelVars, guidanceVars, taskVars, acceptedVars
  <2> QED
    BY <2>2, <2>3 DEF IInv
<1> QED
  BY <1>1, <1>2, <1>3, <1>4, <1>5, <1>6 DEF Next

\* The inductive invariant: a slot of the receiver remembers the last count that
\* was taken of its port, and the words that are under way stand for one count.
THEOREM LinkInvariant == Spec => []IInv
<1>1. LinkInit => IInv
  BY InvInit
<1>2. IInv /\ [Next]_linkVars => IInv'
  BY InvNext
<1> QED
  BY <1>1, <1>2, PTL DEF Spec

-----------------------------------------------------------------------------
(* What it implies.                                                        *)

\* The table, the queue and the datagrams are what they are declared as, and
\* hmi_task.c loses no event and adds none, whatever the length of its queue.
THEOREM TasksLoseNothing == Spec => []LinkInv
<1>1. IInv => LinkInv
  BY DEF IInv, LinkInv
<1> QED
  BY <1>1, LinkInvariant, PTL

\* udp_event() takes no command of a session twice and none after a later one,
\* for every width of the sequence word of which less than half is under way.
THEOREM CommandsOnceInOrder == Spec => []AcceptedOnceInOrder
<1>1. IInv => AcceptedOnceInOrder
  <2> SUFFICES ASSUME IInv, NEW w \in Windows,
                      NEW i \in DOMAIN accepted[w], NEW j \in DOMAIN accepted[w],
                      i < j, accepted[w][i].session = accepted[w][j].session
               PROVE  accepted[w][i].count < accepted[w][j].count
    BY DEF AcceptedOnceInOrder
  <2>1. accepted[w][i].window = w /\ accepted[w][j].window = w
    BY DEF IInv, OrderInv
  <2>2. accepted[w][i] \in Everywhere /\ accepted[w][j] \in Everywhere
    BY DEF Everywhere, Taken, ToSet, Windows
  <2>3. accepted[w][i].port = accepted[w][j].port
    BY <2>1, <2>2 DEF IInv, DatagramInv, SamePort
  <2> QED
    BY <2>3 DEF IInv, OrderInv
<1> QED
  BY <1>1, LinkInvariant, PTL

\* udp_event() refuses no command that is later than all that were taken of its
\* port, as long as the table has room.
THEOREM NewestIsNeverRefused == Spec => NewestIsTaken
<1> DEFINE Obeys == \A d \in net : Receive(d) /\ SlotsFor(d) # {} /\ IsLatest(d)
                                     => Accept(d)
<1>1. IInv => Obeys
  <2> SUFFICES ASSUME IInv, NEW d \in net, Receive(d), SlotsFor(d) # {}, IsLatest(d)
               PROVE  Accept(d)
    OBVIOUS
  <2>1. LinkTypeOK /\ DatagramInv /\ SlotInv
    BY DEF IInv
  <2>2. \A e \in Taken : e.port = d.port => e.count < d.count
    BY DEF IsLatest, Taken
  <2>3. IsNews(d)
    <3>1. PICK i \in Slots : i = SlotOf(d)
      BY <2>1, NewsIsLaterThanSlot
    <3>2. CASE ~peers[i].used
      BY <2>1, <3>1, <3>2, NewsIsLaterThanSlot
    <3>3. CASE peers[i].used
      <4>1. peers[i].port = d.port /\ (IsNews(d) <=> CountAt(i) < d.count)
        BY <2>1, <3>1, <3>3, NewsIsLaterThanSlot
      <4>2. \/ CountAt(i) = Base(d.port)
            \/ \E e \in Taken : e.port = d.port /\ e.count = CountAt(i)
        BY <2>1, <3>3, <4>1 DEF SlotInv
      <4>3. IsSound(d)
        BY <2>1 DEF DatagramInv, Everywhere
      <4>4. Base(d.port) < d.count
        BY <4>3, BaseType, Widths DEF IsSound, CountsOf
      <4> QED
        BY <2>2, <4>1, <4>2, <4>4
    <3> QED
      BY <3>2, <3>3
  <2> QED
    BY <2>3 DEF Receive
<1> QED
  BY <1>1, LinkInvariant, PTL DEF NewestIsTaken

\* The robot ends where the operator of teaching_sim_app.c let go of the target,
\* however the tasks interleave and whatever the network does.
THEOREM RobotEndsAtTarget == Spec => []ReleasedPoseIsConsumed
<1>1. IInv => ReleasedPoseIsConsumed
  <2> SUFFICES ASSUME IInv, released, writing = << >>, ~guidancePending,
                      NEW d \in ToSet(accepted[Teaching]), LastSent(d),
                      \A e \in ToSet(accepted[Teaching]) :
                          e.session = session[Teaching]
               PROVE  consumed = target
    BY DEF ReleasedPoseIsConsumed
  <2> DEFINE s == accepted[Teaching]
             n == Len(s)
  <2>1. PICK i \in DOMAIN s : d = s[i]
    BY DEF ToSet
  <2>2. /\ s \in Seq(Datagrams) /\ DOMAIN s = 1 .. n /\ n \in Nat
        /\ n \in DOMAIN s /\ s # << >> /\ s[n] \in Datagrams
    <3>1. s \in Seq(Datagrams)
      BY DEF IInv, LinkTypeOK, Windows
    <3>2. DOMAIN s = 1 .. n /\ n \in Nat
      BY <3>1, LenProperties
    <3>3. n \in 1 .. n /\ s # << >>
      BY <2>1, <3>1, <3>2
    <3> QED
      BY <3>1, <3>2, <3>3, ElementOfSeq
  <2>3. \A m \in DOMAIN s : /\ s[m] \in Everywhere /\ s[m].window = Teaching
                            /\ s[m].session = session[Teaching]
    BY DEF Everywhere, Taken, ToSet, IInv, OrderInv, Windows
  <2>4. s[n] = d
    <3>1. s[i].port = s[n].port
      BY <2>1, <2>2, <2>3 DEF IInv, DatagramInv, SamePort
    <3>2. i < n => s[i].count < s[n].count
      BY <2>1, <2>2, <3>1 DEF IInv, OrderInv, Windows
    <3>3. s[n].count =< sent[Teaching]
      BY <2>2, <2>3 DEF IInv, DatagramInv, IsSound
    <3>4. s[i].count = sent[Teaching] /\ sent[Teaching] \in Int
      BY <2>1, Widths DEF LastSent, IInv, WindowInv, SentWithinBounds
    <3>5. s[n].count \in Int
      <4>1. \A e \in Datagrams : e.count \in Int
        BY DEF Datagrams
      <4> QED
        BY <2>2, <4>1
    <3> QED
      BY <2>1, <2>2, <3>2, <3>3, <3>4, <3>5
  <2>5. d.pose = target
    BY <2>1, <2>3 DEF IInv, DatagramInv, IsSound
  <2>6. d.pose # << >>
    <3>1. d.pose \in Box
      BY <2>2, <2>4 DEF Datagrams
    <3> QED
      BY <3>1 DEF Box, Axes
  <2>7. LastPose = d.pose
    BY <2>4 DEF LastPose
  <2> QED
    BY <2>2, <2>5, <2>6, <2>7 DEF IInv, PoseInv
<1> QED
  BY <1>1, LinkInvariant, PTL
=============================================================================
