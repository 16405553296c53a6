------------------------------- MODULE HmiLink -------------------------------
(***************************************************************************)
(* The way of a command from a window of the operator to the supervisor:   *)
(* datagrams that are lost, repeated and reordered, windows that are       *)
(* restarted, the receiver in the HMI task with its table of peers, the    *)
(* event that task retains while the queue of the supervisor is full, and  *)
(* the pose of hand guiding, which the HMI task writes coordinate by       *)
(* coordinate while the input task of higher priority may read it.         *)
(***************************************************************************)
EXTENDS HmiPanels, Sequences, SequencesExt

CONSTANTS
    NumSlots,       \* peers the receiver remembers: 8 in the code
    QueueLength     \* events the queue of the supervisor has room for

ASSUME SlotsAssumption == NumSlots \in Nat \ {0} /\ QueueLength \in Nat \ {0}

Slots   == 1 .. NumSlots
NoEvent == "NONE"

VARIABLES
    peers,              \* the table of the receiver
    estop,              \* the simulated input of the emergency stop
    guidanceXyz,        \* the pose of hand guiding, as written so far
    guidancePending,
    writing,            \* of the HMI task: the pose it is writing
    pending,            \* of the HMI task: the event it retains
    queue,              \* the queue of the supervisor
    accepted,           \* of a window: its datagrams taken, in order (history)
    acceptedEvents,     \* the events among them, in order (history)
    delivered,          \* the events the supervisor took (history)
    consumed            \* the pose the input task took last (history)

guidanceVars == <<guidanceXyz, guidancePending, writing>>
taskVars     == <<pending, queue, delivered>>
acceptedVars == <<accepted, acceptedEvents>>
linkVars     == <<panelVars, peers, estop, guidanceVars, taskVars, acceptedVars,
                  consumed>>

Free == [used |-> FALSE, port |-> 1, sequence |-> 0]
Idle == writing = << >> /\ pending = NoEvent

\* A window that has run for long is known to the receiver.
LinkInit ==
    /\ PanelsInit
    /\ peers = [i \in Slots |->
                   IF i = 1 /\ sent[Panel] > 0
                   THEN [used |-> TRUE, port |-> port[Panel],
                         sequence |-> sent[Panel]]
                   ELSE Free]
    /\ estop = FALSE
    /\ guidanceXyz = NoPose /\ consumed = NoPose
    /\ guidancePending = FALSE
    /\ writing = << >>
    /\ pending = NoEvent
    /\ queue = << >> /\ delivered = << >>
    /\ accepted = [w \in Windows |-> << >>] /\ acceptedEvents = << >>

-----------------------------------------------------------------------------
(* udp_event()                                                             *)

\* The difference of two sequence words, read as a signed number.
Difference(a, b) ==
    LET d == (a - b) % SequenceRange
    IN  IF d >= HalfRange THEN d - SequenceRange ELSE d

Known(d)  == {i \in Slots : peers[i].used /\ peers[i].port = d.port}
Unused    == {i \in Slots : ~peers[i].used}
SlotsFor(d) == IF Known(d) # {} THEN Known(d) ELSE Unused
SlotOf(d) == CHOOSE i \in SlotsFor(d) : \A j \in SlotsFor(d) : i =< j

\* Mutant: a datagram with the remembered number is news.
BugNotStale(d) ==
    /\ SlotsFor(d) # {}
    /\ LET slot == peers[SlotOf(d)]
       IN  ~slot.used \/ Difference(d.sequence, slot.sequence) >= 0

\* Mutant: the numbers are compared as unsigned ones.
BugUnsigned(d) ==
    /\ SlotsFor(d) # {}
    /\ LET slot == peers[SlotOf(d)]
       IN  ~slot.used \/ d.sequence > slot.sequence

\* There is a slot, and the datagram is newer than what the slot remembers.
IsNews(d) ==
    /\ SlotsFor(d) # {}
    /\ LET slot == peers[SlotOf(d)]
       IN  ~slot.used \/ Difference(d.sequence, slot.sequence) > 0

Remember(d) ==
    peers' = [peers EXCEPT ![SlotOf(d)] =
                 [used |-> TRUE, port |-> d.port, sequence |-> d.sequence]]

\* What is done with a command that is news.  Of a pose the first coordinate is
\* written: the input task may run before the others are.
Act(d) ==
    /\ estop' = IF d.command = ToggleEstop THEN ~estop ELSE estop
    /\ writing' = IF d.command = Guidance THEN d.pose ELSE << >>
    /\ guidanceXyz' = IF d.command = Guidance
                      THEN [guidanceXyz EXCEPT ![1] = d.pose[1]] ELSE guidanceXyz
    /\ pending' = IF d.command \in Events THEN d.command ELSE NoEvent
    /\ UNCHANGED guidancePending

Accept(d) ==
    /\ accepted' = [accepted EXCEPT ![d.window] = Append(@, d)]
    /\ acceptedEvents' = IF d.command \in Events THEN Append(acceptedEvents, d.command)
                         ELSE acceptedEvents

\* recvfrom() takes a datagram; the network may hold a copy of it.
Receive(d) ==
    /\ Idle
    /\ d \in net
    /\ net' \in {net, net \ {d}}
    /\ IF IsNews(d)
       THEN Remember(d) /\ Act(d) /\ Accept(d)
       ELSE UNCHANGED <<peers, estop, guidanceVars, pending, acceptedVars>>
    /\ UNCHANGED <<port, sent, session, target, dragging, released, queue, delivered,
                   consumed>>

\* The other coordinates of a pose, and then the flag that announces it.
FinishPose ==
    /\ writing # << >>
    /\ guidanceXyz' = writing
    /\ guidancePending' = TRUE
    /\ writing' = << >>
    /\ UNCHANGED <<panelVars, peers, estop, taskVars, acceptedVars, consumed>>

-----------------------------------------------------------------------------
(* The rest of the HMI task, the input task and the supervisor.            *)

SupervisorCommand == [event \in Events |-> event]

\* Mutant: an event is dropped while the queue is full.
BugPost ==
    /\ pending # NoEvent
    /\ queue' = IF Len(queue) < QueueLength
                THEN Append(queue, SupervisorCommand[pending]) ELSE queue
    /\ pending' = NoEvent
    /\ UNCHANGED <<panelVars, peers, estop, guidanceVars, delivered, acceptedVars,
                   consumed>>

\* Mutant: the last place of the queue is never used.
BugPostEarly ==
    /\ pending # NoEvent
    /\ Len(queue) + 1 < QueueLength
    /\ queue' = Append(queue, SupervisorCommand[pending])
    /\ pending' = NoEvent
    /\ UNCHANGED <<panelVars, peers, estop, guidanceVars, delivered, acceptedVars,
                   consumed>>

\* An event is retained while the queue is full.
Post ==
    /\ pending # NoEvent
    /\ Len(queue) < QueueLength
    /\ queue' = Append(queue, SupervisorCommand[pending])
    /\ pending' = NoEvent
    /\ UNCHANGED <<panelVars, peers, estop, guidanceVars, delivered, acceptedVars,
                   consumed>>

\* The input task takes the pose: also one that is half written, if one before
\* it was still pending.
ConsumeGuidance ==
    /\ guidancePending
    /\ guidancePending' = FALSE
    /\ consumed' = guidanceXyz
    /\ UNCHANGED <<panelVars, peers, estop, guidanceXyz, writing, taskVars,
                   acceptedVars>>

\* The supervisor takes the oldest event.
Take ==
    /\ queue # << >>
    /\ queue' = Tail(queue)
    /\ delivered' = Append(delivered, Head(queue))
    /\ UNCHANGED <<panelVars, peers, estop, guidanceVars, pending, acceptedVars,
                   consumed>>

HmiTask == FinishPose \/ Post

Next ==
    \/ PanelsNext /\ UNCHANGED <<peers, estop, guidanceVars, taskVars, acceptedVars,
                                 consumed>>
    \/ \E d \in net : Receive(d)
    \/ HmiTask \/ ConsumeGuidance \/ Take

Spec == LinkInit /\ [][Next]_linkVars

\* The tasks run; the network and the operator owe nothing.
FairSpec == /\ Spec
            /\ WF_linkVars(HmiTask)
            /\ WF_linkVars(ConsumeGuidance)
            /\ WF_linkVars(Take)

-----------------------------------------------------------------------------
\* The type invariant.  What was accepted is bounded by what was sent.
LinkTypeOK ==
    /\ port \in [Windows -> Ports] /\ port[Panel] # port[Teaching]
    /\ sent \in [Windows -> 0 .. SequenceRange + MaxSent]
    /\ session \in [Windows -> 1 .. MaxRestarts + 1]
    /\ target \in Poses \cup Box /\ dragging \in BOOLEAN /\ released \in BOOLEAN
    /\ net \subseteq Datagrams
    /\ peers \in [Slots -> [used : BOOLEAN, port : Ports,
                            sequence : 0 .. SequenceRange - 1]]
    /\ \A i, j \in Slots : i # j /\ peers[i].used /\ peers[j].used
                              => peers[i].port # peers[j].port
    /\ guidanceXyz \in Box /\ consumed \in Box
    /\ writing \in Box \cup {<< >>}
    /\ estop \in BOOLEAN /\ guidancePending \in BOOLEAN
    /\ pending \in Events \cup {NoEvent}
    /\ queue \in Seq(Events) /\ Len(queue) =< QueueLength
    /\ accepted \in [Windows -> Seq(Datagrams)]
    /\ acceptedEvents \in Seq(Events) /\ delivered \in Seq(Events)

\* "Duplicate UDP events cannot repeat Record or a context-dependent button"
\* (supervisor_mock_main.c:528): of the commands of one session of a window none
\* is accepted twice and none after a later one, whatever the network repeats
\* or reorders, also while the sequence word wraps around.
AcceptedOnceInOrder ==
    \A w \in Windows : \A i, j \in DOMAIN accepted[w] :
        /\ i < j
        /\ accepted[w][i].session = accepted[w][j].session
        => accepted[w][i].count < accepted[w][j].count

IsLatest(d) ==
    \A e \in ToSet(accepted[Panel]) \cup ToSet(accepted[Teaching]) :
        e.port = d.port => /\ e.window = d.window /\ e.session = d.session
                           /\ e.count < d.count

\* No command is taken for a stale one: as long as the table of peers has room
\* and the port was not that of another session, a command that is received and
\* is later than all that were accepted from that port is accepted, also when
\* the sequence word has wrapped around or commands before it were lost.
NewestIsTaken ==
    [][\A d \in net : Receive(d) /\ SlotsFor(d) # {} /\ IsLatest(d)
                    => Accept(d)]_linkVars

\* "Retain an event when Supervisor's queue is full; never drop Record"
\* (hmi_task.c:30): what the supervisor has taken, what is queued and what is
\* retained are the events accepted, in that order, none lost and none added.
NoEventIsLost ==
    acceptedEvents =
        delivered \o queue \o (IF pending = NoEvent THEN << >> ELSE <<pending>>)

\* The tasks lose nothing and keep within their bounds.
LinkInv == LinkTypeOK /\ NoEventIsLost

LastSent(d) == d.session = session[Teaching] /\ d.count = sent[Teaching]

\* The robot ends where the operator let go of it: with the last datagram of a
\* drag accepted, the pose written and no pose pending, the pose the input task
\* took last is the target, although the task may have read one half written
\* before, and datagrams may have overtaken each other.  A datagram that a window
\* sent before it was restarted and that is still on its way is a pose of its own:
\* nothing tells it from a new one.
ReleasedPoseIsConsumed ==
    /\ released /\ writing = << >> /\ ~guidancePending
    /\ \E d \in ToSet(accepted[Teaching]) : LastSent(d)
    /\ \A d \in ToSet(accepted[Teaching]) : d.session = session[Teaching]
    => consumed = target

\* What is accepted gets to the supervisor, however long its queue was full.
AcceptedIsDelivered ==
    acceptedEvents # delivered ~> acceptedEvents = delivered
=============================================================================
