------------------------------ MODULE HmiPanels ------------------------------
(***************************************************************************)
(* The two windows of the operator and the datagrams they send: the        *)
(* supervisor panel with its buttons, and the teaching window, in which a  *)
(* target is dragged and the robot follows.  Both send through             *)
(* hmi_protocol, which numbers the commands of a window from 1.            *)
(*                                                                         *)
(* What a window shows is a status that may have been published any time   *)
(* ago, for statuses are lost and are not filtered by their sequence: a    *)
(* window acts on any status whatever, and only what that status allows.   *)
(***************************************************************************)
EXTENDS Integers, FiniteSets

CONSTANTS
    NumPorts,       \* the source ports a window may be given
    HalfRange,      \* half the range of the sequence word: 2^31 in the code
    Buttons,        \* the events that are tried, a part of Events
    MaxSent,        \* how many datagrams a window sends, one less after a restart
    MaxRestarts,    \* how often the windows are restarted
    InFlight,       \* how many datagrams are on their way at once
    Low, High,      \* the box of the targets, on every axis
    Beyond          \* coordinates the mouse reaches

SequenceRange == 2 * HalfRange

Ports == 1 .. NumPorts

ASSUME PortsAssumption == NumPorts \in Nat /\ NumPorts >= 2
ASSUME WidthAssumption == /\ HalfRange \in Nat \ {0, 1}
                          /\ MaxSent \in 0 .. HalfRange - 1
                          /\ MaxRestarts \in Nat
ASSUME BoxAssumption == /\ Low \in Int /\ High \in Int /\ Low =< High
                        /\ Beyond \subseteq Int

Panel    == "panel"
Teaching == "teaching"
Windows  == {Panel, Teaching}

Events == {"LINE", "ARC", "CIRCLE", "RECORD", "VALIDATE_PREVIEW", "SPEED_UP",
           "SPEED_DOWN", "SPEED_DEFAULT", "START_REPLAY", "PAUSE", "RESUME",
           "RESET", "HOME"}
ToggleEstop == "TOGGLE_ESTOP"
Guidance    == "GUIDANCE"
Commands    == Events \cup {ToggleEstop, Guidance}

ASSUME ButtonsAssumption == Buttons \subseteq Events \cup {ToggleEstop}

Clamp(c) == IF c < Low THEN Low ELSE IF c > High THEN High ELSE c
Axes  == {1, 2}
Poses == {[a \in Axes |-> c] : c \in Beyond}   \* the mouse moves all axes alike
Box   == [Axes -> Low .. High]
NoPose == [a \in Axes |-> Low]

VARIABLES
    port,       \* of a window: where its datagrams come from
    sent,       \* of a window: next_sequence, before it wraps around
    session,    \* of a window: how often it was started (history)
    target,     \* of the teaching window: the pose of the blue target
    dragging,   \* of the teaching window: dragging_target
    released,   \* of the teaching window: the last drag was let go (history)
    net         \* the datagrams on their way, in no order

panelVars == <<port, sent, session, target, dragging, released, net>>

\* A datagram, with the window, the session and the count that tell it from
\* every other one (history).
Datagrams ==
    [port : Ports, sequence : 0 .. SequenceRange - 1, command : Commands,
     pose : Box, window : Windows, session : 1 .. MaxRestarts + 1, count : Nat]

\* A window that is started has sent nothing, or has run for long and is about
\* to wrap around.
PanelsInit ==
    /\ port = [w \in Windows |-> IF w = Panel THEN 1 ELSE 2]
    /\ sent \in [Windows -> {0, SequenceRange - 2}]
    /\ sent[Teaching] = 0
    /\ session = [w \in Windows |-> 1]
    /\ target = NoPose
    /\ dragging = FALSE /\ released = FALSE
    /\ net = {}

-----------------------------------------------------------------------------
(* What a window shows, and what it lets its operator do.                  *)

Flags == {"online", "estop", "paused", "guidanceActive", "recordAllowed",
          "validateAllowed", "validated", "previewComplete", "idleFailed"}
RobotStates == {"IDLE", "TEACHING", "OTHER"}
Statuses == [state : RobotStates, flags : SUBSET Flags]

Shows(s, flags) == flags \cup {"online"} \subseteq s.flags

RecordOffered(s)  == Shows(s, {"recordAllowed"}) /\ "guidanceActive" \notin s.flags
\* One button each, and the same event.
ValidateOffered(s) == Shows(s, {"validateAllowed"}) /\ s.state = "TEACHING"
PreviewOffered(s)  == /\ Shows(s, {"validated"}) /\ s.state = "IDLE"
                      /\ "estop" \notin s.flags
SpeedOffered(s)   == Shows(s, {}) /\ s.state = "TEACHING"
StartOffered(s)   == /\ Shows(s, {"validated", "previewComplete"})
                     /\ s.state = "IDLE" /\ s.flags \cap {"idleFailed", "estop"} = {}
\* One button for both.
ResumeOffered(s)  == Shows(s, {"paused"})
PauseOffered(s)   == Shows(s, {}) /\ ~ResumeOffered(s)

Offered(s) ==
    {event \in {"LINE", "ARC", "CIRCLE", "RESET", "HOME", ToggleEstop} : Shows(s, {})}
    \cup {event \in {"RECORD"} : RecordOffered(s)}
    \cup {event \in {"VALIDATE_PREVIEW"} : ValidateOffered(s) \/ PreviewOffered(s)}
    \cup {event \in {"SPEED_UP", "SPEED_DOWN", "SPEED_DEFAULT"} : SpeedOffered(s)}
    \cup {event \in {"START_REPLAY"} : StartOffered(s)}
    \cup {event \in {"RESUME"} : ResumeOffered(s)}
    \cup {event \in {"PAUSE"} : PauseOffered(s)}

\* What some status offers.
OfferedEvents == UNION {Offered(s) : s \in Statuses}

TeachingActive(s) ==
    /\ "online" \in s.flags /\ s.state = "TEACHING"
    /\ s.flags \cap {"estop", "paused"} = {}

MayTeach    == \E s \in Statuses : TeachingActive(s)
MayNotTeach == \E s \in Statuses : ~TeachingActive(s)

-----------------------------------------------------------------------------
(* What the windows do.                                                    *)

\* send_packet(): the count is advanced first, whatever becomes of the
\* datagram.
Packet(w, command, pose) ==
    [port |-> port[w], sequence |-> (sent[w] + 1) % SequenceRange,
     command |-> command, pose |-> pose,
     window |-> w, session |-> session[w], count |-> sent[w] + 1]

FirstCount(w) == IF sent[w] < SequenceRange - 2 THEN 0 ELSE SequenceRange - 2

Send(w, command, pose) ==
    /\ Cardinality(net) < InFlight                   \* bound
    /\ sent[w] < FirstCount(w) + MaxSent - (session[w] - 1)       \* bound
    /\ sent' = [sent EXCEPT ![w] = @ + 1]
    /\ net' \in {net, net \cup {Packet(w, command, pose)}}    \* lost, or not

\* A button of the panel that the status it shows lets it offer.
PressButton ==
    /\ \E event \in Buttons \cap OfferedEvents : Send(Panel, event, NoPose)
    /\ UNCHANGED <<port, session, target, dragging, released>>

\* send_target(): the target itself is clamped.
ClampedPose(pose) == [a \in Axes |-> Clamp(pose[a])]

SendTarget(pose) ==
    /\ target' = ClampedPose(pose)
    /\ Send(Teaching, Guidance, ClampedPose(pose))

\* Within 50 ms of the last one a pose is drawn and not sent.
Drag ==
    /\ MayTeach
    /\ dragging
    /\ \E pose \in Poses \ {target} :
          \/ SendTarget(pose)
          \/ target' = pose /\ UNCHANGED <<sent, net>>
    /\ UNCHANGED <<port, session, dragging, released>>

Grab ==
    /\ MayTeach
    /\ ~dragging
    /\ dragging' = TRUE /\ released' = FALSE
    /\ UNCHANGED <<port, sent, session, target, net>>

\* Mutant: releasing the target sends no last pose.
BugRelease ==
    /\ MayTeach
    /\ dragging
    /\ dragging' = FALSE /\ released' = TRUE
    /\ UNCHANGED <<port, sent, session, target, net>>

\* The last pose of a drag is always sent.
Release ==
    /\ MayTeach
    /\ dragging
    /\ dragging' = FALSE /\ released' = TRUE
    /\ SendTarget(target)
    /\ UNCHANGED <<port, session>>

\* A button released with teaching no longer active sends nothing.
Abandon ==
    /\ MayNotTeach
    /\ dragging
    /\ dragging' = FALSE
    /\ UNCHANGED <<port, sent, session, target, released, net>>

\* A window is closed and started again.  Its command socket is not bound: the
\* port is any that is free, and the count starts again.  Only a window that
\* has sent less than half the range is restarted: the other half would take
\* 2^31 commands.
Restart(w) ==
    /\ session[Panel] + session[Teaching] < MaxRestarts + 2       \* bound
    /\ sent[w] < HalfRange
    /\ session' = [session EXCEPT ![w] = @ + 1]
    /\ sent' = [sent EXCEPT ![w] = 0]
    /\ \E p \in Ports \ {port[v] : v \in Windows \ {w}} :
          port' = [port EXCEPT ![w] = p]
    /\ IF w = Teaching THEN target' = NoPose /\ dragging' = FALSE /\ released' = FALSE
                       ELSE UNCHANGED <<target, dragging, released>>
    /\ UNCHANGED net

PanelsNext ==
    \/ PressButton \/ Drag \/ Grab \/ Release \/ Abandon
    \/ \E w \in Windows : Restart(w)
=============================================================================
