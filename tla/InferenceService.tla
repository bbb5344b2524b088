-------------------------- MODULE InferenceService --------------------------
(***************************************************************************)
(* What the inference node promises to the nodes around it ("do model      *)
(* inference for every topic msg", qrb_ros_inference_node.cpp:36): frames  *)
(* are answered in the order they arrived, each at most once, with the     *)
(* result of that very frame or, if the result cannot be read, with an     *)
(* empty one.  Its queues keep the last frames: a frame may be lost, but   *)
(* only when Depth newer ones wait.  The service may stop; it then answers *)
(* nothing any more.                                                       *)
(***************************************************************************)
EXTENDS Integers, Sequences

CONSTANTS
    Msg,    \* the frames
    Empty,  \* a result without tensors
    Depth   \* how many frames a queue keeps

VARIABLES
    arrived,    \* the frames that ever arrived
    waiting,    \* the frames not answered yet, in the order they arrived
    answers,    \* the answers given, in order
    stopped

svars == <<arrived, waiting, answers, stopped>>

Answers == [header : Msg, result : Msg \cup {Empty}]

SInit == arrived = {} /\ waiting = <<>> /\ answers = <<>> /\ stopped = FALSE

Without(s, i) == SubSeq(s, 1, i - 1) \o SubSeq(s, i + 1, Len(s))

Accept(m) ==
    /\ m \notin arrived /\ arrived' = arrived \cup {m}
    /\ waiting' = Append(waiting, m)
    /\ UNCHANGED <<answers, stopped>>

\* A full queue makes room for the new frame: the lost one is older than Depth
\* others, of which the new one is the last.
AcceptLosing(m, i) ==
    /\ Len(waiting) - i + 1 >= Depth
    /\ m \notin arrived /\ arrived' = arrived \cup {m}
    /\ waiting' = Append(Without(waiting, i), m)
    /\ UNCHANGED <<answers, stopped>>

\* A service that has stopped may lose any frame.
Lose(i) ==
    /\ stopped \/ Len(waiting) - i >= Depth
    /\ waiting' = Without(waiting, i)
    /\ UNCHANGED <<arrived, answers, stopped>>

\* The oldest frame is answered, perhaps as the last one.
Answer ==
    /\ ~stopped /\ waiting # <<>>
    /\ stopped' \in BOOLEAN
    /\ waiting' = Tail(waiting)
    /\ \E r \in {Head(waiting), Empty} :
           answers' = Append(answers, [header |-> Head(waiting), result |-> r])
    /\ UNCHANGED arrived

Stop ==
    /\ stopped' = TRUE
    /\ UNCHANGED <<arrived, waiting, answers>>

SNext ==
    \/ \E m \in Msg : Accept(m)
    \/ \E m \in Msg, i \in 1 .. Len(waiting) : AcceptLosing(m, i)
    \/ \E i \in 1 .. Len(waiting) : Lose(i)
    \/ Answer
    \/ Stop

\* The order and the number of the answers.
SafeSpec == SInit /\ [][SNext]_svars

\* While a frame waits, one is answered, one is lost or the service stops.
Progress == WF_svars(Answer)
=============================================================================
