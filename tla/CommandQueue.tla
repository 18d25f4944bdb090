----------------------------- MODULE CommandQueue -----------------------------
(***************************************************************************)
(* What a session promises its callers: commands wait in a bounded queue,  *)
(* are sent one at a time in the order in which they were accepted, are    *)
(* executed by the server at most once and only while it is their turn,    *)
(* and are answered once.  Success means that the server has completed the *)
(* command; an error leaves open whether it did.                           *)
(***************************************************************************)
EXTENDS Integers, Sequences

CONSTANTS
    Callers,   \* each makes one call
    None,      \* nobody, or no answer yet
    Capacity   \* of the queue

VARIABLES
    asked,     \* the callers that have made their call
    answer,    \* answer[c]: what c was told, if anything
    queue,     \* who waits, in order; None is a close that nobody waits for
    open,      \* whether the queue takes commands
    turn,      \* whose command has been sent and is not answered yet
    wire,      \* whose commands are on their way to the server
    working,   \* whose command the server is executing
    complete   \* whose completions are on their way back

qvars == <<asked, answer, queue, open, turn, wire, working, complete>>
exchange == <<turn, wire, working, complete>>

QInit ==
    /\ asked = {} /\ answer = [c \in Callers |-> None]
    /\ queue = <<>> /\ open = TRUE
    /\ turn = None /\ wire = {} /\ working = None /\ complete = {}

Waiting == {queue[i] : i \in 1..Len(queue)} \ {None}

(* Everyone in told gets the answer that this function gives him, and      *)
(* nobody who was answered before is in it.                                *)
Tell(told) ==
    /\ DOMAIN told \subseteq asked'
    /\ \A c \in DOMAIN told : answer[c] = None
    /\ answer' = [c \in Callers |-> IF c \in DOMAIN told THEN told[c] ELSE answer[c]]

Accept(c) ==
    /\ open /\ Len(queue) < Capacity
    /\ c \notin asked
    /\ asked' = asked \cup ({c} \ {None})
    /\ queue' = Append(queue, c)
    /\ UNCHANGED <<answer, open, exchange>>

(* The queue is closed: an error at once.                                  *)
Refuse(c) ==
    /\ ~open
    /\ c \notin asked
    /\ asked' = asked \cup {c}
    /\ Tell([d \in {c} |-> "err"])
    /\ UNCHANGED <<queue, open, exchange>>

(* The first in the queue is sent, when nobody else's command is under     *)
(* way.  What is sent to a server that is gone gets lost.                  *)
Start ==
    /\ turn = None /\ queue # <<>>
    /\ turn' = Head(queue) /\ queue' = Tail(queue)
    /\ wire' \in {{Head(queue)}, {}}
    /\ UNCHANGED <<asked, answer, open, working, complete>>

(* The first in the queue gets an error without having been executed.      *)
Reject ==
    /\ turn = None /\ queue # <<>>
    /\ queue' = Tail(queue)
    /\ Tell([c \in {Head(queue)} |-> "err"])
    /\ UNCHANGED <<asked, open, exchange>>

(* The first in the queue asked to close: those behind it get errors.      *)
Close ==
    /\ turn = None /\ queue # <<>>
    /\ \E result \in {"ok", "err"} :
          Tell([c \in Waiting |-> IF c = Head(queue) THEN result ELSE "err"])
    /\ open' = FALSE /\ queue' = <<>>
    /\ UNCHANGED <<asked, exchange>>

(* The server begins and completes the command whose turn it is.           *)
Serve ==
    /\ wire = {turn} /\ working = None /\ complete = {}
    /\ working' = turn /\ wire' = {}
    /\ UNCHANGED <<asked, answer, queue, open, turn, complete>>
Served ==
    /\ working = turn /\ turn # None
    /\ working' = None /\ complete' = {turn}
    /\ UNCHANGED <<asked, answer, queue, open, turn, wire>>

(* The connection is lost, perhaps with the completion that was under way. *)
Lose ==
    /\ wire' = {} /\ working' = None /\ complete' \in {complete, {}}
    /\ UNCHANGED <<asked, answer, queue, open, turn>>

(* The completion arrives, and its caller is answered.                     *)
Finish ==
    /\ turn # None /\ complete = {turn}
    /\ \E result \in {"ok", "err"} : Tell([c \in {turn} |-> result])
    /\ turn' = None /\ complete' = {}
    /\ UNCHANGED <<asked, queue, open, wire, working>>

(* The session ends: an error for everyone who still waits.                *)
Down ==
    /\ Tell([c \in (Waiting \cup {turn}) \ {None} |-> "err"])
    /\ open' = FALSE /\ queue' = <<>>
    /\ turn' = None /\ wire' = {} /\ working' = None /\ complete' = {}
    /\ UNCHANGED asked

QNext ==
    \/ \E c \in Callers : Accept(c) \/ Refuse(c)
    \/ Accept(None)
    \/ Start \/ Reject \/ Close \/ Serve \/ Served \/ Lose \/ Finish \/ Down

QSpec == QInit /\ [][QNext]_qvars
=============================================================================
