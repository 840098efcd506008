------------------------------- MODULE Actor --------------------------------
(***************************************************************************)
(* src/examples/actor: a counter owned by one goroutine, which serves      *)
(* commands until Close.  commands is unbuffered and every command brings  *)
(* a buffered channel for its reply, so the hand-over, the change and the  *)
(* reply of the actor are one step: nothing the callers can see lies       *)
(* between them.  Each select takes any branch that is ready, so a caller  *)
(* may be told the actor is closed although its reply is there.            *)
(***************************************************************************)
EXTENDS Naturals

CONSTANTS
    Callers,  \* goroutines calling Add and Value
    Deltas,   \* arguments of Add; 0 stands for Value
    Modulus,  \* how many values an int has: it wraps around
    NoReply,  \* an empty reply channel
    ErrClosed \* what a call returns that finds the actor gone

ActorAssumption ==
    /\ Modulus \in Nat \ {0}
    /\ Deltas \subseteq 0 .. Modulus - 1
    /\ {NoReply, ErrClosed} \intersect 0 .. Modulus - 1 = {}

VARIABLES
    current,  \* local variable current of run
    stop,     \* channel stop is closed
    done,     \* channel done is closed: the actor has returned
    pc,       \* pc[c]: out, sending (first select) or waiting (second one)
    delta,    \* delta[c]: the delta of c's command
    reply,    \* reply[c]: what is in the command's reply channel
    got       \* got[c]: what c's last call returned

vars == <<current, stop, done, pc, delta, reply, got>>

Ints == 0 .. Modulus - 1

Init ==
    /\ current \in Ints
    /\ stop = FALSE /\ done = FALSE
    /\ pc = [c \in Callers |-> "out"]
    /\ delta = [c \in Callers |-> 0]
    /\ reply = [c \in Callers |-> NoReply]
    /\ got = [c \in Callers |-> NoReply]

Call(c, d) ==
    /\ pc[c] = "out"
    /\ pc' = [pc EXCEPT ![c] = "sending"]
    /\ delta' = [delta EXCEPT ![c] = d]
    /\ UNCHANGED <<current, stop, done, reply, got>>

Returns(c, what) ==
    /\ pc' = [pc EXCEPT ![c] = "out"]
    /\ delta' = [delta EXCEPT ![c] = 0]
    /\ reply' = [reply EXCEPT ![c] = NoReply]
    /\ got' = [got EXCEPT ![c] = what]
    /\ UNCHANGED <<current, stop, done>>

(* Broken variant: the reply is made before the delta is added. *)
Answer_Early(c) == current

Answer(c) == (current + delta[c]) % Modulus

(* The actor receives c's command, adds and replies. *)
Serve(c) ==
    /\ ~done
    /\ pc[c] = "sending"
    /\ current' = (current + delta[c]) % Modulus
    /\ reply' = [reply EXCEPT ![c] = Answer(c)]
    /\ pc' = [pc EXCEPT ![c] = "waiting"]
    /\ UNCHANGED <<stop, done, delta, got>>

ReadReply(c) ==
    /\ pc[c] = "waiting"
    /\ Returns(c, reply[c])

SeeDone(c) ==
    /\ done
    /\ pc[c] # "out"
    /\ Returns(c, ErrClosed)

(* Close, and the branch of the actor that ends it; the caller of Close    *)
(* returns after that.                                                     *)
Close ==
    /\ ~stop
    /\ stop' = TRUE
    /\ UNCHANGED <<current, done, pc, delta, reply, got>>

ActorReturns ==
    /\ stop /\ ~done
    /\ done' = TRUE
    /\ UNCHANGED <<current, stop, pc, delta, reply, got>>

Return(c) == ReadReply(c) \/ SeeDone(c)

Next ==
    \/ \E c \in Callers :
          \/ \E d \in Deltas : Call(c, d)
          \/ Serve(c)
          \/ Return(c)
    \/ Close
    \/ ActorReturns

Spec == Init /\ [][Next]_vars

-----------------------------------------------------------------------------
(* Properties *)

TypeOK ==
    /\ current \in Ints
    /\ {stop, done} \subseteq BOOLEAN
    /\ pc \in [Callers -> {"out", "sending", "waiting"}]
    /\ delta \in [Callers -> Deltas \union {0}]
    /\ reply \in [Callers -> Ints \union {NoReply}]
    /\ got \in [Callers -> Ints \union {NoReply, ErrClosed}]
    /\ \A c \in Callers : pc[c] = "waiting" <=> reply[c] # NoReply

Shared == INSTANCE SharedCounter WITH
    Nothing <- NoReply,
    value <- current, shut <- stop, made <- reply, outcome <- got,
    asked <- [c \in Callers |-> IF pc[c] = "sending" THEN delta[c] ELSE NoReply]

(* Every call takes effect once, between its start and its return, and     *)
(* returns the value it made; a call may end with ErrClosed, applied or    *)
(* not, but only after Close has been called.                              *)
ImplementsSharedCounter == Shared!Spec

(* Every call returns, and so does Close. *)
CallReturns ==
    /\ \A c \in Callers : pc[c] # "out" ~> pc[c] = "out"
    /\ stop ~> done
=============================================================================
