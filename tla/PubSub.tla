------------------------------- MODULE PubSub -------------------------------
(***************************************************************************)
(* src/examples/pubsub: a broker that copies each published message to the *)
(* channel of every subscriber, and can be closed while publishers are     *)
(* blocked on slow subscribers.                                            *)
(*                                                                         *)
(* Critical sections of Broker.mu that do nothing else are one action.     *)
(* unsubscribe is different: it holds Broker.mu while it waits for the     *)
(* senders of its subscriber, so mu records that.  A critical section of   *)
(* subscriber.mu is part of one action.  Each subscriber object has one    *)
(* Unsubscribe call (sync.Once makes further calls wait for the first and  *)
(* do nothing).  What a message says does not matter, so a channel is the  *)
(* number of messages buffered in it; accepted records where the message   *)
(* of the current Publish call has got to.                                 *)
(***************************************************************************)
EXTENDS Naturals

CONSTANTS
    Subs,         \* subscriber objects
    Publishers,   \* goroutines calling Publish
    Closers,      \* goroutines calling Close
    NoSub,        \* no subscriber
    BufferSizes   \* values of New's argument buffer

ASSUME PubSubAssumption ==
    /\ BufferSizes \subseteq Nat
    /\ NoSub \notin Subs

VARIABLES
    buffer,       \* Broker.buffer, fixed by New
    mu,           \* the subscriber whose unsubscribe holds Broker.mu, or NoSub
    closed,       \* Broker.closed, and whether Broker.done is closed
    subscribers,  \* Broker.subscribers
    sclosed,      \* sclosed[s]: subscriber.closed, and whether s.done is closed
    senders,      \* senders[s]: the publishers counted in s.wg
    buffered,     \* buffered[s]: messages in the buffer of s.ch
    chClosed,     \* chClosed[s]: s.ch is closed
    upc,          \* upc[s]: new, live (subscribed), wait or done
    ppc,          \* ppc[p]: idle, loop, send or check
    todo,         \* todo[p]: subscribers p's Publish has yet to visit
    snap,         \* snap[p]: subscribers of p's snapshot
    target,       \* target[p]: the subscriber p is sending to
    accepted,     \* accepted[p]: subscribers that have taken p's message
    kpc,          \* kpc[k]: idle, loop, wait or done
    ktodo,        \* ktodo[k]: subscribers k's Close has yet to close
    ktarget       \* ktarget[k]: the subscriber k is closing

pubVars == <<ppc, todo, snap, target, accepted>>
closerVars == <<kpc, ktodo, ktarget>>
chanVars == <<buffered, chClosed>>
vars == <<buffer, mu, closed, subscribers, sclosed, senders, chanVars, upc,
          pubVars, closerVars>>

Init ==
    /\ buffer \in BufferSizes
    /\ mu = NoSub
    /\ closed = FALSE
    /\ subscribers = {}
    /\ sclosed = [s \in Subs |-> FALSE]
    /\ senders = [s \in Subs |-> {}]
    /\ buffered = [s \in Subs |-> 0]
    /\ chClosed = [s \in Subs |-> FALSE]
    /\ upc = [s \in Subs |-> "new"]
    /\ ppc = [p \in Publishers |-> "idle"]
    /\ todo = [p \in Publishers |-> {}]
    /\ snap = [p \in Publishers |-> {}]
    /\ target = [p \in Publishers |-> NoSub]
    /\ accepted = [p \in Publishers |-> {}]
    /\ kpc = [k \in Closers |-> "idle"]
    /\ ktodo = [k \in Closers |-> {}]
    /\ ktarget = [k \in Closers |-> NoSub]

MuFree == mu = NoSub

-----------------------------------------------------------------------------
(* Subscribe; on a closed broker it returns ErrClosed and changes nothing. *)

Subscribe(s) ==
    /\ upc[s] = "new"
    /\ MuFree
    /\ ~closed
    /\ subscribers' = subscribers \union {s}
    /\ upc' = [upc EXCEPT ![s] = "live"]
    /\ UNCHANGED <<buffer, mu, closed, sclosed, senders, chanVars, pubVars,
                   closerVars>>

(* The owner of s receives; it may be slow or never do it. *)
Receive(s) ==
    /\ buffered[s] > 0
    /\ buffered' = [buffered EXCEPT ![s] = @ - 1]
    /\ UNCHANGED <<buffer, mu, closed, subscribers, sclosed, senders, chClosed,
                   upc, pubVars, closerVars>>

-----------------------------------------------------------------------------
(* Publish; on a closed broker it returns ErrClosed and changes nothing.   *)
(* The snapshot is visited in map order, that is in any order.             *)

Publish(p) ==
    /\ ppc[p] = "idle"
    /\ MuFree
    /\ ~closed
    /\ snap' = [snap EXCEPT ![p] = subscribers]
    /\ todo' = [todo EXCEPT ![p] = subscribers]
    /\ ppc' = [ppc EXCEPT ![p] = "loop"]
    /\ UNCHANGED <<buffer, mu, closed, subscribers, sclosed, senders, chanVars,
                   upc, target, accepted, closerVars>>

(* Broken variant: send does not look at s.closed. *)
BeginSend_IgnoresClosed(p, s) ==
    /\ ppc[p] = "loop"
    /\ s \in todo[p]
    /\ todo' = [todo EXCEPT ![p] = @ \ {s}]
    /\ target' = [target EXCEPT ![p] = s]
    /\ ppc' = [ppc EXCEPT ![p] = "send"]
    /\ senders' = [senders EXCEPT ![s] = @ \union {p}]
    /\ UNCHANGED <<buffer, mu, closed, subscribers, sclosed, chanVars, upc,
                   snap, accepted, closerVars>>

BeginSend(p, s) ==
    /\ ppc[p] = "loop"
    /\ s \in todo[p]
    /\ todo' = [todo EXCEPT ![p] = @ \ {s}]
    /\ target' = [target EXCEPT ![p] = s]
    /\ IF sclosed[s]
       THEN /\ ppc' = [ppc EXCEPT ![p] = "check"]
            /\ UNCHANGED senders
       ELSE /\ ppc' = [ppc EXCEPT ![p] = "send"]
            /\ senders' = [senders EXCEPT ![s] = @ \union {p}]
    /\ UNCHANGED <<buffer, mu, closed, subscribers, sclosed, chanVars, upc,
                   snap, accepted, closerVars>>

(* send returns: the deferred wg.Done, then back to the loop of Publish. *)
EndSend(p, next) ==
    /\ senders' = [senders EXCEPT ![target[p]] = @ \ {p}]
    /\ ppc' = [ppc EXCEPT ![p] = next]
    /\ UNCHANGED <<buffer, mu, closed, subscribers, sclosed, chClosed, upc,
                   todo, snap, target, closerVars>>

Accept(p) == accepted' = [accepted EXCEPT ![p] = @ \union {target[p]}]

SendBuffered(p) ==
    /\ ppc[p] = "send"
    /\ buffered[target[p]] < buffer
    /\ buffered' = [buffered EXCEPT ![target[p]] = @ + 1]
    /\ Accept(p)
    /\ EndSend(p, "loop")

(* On an unbuffered channel the send and the receive are one event. *)
SendHandOff(p) ==
    /\ ppc[p] = "send"
    /\ buffer = 0
    /\ Accept(p)
    /\ EndSend(p, "loop")
    /\ UNCHANGED buffered

(* Broken variants of the failing branches of send: the result is ignored  *)
(* by Publish; the select does not watch s.done.                           *)
SendAborted_Ignored(p) ==
    /\ ppc[p] = "send"
    /\ sclosed[target[p]] \/ closed
    /\ EndSend(p, "loop")
    /\ UNCHANGED <<buffered, accepted>>

SendAborted_BrokerDoneOnly(p) ==
    /\ ppc[p] = "send"
    /\ closed
    /\ EndSend(p, "check")
    /\ UNCHANGED <<buffered, accepted>>

SendAborted(p) ==
    /\ ppc[p] = "send"
    /\ sclosed[target[p]] \/ closed
    /\ EndSend(p, "check")
    /\ UNCHANGED <<buffered, accepted>>

PublishReturns(p) ==
    /\ ppc' = [ppc EXCEPT ![p] = "idle"]
    /\ todo' = [todo EXCEPT ![p] = {}]
    /\ snap' = [snap EXCEPT ![p] = {}]
    /\ target' = [target EXCEPT ![p] = NoSub]
    /\ accepted' = [accepted EXCEPT ![p] = {}]

(* A send that failed: isClosed decides between ErrClosed and going on. *)
CheckClosed(p) ==
    /\ ppc[p] = "check"
    /\ MuFree
    /\ IF closed
       THEN PublishReturns(p)
       ELSE /\ ppc' = [ppc EXCEPT ![p] = "loop"]
            /\ UNCHANGED <<todo, snap, target, accepted>>
    /\ UNCHANGED <<buffer, mu, closed, subscribers, sclosed, senders, chanVars,
                   upc, closerVars>>

ReturnNil(p) ==
    /\ ppc[p] = "loop"
    /\ todo[p] = {}
    /\ PublishReturns(p)
    /\ UNCHANGED <<buffer, mu, closed, subscribers, sclosed, senders, chanVars,
                   upc, closerVars>>

-----------------------------------------------------------------------------
(* subscriber.close, called by unsubscribe and by Close: mark it closed    *)
(* unless it is already, wait for the senders, close the channel.          *)

Mark(s) == sclosed' = [sclosed EXCEPT ![s] = TRUE]

CloseChannel(s) ==
    /\ senders[s] = {}
    /\ chClosed' = [chClosed EXCEPT ![s] = TRUE]

-----------------------------------------------------------------------------
(* Broken variants of unsubscribe: it closes the channel whether or not s  *)
(* is still registered and open; it lets go of Broker.mu before it waits.  *)
UnsubscribeStart_Unchecked(s) ==
    /\ upc[s] = "live"
    /\ MuFree
    /\ Mark(s)
    /\ mu' = s
    /\ upc' = [upc EXCEPT ![s] = "wait"]
    /\ subscribers' = subscribers \ {s}
    /\ UNCHANGED <<buffer, closed, senders, chanVars, pubVars, closerVars>>

UnsubscribeStart_EarlyUnlock(s) ==
    /\ upc[s] = "live"
    /\ MuFree
    /\ IF s \in subscribers
       THEN Mark(s) /\ upc' = [upc EXCEPT ![s] = "wait"]
       ELSE upc' = [upc EXCEPT ![s] = "done"] /\ UNCHANGED sclosed
    /\ subscribers' = subscribers \ {s}
    /\ UNCHANGED <<buffer, mu, closed, senders, chanVars, pubVars, closerVars>>

(* The Unsubscribe function of s.  Deleting s from the map and marking it  *)
(* closed are one step: Broker.mu is held from before the deletion on, and *)
(* whoever looks at the map needs it.                                      *)

UnsubscribeStart(s) ==
    /\ upc[s] = "live"
    /\ MuFree
    /\ IF s \in subscribers /\ ~sclosed[s]
       THEN /\ Mark(s)
            /\ mu' = s
            /\ upc' = [upc EXCEPT ![s] = "wait"]
       ELSE /\ upc' = [upc EXCEPT ![s] = "done"]
            /\ UNCHANGED <<sclosed, mu>>
    /\ subscribers' = subscribers \ {s}
    /\ UNCHANGED <<buffer, closed, senders, chanVars, pubVars, closerVars>>

UnsubscribeFinish(s) ==
    /\ upc[s] = "wait"
    /\ CloseChannel(s)
    /\ mu' = NoSub
    /\ upc' = [upc EXCEPT ![s] = "done"]
    /\ UNCHANGED <<buffer, closed, subscribers, sclosed, senders, buffered,
                   pubVars, closerVars>>

-----------------------------------------------------------------------------
(* Close: take every subscriber out of the map, then close them one by one *)
(* outside Broker.mu, in map order.  On a closed broker it does nothing.   *)

CloseStart(k) ==
    /\ kpc[k] = "idle"
    /\ MuFree
    /\ ~closed
    /\ closed' = TRUE
    /\ ktodo' = [ktodo EXCEPT ![k] = subscribers]
    /\ subscribers' = {}
    /\ kpc' = [kpc EXCEPT ![k] = "loop"]
    /\ UNCHANGED <<buffer, mu, sclosed, senders, chanVars, upc, pubVars, ktarget>>

CloseMark(k, s) ==
    /\ kpc[k] = "loop"
    /\ s \in ktodo[k]
    /\ ktodo' = [ktodo EXCEPT ![k] = @ \ {s}]
    /\ IF sclosed[s]
       THEN UNCHANGED <<sclosed, kpc, ktarget>>
       ELSE /\ Mark(s)
            /\ ktarget' = [ktarget EXCEPT ![k] = s]
            /\ kpc' = [kpc EXCEPT ![k] = "wait"]
    /\ UNCHANGED <<buffer, mu, closed, subscribers, senders, chanVars, upc,
                   pubVars>>

CloseFinish(k) ==
    /\ kpc[k] = "wait"
    /\ CloseChannel(ktarget[k])
    /\ kpc' = [kpc EXCEPT ![k] = "loop"]
    /\ ktarget' = [ktarget EXCEPT ![k] = NoSub]
    /\ UNCHANGED <<buffer, mu, closed, subscribers, sclosed, senders,
                   buffered, upc, pubVars, ktodo>>

CloseReturn(k) ==
    /\ kpc[k] = "loop"
    /\ ktodo[k] = {}
    /\ kpc' = [kpc EXCEPT ![k] = "done"]
    /\ UNCHANGED <<buffer, mu, closed, subscribers, sclosed, senders, chanVars,
                   upc, pubVars, ktodo, ktarget>>

-----------------------------------------------------------------------------

(* The steps a publisher takes by itself; a hand-off needs a receiver. *)
PublisherStep(p) ==
    \/ \E s \in Subs : BeginSend(p, s)
    \/ SendBuffered(p)
    \/ SendAborted(p)
    \/ CheckClosed(p)
    \/ ReturnNil(p)

CloserStep(k) ==
    \/ \E s \in Subs : CloseMark(k, s)
    \/ CloseFinish(k)
    \/ CloseReturn(k)

Next ==
    \/ \E s \in Subs :
          \/ Subscribe(s)
          \/ Receive(s)
          \/ UnsubscribeStart(s)
          \/ UnsubscribeFinish(s)
    \/ \E p \in Publishers : Publish(p) \/ PublisherStep(p) \/ SendHandOff(p)
    \/ \E k \in Closers : CloseStart(k) \/ CloserStep(k)

Spec == Init /\ [][Next]_vars

(* Goroutines that can run do run.  Nothing makes a subscriber receive.    *)
(* Broker.mu is contended by finitely many Unsubscribe calls only, so weak *)
(* fairness is enough for CheckClosed.                                     *)
Scheduling ==
    /\ \A p \in Publishers : WF_vars(PublisherStep(p))
    /\ \A s \in Subs : WF_vars(UnsubscribeFinish(s))
    /\ \A k \in Closers : WF_vars(CloserStep(k))

FairSpec == Spec /\ Scheduling

-----------------------------------------------------------------------------
(* Properties *)

(* Types, and the capacity of every channel. *)
TypeOK ==
    /\ buffer \in BufferSizes
    /\ mu \in Subs \union {NoSub}
    /\ closed \in BOOLEAN
    /\ subscribers \subseteq Subs
    /\ sclosed \in [Subs -> BOOLEAN]
    /\ senders \in [Subs -> SUBSET Publishers]
    /\ buffered \in [Subs -> 0 .. buffer]
    /\ chClosed \in [Subs -> BOOLEAN]
    /\ upc \in [Subs -> {"new", "live", "wait", "done"}]
    /\ ppc \in [Publishers -> {"idle", "loop", "send", "check"}]
    /\ todo \in [Publishers -> SUBSET Subs]
    /\ snap \in [Publishers -> SUBSET Subs]
    /\ target \in [Publishers -> Subs \union {NoSub}]
    /\ accepted \in [Publishers -> SUBSET Subs]
    /\ kpc \in [Closers -> {"idle", "loop", "wait", "done"}]
    /\ ktodo \in [Closers -> SUBSET Subs]
    /\ ktarget \in [Closers -> Subs \union {NoSub}]

(* A publisher in the select of send never has a closed channel in front   *)
(* of it (a send on it would panic), however unsubscribe and Close race    *)
(* with the publishers.                                                    *)
NoSendOnClosedChannel ==
    \A p \in Publishers : ppc[p] = "send" => ~chClosed[target[p]]

Closing(s) ==
    {u \in Subs : u = s /\ upc[s] = "wait"} \union
    {k \in Closers : kpc[k] = "wait" /\ ktarget[k] = s}

(* No channel is closed twice: of the Unsubscribe call and the Close calls *)
(* at most one gets to close(s.ch), and only while it is open.             *)
ChannelClosedOnce ==
    \A s \in Subs :
        /\ \A a, b \in Closing(s) : a = b
        /\ Closing(s) # {} => ~chClosed[s]

(* Publish goes on to the next subscriber, and returns nil, only when each *)
(* subscriber visited so far has the message or was itself closed: a       *)
(* failed send is never mistaken for a delivery while the broker is open.  *)
PublishSkipsOnlyClosed ==
    \A p \in Publishers :
        ppc[p] = "loop" =>
            \A s \in snap[p] \ todo[p] : s \in accepted[p] \/ sclosed[s]

(* When the Close call that closed the broker has returned, every channel  *)
(* ever handed out by Subscribe is closed: no subscriber slips in after    *)
(* the sweep or is forgotten by an Unsubscribe that was under way.         *)
CloseLeavesNoOpenChannel ==
    \A k \in Closers :
        kpc[k] = "done" => \A s \in Subs : upc[s] # "new" => chClosed[s]

(* The calls that wait return although no subscriber ever receives again   *)
(* and publishers are blocked on full channels: Close and Unsubscribe, the *)
(* latter holding Broker.mu, which a publisher it waits for must not need  *)
(* to get out of send; and, once the broker is closed, every Publish.      *)
CallsReturn ==
    /\ \A k \in Closers : kpc[k] \in {"loop", "wait"} ~> kpc[k] = "done"
    /\ \A s \in Subs : upc[s] = "wait" ~> upc[s] = "done"
    /\ \A p \in Publishers : closed /\ ppc[p] # "idle" ~> ppc[p] = "idle"

(* The doc comment of Broker: after Unsubscribe returns, the channel is    *)
(* closed.  Not so when Close has taken the subscriber out of the map and  *)
(* has not got to closing it.                                              *)
UnsubscribeClosesChannel == \A s \in Subs : upc[s] = "done" => chClosed[s]
=============================================================================
