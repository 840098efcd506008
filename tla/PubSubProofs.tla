---------------------------- MODULE PubSubProofs ----------------------------
(***************************************************************************)
(* Proofs about PubSub for any number of subscribers, publishers, Close    *)
(* calls and any buffer size.  The inductive invariant says who is counted *)
(* in which wg, who is closing which subscriber, and where a subscriber is *)
(* that has been subscribed and not yet closed.                            *)
(***************************************************************************)
EXTENDS PubSub, TLAPS

(* A subscriber's wg counts exactly the publishers in its select. *)
SendersCounted ==
    /\ \A p \in Publishers : ppc[p] \in {"send", "check"} => target[p] \in Subs
    /\ \A p \in Publishers, s \in Subs :
          p \in senders[s] <=> ppc[p] = "send" /\ target[p] = s

(* A closed channel has no sender and gets none. *)
ClosedChannels == \A s \in Subs : chClosed[s] => sclosed[s] /\ senders[s] = {}

(* At most one goroutine is between marking s closed and closing its       *)
(* channel, and there is one as long as the channel is still open.         *)
OneCloser ==
    /\ \A s \in Subs : upc[s] = "wait" => sclosed[s] /\ ~chClosed[s] /\ mu = s
    /\ \A k \in Closers :
          kpc[k] = "wait" => /\ ktarget[k] \in Subs
                             /\ sclosed[ktarget[k]]
                             /\ ~chClosed[ktarget[k]]
                             /\ upc[ktarget[k]] # "wait"
    /\ \A s \in Subs :
          sclosed[s] /\ ~chClosed[s] =>
              \/ upc[s] = "wait"
              \/ \E k \in Closers : kpc[k] = "wait" /\ ktarget[k] = s

(* A subscriber that is subscribed and not yet marked closed is in the map *)
(* or on the list of the Close call that emptied the map.                  *)
Registered ==
    \A s \in Subs :
        upc[s] # "new" /\ ~sclosed[s] =>
            \/ s \in subscribers
            \/ \E k \in Closers : s \in ktodo[k] /\ kpc[k] \in {"loop", "wait"}

(* One Close call closes the broker, while no Unsubscribe is under way.    *)
CloseProgress ==
    /\ closed => subscribers = {} /\ mu = NoSub
    /\ \A k \in Closers : kpc[k] # "idle" => closed
    /\ \A k, l \in Closers : kpc[k] # "idle" /\ kpc[l] # "idle" => k = l

(* Where a Publish call stands with the subscribers it has visited. *)
PublishProgress ==
    \A p \in Publishers :
        /\ \A s \in snap[p] \ todo[p] :
              \/ s \in accepted[p]
              \/ sclosed[s]
              \/ ppc[p] \in {"send", "check"} /\ s = target[p]
        /\ ppc[p] = "check" => sclosed[target[p]] \/ closed

IInv ==
    /\ TypeOK
    /\ SendersCounted
    /\ ClosedChannels
    /\ OneCloser
    /\ Registered
    /\ CloseProgress
    /\ PublishProgress

LEMMA InitIInv == Init => IInv
<1> SUFFICES ASSUME Init PROVE IInv
  OBVIOUS
<1>1. TypeOK
  <2>1. buffer \in Nat
    BY PubSubAssumption DEF Init
  <2>2. buffered \in [Subs -> 0 .. buffer]
    BY <2>1 DEF Init
  <2> QED BY <2>2 DEF Init, TypeOK
<1> QED BY <1>1 DEF Init, IInv, SendersCounted, ClosedChannels, OneCloser,
              Registered, CloseProgress, PublishProgress

(* The invariant is inductive: one step per action. *)
LEMMA NextIInv == IInv /\ [Next]_vars => IInv'
<1> SUFFICES ASSUME IInv, [Next]_vars PROVE IInv'
  OBVIOUS
<1> USE PubSubAssumption DEF chanVars, pubVars, closerVars
<1>0. /\ TypeOK /\ SendersCounted /\ ClosedChannels /\ OneCloser
      /\ Registered /\ CloseProgress /\ PublishProgress
  BY DEF IInv
<1>1. ASSUME NEW s \in Subs, Subscribe(s) PROVE IInv'
  <2>1. TypeOK'
    BY <1>0, <1>1 DEF TypeOK, Subscribe
  <2>2. SendersCounted'
    BY <1>0, <1>1 DEF SendersCounted, Subscribe
  <2>3. ClosedChannels'
    BY <1>0, <1>1 DEF ClosedChannels, Subscribe
  <2>4. OneCloser'
    BY <1>0, <1>1 DEF OneCloser, Subscribe
  <2>5. Registered'
    BY <1>0, <1>1 DEF Registered, Subscribe
  <2>6. CloseProgress'
    BY <1>0, <1>1 DEF CloseProgress, Subscribe
  <2>7. PublishProgress'
    BY <1>0, <1>1 DEF PublishProgress, Subscribe
  <2> QED BY <2>1, <2>2, <2>3, <2>4, <2>5, <2>6, <2>7 DEF IInv
<1>2. ASSUME NEW s \in Subs, Receive(s) PROVE IInv'
  <2>1. TypeOK'
    BY <1>0, <1>2 DEF TypeOK, Receive
  <2>2. SendersCounted'
    BY <1>0, <1>2 DEF SendersCounted, Receive
  <2>3. ClosedChannels'
    BY <1>0, <1>2 DEF ClosedChannels, Receive
  <2>4. OneCloser'
    BY <1>0, <1>2 DEF OneCloser, Receive
  <2>5. Registered'
    BY <1>0, <1>2 DEF Registered, Receive
  <2>6. CloseProgress'
    BY <1>0, <1>2 DEF CloseProgress, Receive
  <2>7. PublishProgress'
    BY <1>0, <1>2 DEF PublishProgress, Receive
  <2> QED BY <2>1, <2>2, <2>3, <2>4, <2>5, <2>6, <2>7 DEF IInv
<1>3. ASSUME NEW s \in Subs, UnsubscribeStart(s) PROVE IInv'
  <2>1. TypeOK'
    BY <1>0, <1>3 DEF TypeOK, UnsubscribeStart, Mark
  <2>2. SendersCounted'
    BY <1>0, <1>3 DEF SendersCounted, UnsubscribeStart, Mark
  <2>3. ClosedChannels'
    BY <1>0, <1>3 DEF ClosedChannels, UnsubscribeStart, Mark, TypeOK
  <2>4. OneCloser'
    <3>1. CASE s \in subscribers /\ ~sclosed[s]
      <4>1. /\ sclosed' = [sclosed EXCEPT ![s] = TRUE]
            /\ mu' = s /\ mu = NoSub
            /\ upc' = [upc EXCEPT ![s] = "wait"]
            /\ UNCHANGED <<chClosed, kpc, ktarget>>
        BY <1>3, <3>1 DEF UnsubscribeStart, Mark, MuFree
      <4>2. /\ ~chClosed[s]
            /\ \A k \in Closers : kpc[k] = "wait" => ktarget[k] # s
            /\ \A t \in Subs : upc[t] # "wait"
        BY <1>0, <3>1, <4>1 DEF ClosedChannels, OneCloser
      <4>3. \A t \in Subs :
                upc'[t] = "wait" => sclosed'[t] /\ ~chClosed'[t] /\ mu' = t
        BY <1>0, <4>1, <4>2 DEF TypeOK
      <4>4. ASSUME NEW l \in Closers, kpc'[l] = "wait"
            PROVE  /\ ktarget'[l] \in Subs
                   /\ sclosed'[ktarget'[l]]
                   /\ ~chClosed'[ktarget'[l]]
                   /\ upc'[ktarget'[l]] # "wait"
        BY <1>0, <4>1, <4>2, <4>4 DEF OneCloser, TypeOK
      <4>5. ASSUME NEW t \in Subs, sclosed'[t], ~chClosed'[t]
            PROVE  \/ upc'[t] = "wait"
                   \/ \E l \in Closers : kpc'[l] = "wait" /\ ktarget'[l] = t
        BY <1>0, <4>1, <4>5 DEF OneCloser, TypeOK
      <4> QED BY <4>3, <4>4, <4>5 DEF OneCloser
    <3>2. CASE ~(s \in subscribers /\ ~sclosed[s])
      <4>1. /\ upc' = [upc EXCEPT ![s] = "done"] /\ upc[s] = "live"
            /\ UNCHANGED <<mu, sclosed, chClosed, kpc, ktarget>>
        BY <1>3, <3>2 DEF UnsubscribeStart
      <4> QED BY <1>0, <4>1 DEF OneCloser, TypeOK
    <3> QED BY <3>1, <3>2
  <2>5. Registered'
    BY <1>0, <1>3 DEF Registered, UnsubscribeStart, Mark, TypeOK
  <2>6. CloseProgress'
    BY <1>0, <1>3 DEF CloseProgress, UnsubscribeStart, Mark
  <2>7. PublishProgress'
    <3>1. CASE s \in subscribers /\ ~sclosed[s]
      BY <1>0, <1>3, <3>1
         DEF PublishProgress, UnsubscribeStart, Mark, TypeOK, SendersCounted
    <3>2. CASE ~(s \in subscribers /\ ~sclosed[s])
      BY <1>0, <1>3, <3>2
         DEF PublishProgress, UnsubscribeStart, Mark, TypeOK, SendersCounted
    <3> QED BY <3>1, <3>2
  <2> QED BY <2>1, <2>2, <2>3, <2>4, <2>5, <2>6, <2>7 DEF IInv
<1>4. ASSUME NEW s \in Subs, UnsubscribeFinish(s) PROVE IInv'
  <2>1. TypeOK'
    BY <1>0, <1>4 DEF TypeOK, UnsubscribeFinish, CloseChannel
  <2>2. SendersCounted'
    BY <1>0, <1>4 DEF SendersCounted, UnsubscribeFinish, CloseChannel
  <2>3. ClosedChannels'
    BY <1>0, <1>4
       DEF ClosedChannels, UnsubscribeFinish, CloseChannel, TypeOK, OneCloser
  <2>4. OneCloser'
    BY <1>0, <1>4 DEF OneCloser, UnsubscribeFinish, CloseChannel, TypeOK
  <2>5. Registered'
    BY <1>0, <1>4 DEF Registered, UnsubscribeFinish, CloseChannel
  <2>6. CloseProgress'
    BY <1>0, <1>4 DEF CloseProgress, UnsubscribeFinish, CloseChannel
  <2>7. PublishProgress'
    BY <1>0, <1>4 DEF PublishProgress, UnsubscribeFinish, CloseChannel
  <2> QED BY <2>1, <2>2, <2>3, <2>4, <2>5, <2>6, <2>7 DEF IInv
<1>5. ASSUME NEW p \in Publishers, Publish(p) PROVE IInv'
  <2>1. TypeOK'
    BY <1>0, <1>5 DEF TypeOK, Publish
  <2>2. SendersCounted'
    BY <1>0, <1>5 DEF SendersCounted, Publish
  <2>3. ClosedChannels'
    BY <1>0, <1>5 DEF ClosedChannels, Publish
  <2>4. OneCloser'
    BY <1>0, <1>5 DEF OneCloser, Publish
  <2>5. Registered'
    BY <1>0, <1>5 DEF Registered, Publish
  <2>6. CloseProgress'
    BY <1>0, <1>5 DEF CloseProgress, Publish
  <2>7. PublishProgress'
    BY <1>0, <1>5 DEF PublishProgress, Publish, TypeOK
  <2> QED BY <2>1, <2>2, <2>3, <2>4, <2>5, <2>6, <2>7 DEF IInv
<1>6. ASSUME NEW p \in Publishers, NEW s \in Subs, BeginSend(p, s) PROVE IInv'
  <2>1. TypeOK'
    BY <1>0, <1>6 DEF TypeOK, BeginSend
  <2>2. SendersCounted'
    BY <1>0, <1>6 DEF SendersCounted, BeginSend, TypeOK
  <2>3. ClosedChannels'
    BY <1>0, <1>6 DEF ClosedChannels, BeginSend, TypeOK
  <2>4. OneCloser'
    BY <1>0, <1>6 DEF OneCloser, BeginSend
  <2>5. Registered'
    BY <1>0, <1>6 DEF Registered, BeginSend
  <2>6. CloseProgress'
    BY <1>0, <1>6 DEF CloseProgress, BeginSend
  <2>7. PublishProgress'
    BY <1>0, <1>6 DEF PublishProgress, BeginSend, TypeOK
  <2> QED BY <2>1, <2>2, <2>3, <2>4, <2>5, <2>6, <2>7 DEF IInv
<1>7. ASSUME NEW p \in Publishers, SendBuffered(p) PROVE IInv'
  <2>1. TypeOK'
    BY <1>0, <1>7 DEF TypeOK, SendBuffered, Accept, EndSend, SendersCounted
  <2>2. SendersCounted'
    BY <1>0, <1>7 DEF SendersCounted, SendBuffered, Accept, EndSend, TypeOK
  <2>3. ClosedChannels'
    BY <1>0, <1>7 DEF ClosedChannels, SendBuffered, Accept, EndSend
  <2>4. OneCloser'
    BY <1>0, <1>7 DEF OneCloser, SendBuffered, Accept, EndSend
  <2>5. Registered'
    BY <1>0, <1>7 DEF Registered, SendBuffered, Accept, EndSend
  <2>6. CloseProgress'
    BY <1>0, <1>7 DEF CloseProgress, SendBuffered, Accept, EndSend
  <2>7. PublishProgress'
    BY <1>0, <1>7 DEF PublishProgress, SendBuffered, Accept, EndSend, TypeOK
  <2> QED BY <2>1, <2>2, <2>3, <2>4, <2>5, <2>6, <2>7 DEF IInv
<1>8. ASSUME NEW p \in Publishers, SendHandOff(p) PROVE IInv'
  <2>1. TypeOK'
    BY <1>0, <1>8 DEF TypeOK, SendHandOff, Accept, EndSend, SendersCounted
  <2>2. SendersCounted'
    BY <1>0, <1>8 DEF SendersCounted, SendHandOff, Accept, EndSend, TypeOK
  <2>3. ClosedChannels'
    BY <1>0, <1>8 DEF ClosedChannels, SendHandOff, Accept, EndSend
  <2>4. OneCloser'
    BY <1>0, <1>8 DEF OneCloser, SendHandOff, Accept, EndSend
  <2>5. Registered'
    BY <1>0, <1>8 DEF Registered, SendHandOff, Accept, EndSend
  <2>6. CloseProgress'
    BY <1>0, <1>8 DEF CloseProgress, SendHandOff, Accept, EndSend
  <2>7. PublishProgress'
    BY <1>0, <1>8 DEF PublishProgress, SendHandOff, Accept, EndSend, TypeOK
  <2> QED BY <2>1, <2>2, <2>3, <2>4, <2>5, <2>6, <2>7 DEF IInv
<1>9. ASSUME NEW p \in Publishers, SendAborted(p) PROVE IInv'
  <2>1. TypeOK'
    BY <1>0, <1>9 DEF TypeOK, SendAborted, EndSend
  <2>2. SendersCounted'
    BY <1>0, <1>9 DEF SendersCounted, SendAborted, EndSend, TypeOK
  <2>3. ClosedChannels'
    BY <1>0, <1>9 DEF ClosedChannels, SendAborted, EndSend
  <2>4. OneCloser'
    BY <1>0, <1>9 DEF OneCloser, SendAborted, EndSend
  <2>5. Registered'
    BY <1>0, <1>9 DEF Registered, SendAborted, EndSend
  <2>6. CloseProgress'
    BY <1>0, <1>9 DEF CloseProgress, SendAborted, EndSend
  <2>7. PublishProgress'
    BY <1>0, <1>9 DEF PublishProgress, SendAborted, EndSend
  <2> QED BY <2>1, <2>2, <2>3, <2>4, <2>5, <2>6, <2>7 DEF IInv
<1>10. ASSUME NEW p \in Publishers, CheckClosed(p) PROVE IInv'
  <2>1. TypeOK'
    BY <1>0, <1>10 DEF TypeOK, CheckClosed, PublishReturns
  <2>2. SendersCounted'
    BY <1>0, <1>10 DEF SendersCounted, CheckClosed, PublishReturns, TypeOK
  <2>3. ClosedChannels'
    BY <1>0, <1>10 DEF ClosedChannels, CheckClosed, PublishReturns
  <2>4. OneCloser'
    BY <1>0, <1>10 DEF OneCloser, CheckClosed, PublishReturns
  <2>5. Registered'
    BY <1>0, <1>10 DEF Registered, CheckClosed, PublishReturns
  <2>6. CloseProgress'
    BY <1>0, <1>10 DEF CloseProgress, CheckClosed, PublishReturns
  <2>7. PublishProgress'
    BY <1>0, <1>10 DEF PublishProgress, CheckClosed, PublishReturns, TypeOK
  <2> QED BY <2>1, <2>2, <2>3, <2>4, <2>5, <2>6, <2>7 DEF IInv
<1>11. ASSUME NEW p \in Publishers, ReturnNil(p) PROVE IInv'
  <2>1. TypeOK'
    BY <1>0, <1>11 DEF TypeOK, ReturnNil, PublishReturns
  <2>2. SendersCounted'
    BY <1>0, <1>11 DEF SendersCounted, ReturnNil, PublishReturns
  <2>3. ClosedChannels'
    BY <1>0, <1>11 DEF ClosedChannels, ReturnNil, PublishReturns
  <2>4. OneCloser'
    BY <1>0, <1>11 DEF OneCloser, ReturnNil, PublishReturns
  <2>5. Registered'
    BY <1>0, <1>11 DEF Registered, ReturnNil, PublishReturns
  <2>6. CloseProgress'
    BY <1>0, <1>11 DEF CloseProgress, ReturnNil, PublishReturns
  <2>7. PublishProgress'
    BY <1>0, <1>11 DEF PublishProgress, ReturnNil, PublishReturns, TypeOK
  <2> QED BY <2>1, <2>2, <2>3, <2>4, <2>5, <2>6, <2>7 DEF IInv
<1>12. ASSUME NEW k \in Closers, CloseStart(k) PROVE IInv'
  <2>1. TypeOK'
    BY <1>0, <1>12 DEF TypeOK, CloseStart
  <2>2. SendersCounted'
    BY <1>0, <1>12 DEF SendersCounted, CloseStart
  <2>3. ClosedChannels'
    BY <1>0, <1>12 DEF ClosedChannels, CloseStart
  <2>4. OneCloser'
    BY <1>0, <1>12 DEF OneCloser, CloseStart
  <2>5. Registered'
    BY <1>0, <1>12 DEF Registered, CloseStart, TypeOK
  <2>6. CloseProgress'
    BY <1>0, <1>12 DEF CloseProgress, CloseStart, MuFree
  <2>7. PublishProgress'
    BY <1>0, <1>12 DEF PublishProgress, CloseStart
  <2> QED BY <2>1, <2>2, <2>3, <2>4, <2>5, <2>6, <2>7 DEF IInv
<1>13. ASSUME NEW k \in Closers, NEW s \in Subs, CloseMark(k, s) PROVE IInv'
  <2>1. TypeOK'
    <3>1. ktodo' \in [Closers -> SUBSET Subs]
      BY <1>0, <1>13 DEF TypeOK, CloseMark
    <3>2. /\ sclosed' \in [Subs -> BOOLEAN]
          /\ kpc' \in [Closers -> {"idle", "loop", "wait", "done"}]
          /\ ktarget' \in [Closers -> Subs \union {NoSub}]
      <4>1. CASE sclosed[s]
        BY <1>0, <1>13, <4>1 DEF TypeOK, CloseMark
      <4>2. CASE ~sclosed[s]
        <5>1. /\ sclosed' = [sclosed EXCEPT ![s] = TRUE]
              /\ kpc' = [kpc EXCEPT ![k] = "wait"]
              /\ ktarget' = [ktarget EXCEPT ![k] = s]
          BY <1>13, <4>2 DEF CloseMark, Mark
        <5> QED BY <1>0, <5>1 DEF TypeOK
      <4> QED BY <4>1, <4>2
    <3>3. UNCHANGED <<buffer, mu, closed, subscribers, senders, chanVars, upc,
                      pubVars>>
      BY <1>13 DEF CloseMark
    <3> QED BY <1>0, <3>1, <3>2, <3>3 DEF TypeOK
  <2>2. SendersCounted'
    BY <1>0, <1>13 DEF SendersCounted, CloseMark, Mark
  <2>3. ClosedChannels'
    BY <1>0, <1>13 DEF ClosedChannels, CloseMark, Mark, TypeOK
  <2>4. OneCloser'
    <3>1. CASE sclosed[s]
      <4>1. UNCHANGED <<mu, sclosed, chClosed, upc, kpc, ktarget>>
        BY <1>13, <3>1 DEF CloseMark
      <4> QED BY <1>0, <4>1 DEF OneCloser
    <3>2. CASE ~sclosed[s]
      <4>1. /\ sclosed' = [sclosed EXCEPT ![s] = TRUE]
            /\ ktarget' = [ktarget EXCEPT ![k] = s]
            /\ kpc' = [kpc EXCEPT ![k] = "wait"]
            /\ kpc[k] = "loop"
            /\ UNCHANGED <<mu, chClosed, upc>>
        BY <1>13, <3>2 DEF CloseMark, Mark
      <4>2. ~chClosed[s] /\ upc[s] # "wait"
        BY <1>0, <3>2 DEF ClosedChannels, OneCloser
      <4>3. \A t \in Subs :
                upc'[t] = "wait" => sclosed'[t] /\ ~chClosed'[t] /\ mu' = t
        BY <1>0, <4>1 DEF OneCloser, TypeOK
      <4>4. ASSUME NEW l \in Closers, kpc'[l] = "wait"
            PROVE  /\ ktarget'[l] \in Subs
                   /\ sclosed'[ktarget'[l]]
                   /\ ~chClosed'[ktarget'[l]]
                   /\ upc'[ktarget'[l]] # "wait"
        BY <1>0, <4>1, <4>2, <4>4 DEF OneCloser, TypeOK
      <4>5. ASSUME NEW t \in Subs, sclosed'[t], ~chClosed'[t]
            PROVE  \/ upc'[t] = "wait"
                   \/ \E l \in Closers : kpc'[l] = "wait" /\ ktarget'[l] = t
        <5>1. CASE t = s
          BY <1>0, <4>1, <5>1 DEF TypeOK
        <5>2. CASE t # s
          BY <1>0, <4>1, <4>5, <5>2 DEF OneCloser, TypeOK
        <5> QED BY <5>1, <5>2
      <4> QED BY <4>3, <4>4, <4>5 DEF OneCloser
    <3> QED BY <3>1, <3>2
  <2>5. Registered'
    BY <1>0, <1>13 DEF Registered, CloseMark, Mark, TypeOK
  <2>6. CloseProgress'
    BY <1>0, <1>13 DEF CloseProgress, CloseMark, Mark, TypeOK
  <2>7. PublishProgress'
    <3>1. CASE sclosed[s]
      BY <1>0, <1>13, <3>1
         DEF PublishProgress, CloseMark, Mark, TypeOK, SendersCounted
    <3>2. CASE ~sclosed[s]
      BY <1>0, <1>13, <3>2
         DEF PublishProgress, CloseMark, Mark, TypeOK, SendersCounted
    <3> QED BY <3>1, <3>2
  <2> QED BY <2>1, <2>2, <2>3, <2>4, <2>5, <2>6, <2>7 DEF IInv
<1>14. ASSUME NEW k \in Closers, CloseFinish(k) PROVE IInv'
  <2>1. TypeOK'
    BY <1>0, <1>14 DEF TypeOK, CloseFinish, CloseChannel
  <2>2. SendersCounted'
    BY <1>0, <1>14 DEF SendersCounted, CloseFinish, CloseChannel
  <2>3. ClosedChannels'
    BY <1>0, <1>14
       DEF ClosedChannels, CloseFinish, CloseChannel, TypeOK, OneCloser
  <2>4. OneCloser'
    BY <1>0, <1>14
       DEF OneCloser, CloseFinish, CloseChannel, TypeOK, CloseProgress
  <2>5. Registered'
    BY <1>0, <1>14 DEF Registered, CloseFinish, CloseChannel
  <2>6. CloseProgress'
    BY <1>0, <1>14 DEF CloseProgress, CloseFinish, CloseChannel
  <2>7. PublishProgress'
    BY <1>0, <1>14 DEF PublishProgress, CloseFinish, CloseChannel
  <2> QED BY <2>1, <2>2, <2>3, <2>4, <2>5, <2>6, <2>7 DEF IInv
<1>15. ASSUME NEW k \in Closers, CloseReturn(k) PROVE IInv'
  <2>1. TypeOK'
    BY <1>0, <1>15 DEF TypeOK, CloseReturn
  <2>2. SendersCounted'
    BY <1>0, <1>15 DEF SendersCounted, CloseReturn
  <2>3. ClosedChannels'
    BY <1>0, <1>15 DEF ClosedChannels, CloseReturn
  <2>4. OneCloser'
    BY <1>0, <1>15 DEF OneCloser, CloseReturn
  <2>5. Registered'
    BY <1>0, <1>15 DEF Registered, CloseReturn
  <2>6. CloseProgress'
    BY <1>0, <1>15 DEF CloseProgress, CloseReturn
  <2>7. PublishProgress'
    BY <1>0, <1>15 DEF PublishProgress, CloseReturn
  <2> QED BY <2>1, <2>2, <2>3, <2>4, <2>5, <2>6, <2>7 DEF IInv
<1>16. ASSUME UNCHANGED vars PROVE IInv'
  BY <1>0, <1>16 DEF vars, IInv, TypeOK, SendersCounted, ClosedChannels,
     OneCloser, Registered, CloseProgress, PublishProgress
<1> QED BY <1>1, <1>2, <1>3, <1>4, <1>5, <1>6, <1>7, <1>8, <1>9, <1>10, <1>11,
           <1>12, <1>13, <1>14, <1>15, <1>16 DEF Next, PublisherStep, CloserStep

(* The invariant holds of every reachable state. *)
THEOREM Invariance == Spec => []IInv
<1> QED BY InitIInv, NextIInv, PTL DEF Spec

(* Types and channel capacities, for every buffer size. *)
THEOREM TypeCorrect == Spec => []TypeOK
<1>1. IInv => TypeOK
  BY DEF IInv
<1> QED BY <1>1, Invariance, PTL

(* Publish never panics: no send on a closed channel. *)
THEOREM PublishNeverPanics == Spec => []NoSendOnClosedChannel
<1>1. IInv => NoSendOnClosedChannel
  <2> SUFFICES ASSUME IInv, NEW p \in Publishers, ppc[p] = "send"
               PROVE  ~chClosed[target[p]]
    BY DEF NoSendOnClosedChannel
  <2>1. target[p] \in Subs /\ p \in senders[target[p]]
    BY DEF IInv, SendersCounted
  <2> QED BY <2>1 DEF IInv, ClosedChannels
<1> QED BY <1>1, Invariance, PTL

(* Neither does Close nor Unsubscribe: no channel is closed twice. *)
THEOREM ChannelsClosedOnce == Spec => []ChannelClosedOnce
<1>1. IInv => ChannelClosedOnce
  <2> SUFFICES ASSUME IInv, NEW s \in Subs
               PROVE  /\ \A a, b \in Closing(s) : a = b
                      /\ Closing(s) # {} => ~chClosed[s]
    BY DEF ChannelClosedOnce
  <2>1. \A a, b \in Closing(s) : a = b
    BY DEF IInv, OneCloser, CloseProgress, Closing
  <2>2. Closing(s) # {} => ~chClosed[s]
    BY DEF IInv, OneCloser, Closing
  <2> QED BY <2>1, <2>2
<1> QED BY <1>1, Invariance, PTL

(* A Publish that gets past a subscriber has delivered to it, or the       *)
(* subscriber was closed.                                                  *)
THEOREM PublishDelivers == Spec => []PublishSkipsOnlyClosed
<1>1. IInv => PublishSkipsOnlyClosed
  BY DEF IInv, PublishProgress, PublishSkipsOnlyClosed
<1> QED BY <1>1, Invariance, PTL

(* After the closing Close call has returned, every channel is closed. *)
THEOREM CloseIsComplete == Spec => []CloseLeavesNoOpenChannel
<1>1. IInv => CloseLeavesNoOpenChannel
  <2> SUFFICES ASSUME IInv, NEW k \in Closers, kpc[k] = "done",
                      NEW s \in Subs, upc[s] # "new"
               PROVE  chClosed[s]
    BY DEF CloseLeavesNoOpenChannel
  <2>1. /\ subscribers = {} /\ mu = NoSub
        /\ \A l \in Closers : kpc[l] \in {"idle", "done"}
    BY DEF IInv, CloseProgress, TypeOK
  <2>2. sclosed[s]
    BY <2>1 DEF IInv, Registered
  <2>3. upc[s] # "wait"
    BY <2>1, PubSubAssumption DEF IInv, OneCloser
  <2> QED BY <2>1, <2>2, <2>3 DEF IInv, OneCloser
<1> QED BY <1>1, Invariance, PTL

-----------------------------------------------------------------------------
(* Why Close and Unsubscribe come to an end.  Both wait for the WaitGroup  *)
(* of a subscriber they have marked closed, the latter holding Broker.mu.  *)

(* Nobody joins the WaitGroup of a subscriber marked closed. *)
SendersOnlyLeave ==
    [][\A s \in Subs : sclosed[s] => sclosed'[s] /\ senders'[s] \subseteq senders[s]]_vars

(* Those in a WaitGroup somebody waits for are in a select that can take   *)
(* the branch of the closed done channel: no mutex, no receiver.           *)
SendersCanLeave ==
    \A s \in Subs : Closing(s) # {} =>
        \A p \in senders[s] : ppc[p] = "send" /\ sclosed[target[p]]

(* What Close and Unsubscribe wait for only shrinks, and each of its       *)
(* members can leave it, whatever the subscribers and the mutex do.        *)
THEOREM WaitGroupsDrain == Spec => SendersOnlyLeave /\ []SendersCanLeave
<1>1. IInv => SendersCanLeave
  <2> SUFFICES ASSUME IInv, NEW s \in Subs, Closing(s) # {}, NEW p \in senders[s]
               PROVE  ppc[p] = "send" /\ sclosed[target[p]]
    BY DEF SendersCanLeave
  <2>1. sclosed[s]
    BY DEF IInv, OneCloser, Closing
  <2>2. p \in Publishers
    BY DEF IInv, TypeOK
  <2>3. ppc[p] = "send" /\ target[p] = s
    BY <2>2 DEF IInv, SendersCounted
  <2> QED BY <2>1, <2>3
<1>2. ASSUME IInv, [Next]_vars
      PROVE  [\A s \in Subs : sclosed[s] => sclosed'[s] /\ senders'[s] \subseteq senders[s]]_vars
  <2> SUFFICES ASSUME Next, NEW s \in Subs, sclosed[s]
               PROVE  sclosed'[s] /\ senders'[s] \subseteq senders[s]
    BY <1>2
  <2>0. TypeOK
    BY <1>2 DEF IInv
  <2>1. ASSUME NEW u \in Subs, UnsubscribeStart(u)
        PROVE  sclosed'[s] /\ senders'[s] \subseteq senders[s]
    BY <2>0, <2>1 DEF TypeOK, UnsubscribeStart, Mark
  <2>2. ASSUME NEW p \in Publishers, NEW u \in Subs, BeginSend(p, u)
        PROVE  sclosed'[s] /\ senders'[s] \subseteq senders[s]
    BY <2>0, <2>2 DEF TypeOK, BeginSend
  <2>3. ASSUME NEW p \in Publishers,
               SendBuffered(p) \/ SendHandOff(p) \/ SendAborted(p)
        PROVE  sclosed'[s] /\ senders'[s] \subseteq senders[s]
    BY <2>0, <2>3 DEF TypeOK, SendBuffered, SendHandOff, SendAborted, EndSend
  <2>4. ASSUME NEW k \in Closers, NEW u \in Subs, CloseMark(k, u)
        PROVE  sclosed'[s] /\ senders'[s] \subseteq senders[s]
    BY <2>0, <2>4 DEF TypeOK, CloseMark, Mark
  <2>5. ASSUME UNCHANGED <<sclosed, senders>>
        PROVE  sclosed'[s] /\ senders'[s] \subseteq senders[s]
    BY <2>5
  <2> QED
    BY <2>1, <2>2, <2>3, <2>4, <2>5
    DEF Next, PublisherStep, CloserStep, Subscribe, Receive, UnsubscribeFinish,
        Publish, CheckClosed, ReturnNil, CloseStart, CloseFinish, CloseReturn
<1> QED BY <1>1, <1>2, Invariance, PTL DEF SendersOnlyLeave, Spec
=============================================================================
