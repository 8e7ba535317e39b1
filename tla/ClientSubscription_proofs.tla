--------------------- MODULE ClientSubscription_proofs ---------------------
(* Proofs about ClientSubscription, for every length of the stream, every   *)
(* limit of the buffer, every capacity of the channel and every set of      *)
(* owners.                                                                  *)
EXTENDS ClientSubscription, SequenceTheorems, TLAPS

-----------------------------------------------------------------------------
(* Sequences.                                                               *)

(* Moving the head of the second sequence to the end of the first does not  *)
(* change their concatenation.                                              *)
LEMMA MoveHead ==
  ASSUME NEW S, NEW s \in Seq(S), NEW t \in Seq(S), t # <<>>
  PROVE  /\ Append(s, Head(t)) \in Seq(S)
         /\ Tail(t) \in Seq(S)
         /\ Append(s, Head(t)) \o Tail(t) = s \o t
<1>1. Head(t) \in S /\ Tail(t) \in Seq(S)
  BY HeadTailProperties
<1>2. Append(s, Head(t)) = s \o <<Head(t)>> /\ Append(s, Head(t)) \in Seq(S)
  BY <1>1, AppendIsConcat, AppendProperties
<1>3. <<Head(t)>> \in Seq(S)
  BY <1>1
<1>4. <<Head(t)>> \o Tail(t) = t
  BY <1>1, <1>3
<1>5. (s \o <<Head(t)>>) \o Tail(t) = s \o (<<Head(t)>> \o Tail(t))
  BY <1>1, <1>3, ConcatAssociative
<1> QED
  BY <1>1, <1>2, <1>4, <1>5

(* Appending to the second sequence appends to the concatenation.           *)
LEMMA AppendConcat ==
  ASSUME NEW S, NEW s \in Seq(S), NEW t \in Seq(S), NEW e \in S
  PROVE  /\ Append(t, e) \in Seq(S)
         /\ s \o Append(t, e) = Append(s \o t, e)
<1>1. Append(t, e) = t \o <<e>> /\ Append(t, e) \in Seq(S)
  BY AppendIsConcat, AppendProperties
<1>2. <<e>> \in Seq(S) /\ s \o t \in Seq(S)
  BY ConcatProperties
<1>3. Append(s \o t, e) = (s \o t) \o <<e>>
  BY <1>2, AppendIsConcat
<1>4. (s \o t) \o <<e>> = s \o (t \o <<e>>)
  BY <1>2, ConcatAssociative
<1> QED
  BY <1>1, <1>3, <1>4

(* The first sequence is a prefix of the concatenation.                     *)
LEMMA PrefixConcat ==
  ASSUME NEW S, NEW s \in Seq(S), NEW t \in Seq(S)
  PROVE  /\ Len(s) \in 0 .. Len(s \o t)
         /\ s = SubSeq(s \o t, 1, Len(s))
<1>1. /\ s \o t \in Seq(S)
      /\ Len(s \o t) = Len(s) + Len(t)
      /\ \A i \in 1 .. Len(s) : (s \o t)[i] = s[i]
  BY ConcatProperties, LenProperties
<1>2. Len(s) \in Nat /\ Len(t) \in Nat
  BY LenProperties
<1>3. \A i \in 1 .. Len(s) : (s \o t)[i] \in S
  BY <1>1, ElementOfSeq
<1>4. /\ SubSeq(s \o t, 1, Len(s)) \in Seq(S)
      /\ Len(SubSeq(s \o t, 1, Len(s))) = Len(s)
      /\ \A i \in 1 .. Len(s) : SubSeq(s \o t, 1, Len(s))[i] = s[i]
  BY <1>1, <1>2, <1>3, SubSeqProperties
<1> QED
  BY <1>1, <1>2, <1>4, SeqEqual

(* The head and the tail of a concatenation whose first part is not empty.  *)
LEMMA HeadTailConcat ==
  ASSUME NEW S, NEW s \in Seq(S), NEW t \in Seq(S), s # <<>>
  PROVE  /\ s \o t # <<>>
         /\ Head(s \o t) = Head(s)
         /\ Tail(s \o t) = Tail(s) \o t
<1>1. /\ s \o t \in Seq(S)
      /\ Len(s \o t) = Len(s) + Len(t)
      /\ \A i \in 1 .. Len(s) + Len(t) :
           (s \o t)[i] = IF i <= Len(s) THEN s[i] ELSE t[i - Len(s)]
  BY ConcatProperties
<1>2. Len(s) \in Nat \ {0} /\ Len(t) \in Nat
  BY EmptySeq, LenProperties
<1>3. s \o t # <<>>
  BY <1>1, <1>2, EmptySeq
<1>4. Head(s \o t) = Head(s)
  BY <1>1, <1>2, <1>3
<1>5. /\ Tail(s) \in Seq(S)
      /\ Len(Tail(s)) = Len(s) - 1
      /\ \A i \in 1 .. Len(s) - 1 : Tail(s)[i] = s[i + 1]
  BY HeadTailProperties
<1>6. /\ Tail(s \o t) \in Seq(S)
      /\ Len(Tail(s \o t)) = Len(s) + Len(t) - 1
      /\ \A i \in 1 .. Len(s) + Len(t) - 1 : Tail(s \o t)[i] = (s \o t)[i + 1]
  BY <1>1, <1>3, HeadTailProperties
<1>7. /\ Tail(s) \o t \in Seq(S)
      /\ Len(Tail(s) \o t) = Len(s) + Len(t) - 1
      /\ \A i \in 1 .. Len(s) + Len(t) - 1 :
           (Tail(s) \o t)[i] = IF i <= Len(s) - 1 THEN Tail(s)[i]
                               ELSE t[i - (Len(s) - 1)]
  BY <1>2, <1>5, ConcatProperties
<1>8. \A i \in 1 .. Len(s) + Len(t) - 1 :
        Tail(s \o t)[i] = (Tail(s) \o t)[i]
  BY <1>1, <1>2, <1>5, <1>6, <1>7
<1>9. Tail(s \o t) = Tail(s) \o t
  BY <1>6, <1>7, <1>8, SeqEqual
<1> QED
  BY <1>3, <1>4, <1>9

-----------------------------------------------------------------------------
(* Types.                                                                   *)

USE DEF dispVars, queueVars, endVars, EnterOnce, ForwardFails

(* TypeOK is inductive together with this: deliver has a notification.      *)
DeliverInv == dp = "deliver" => n < Length

(* A step keeps the types.                                                  *)
LEMMA TypeStep ==
  ASSUME TypeOK, DeliverInv, [Next]_vars
  PROVE  TypeOK' /\ DeliverInv'
<1> USE SubscriptionAssumption
<1> DEFINE S == 1 .. Length
<1>0. buffer \in Seq(S) /\ channel \in Seq(S) /\ received \in Seq(S)
  BY DEF TypeOK
<1>1. CASE Notification
  BY <1>1 DEF TypeOK, DeliverInv, Notification
<1>2. CASE ForwardIn
  <2>1. n + 1 \in S /\ n' \in 0 .. Length /\ dp' = "loop"
    BY <1>2 DEF TypeOK, DeliverInv, ForwardIn
  <2>2. buffer' \in Seq(S) /\ Len(buffer') <= MaxBuffer
    <3>1. CASE buffer' = <<>>
      BY <3>1
    <3>2. CASE ~Overflows /\ buffer' = Append(buffer, n + 1)
      <4>1. Len(buffer) \in Nat /\ Len(buffer) < MaxBuffer
        BY <3>2, <1>0, LenProperties DEF TypeOK, Overflows
      <4> QED
        BY <4>1, <3>2, <2>1, <1>0, AppendProperties
    <3> QED
      BY <1>2, <3>1, <3>2 DEF ForwardIn
  <2>3. /\ fwd' \in {"run", "fail", "unsub", "exit", "done"}
        /\ fwdErr' \in {"nil", "decode", "overflow"}
        /\ UNCHANGED <<inSubs, cap, channel, received, endVars>>
    BY <1>2 DEF TypeOK, ForwardIn
  <2> QED
    BY <2>1, <2>2, <2>3 DEF TypeOK, DeliverInv
<1>3. CASE DeliverQuit
  BY <1>3 DEF TypeOK, DeliverInv, DeliverQuit
<1>4. CASE ForwardSend
  <2>1. /\ Append(channel, Head(buffer)) \in Seq(S)
        /\ Len(Append(channel, Head(buffer))) = Len(channel) + 1
        /\ Tail(buffer) \in Seq(S)
        /\ Len(Tail(buffer)) = Len(buffer) - 1
    BY <1>4, <1>0, HeadTailProperties, AppendProperties DEF ForwardSend
  <2>2. Len(channel) \in Nat /\ Len(buffer) \in Nat /\ cap \in Nat
    BY <1>0, LenProperties DEF TypeOK
  <2> QED
    BY <1>4, <2>1, <2>2 DEF TypeOK, DeliverInv, ForwardSend
<1>5. CASE HandOver
  <2>1. /\ Append(received, Head(buffer)) \in Seq(S)
        /\ Tail(buffer) \in Seq(S)
        /\ Len(Tail(buffer)) = Len(buffer) - 1
    BY <1>5, <1>0, HeadTailProperties, AppendProperties DEF HandOver
  <2>2. Len(buffer) \in Nat
    BY <1>0, LenProperties
  <2> QED
    BY <1>5, <2>1, <2>2 DEF TypeOK, DeliverInv, HandOver
<1>6. CASE Receive
  <2>1. /\ Append(received, Head(channel)) \in Seq(S)
        /\ Tail(channel) \in Seq(S)
        /\ Len(Tail(channel)) = Len(channel) - 1
    BY <1>6, <1>0, HeadTailProperties, AppendProperties DEF Receive
  <2>2. Len(channel) \in Nat /\ cap \in Nat
    BY <1>0, LenProperties DEF TypeOK
  <2> QED
    BY <1>6, <2>1, <2>2 DEF TypeOK, DeliverInv, Receive
<1>7. CASE ForwardQuit
  BY <1>7 DEF TypeOK, DeliverInv, ForwardQuit
<1>8. CASE FwdFailed
  BY <1>8 DEF TypeOK, DeliverInv, FwdFailed
<1>9. CASE FwdReport
  BY <1>9 DEF TypeOK, DeliverInv, FwdReport
<1>10. CASE FwdExit
  BY <1>10 DEF TypeOK, DeliverInv, FwdExit
<1>11. CASE ReadFailed
  <2>1. call' \in {"none", "send", "wait", "done"}
    BY <1>11 DEF TypeOK, ReadFailed, CloseRequestOps
  <2> QED
    BY <1>11, <2>1 DEF TypeOK, DeliverInv, ReadFailed
<1>12. CASE AcceptClose
  <2>1. call' \in {"none", "send", "wait", "done"}
    BY <1>12 DEF TypeOK, AcceptClose, CloseRequestOps
  <2>2. dp' \in {"closing", "quit"}
    BY <1>12 DEF AcceptClose
  <2>3. /\ inSubs' = FALSE
        /\ UNCHANGED <<n, fwd, fwdErr, buffer, cap, channel, received, once, quit, serr,
                       serrClosed, usr>>
    BY <1>12 DEF AcceptClose, queueVars
  <2> QED
    BY <2>1, <2>2, <2>3 DEF TypeOK, DeliverInv
<1>13. CASE QuitSub
  <2>1. CASE once = "free"
    BY <1>13, <2>1 DEF TypeOK, DeliverInv, QuitSub, QuitErr
  <2>2. CASE once = "done"
    BY <1>13, <2>2 DEF TypeOK, DeliverInv, QuitSub
  <2> QED
    BY <1>13, <2>1, <2>2 DEF QuitSub
<1>14. CASE CallAccepted
  BY <1>14 DEF TypeOK, DeliverInv, CallAccepted
<1>15. CASE CallReturns
  BY <1>15 DEF TypeOK, DeliverInv, CallReturns
<1>16. ASSUME NEW u \in Owners, Unsubscribe(u) PROVE TypeOK' /\ DeliverInv'
  BY <1>16 DEF TypeOK, DeliverInv, Unsubscribe
<1>17. ASSUME NEW u \in Owners, UnsubscribeRequest(u)
       PROVE  TypeOK' /\ DeliverInv'
  BY <1>17 DEF TypeOK, DeliverInv, UnsubscribeRequest
<1>18. ASSUME NEW u \in Owners, UnsubscribeReturned(u)
       PROVE  TypeOK' /\ DeliverInv'
  BY <1>18 DEF TypeOK, DeliverInv, UnsubscribeReturned
<1>19. ASSUME NEW u \in Owners, UnsubscribeSkip(u)
       PROVE  TypeOK' /\ DeliverInv'
  BY <1>19 DEF TypeOK, DeliverInv, UnsubscribeSkip
<1>20. ASSUME NEW u \in Owners, UnsubscribeClose(u)
       PROVE  TypeOK' /\ DeliverInv'
  BY <1>20 DEF TypeOK, DeliverInv, UnsubscribeClose
<1>21. CASE UNCHANGED vars
  BY <1>21 DEF TypeOK, DeliverInv, vars
<1> QED
  BY <1>1, <1>2, <1>3, <1>4, <1>5, <1>6, <1>7, <1>8, <1>9, <1>10, <1>11,
     <1>12, <1>13, <1>14, <1>15, <1>16, <1>17, <1>18, <1>19, <1>20, <1>21
     DEF Next, Dispatch, Forward, Consume, OwnerStep

(* Every state of the subscription has its type; the list of forward keeps  *)
(* to maxClientSubscriptionBuffer and the channel to its capacity.          *)
THEOREM TypeCorrect == Spec => [](TypeOK /\ DeliverInv)
<1>1. Init => TypeOK /\ DeliverInv
  <2> SUFFICES ASSUME Init PROVE TypeOK /\ DeliverInv
    OBVIOUS
  <2>1. <<>> \in Seq(1 .. Length) /\ Len(<<>>) = 0
    BY EmptySeq
  <2>2. cap \in Nat /\ MaxBuffer \in Nat
    BY SubscriptionAssumption DEF Init
  <2>3. /\ n \in 0 .. Length
        /\ dp \in {"loop", "deliver", "readErr", "closing", "quit"}
        /\ inSubs \in BOOLEAN
        /\ fwd \in {"run", "fail", "unsub", "exit", "done"}
        /\ fwdErr \in {"nil", "decode", "overflow"}
        /\ DeliverInv
    BY SubscriptionAssumption DEF Init, DeliverInv
  <2>4. /\ buffer \in Seq(1 .. Length) /\ Len(buffer) <= MaxBuffer
        /\ cap \in Capacities
        /\ channel \in Seq(1 .. Length) /\ Len(channel) <= cap
        /\ received \in Seq(1 .. Length)
    BY <2>1, <2>2 DEF Init
  <2> QED
    BY <2>3, <2>4 DEF Init, TypeOK
<1>2. TypeOK /\ DeliverInv /\ [Next]_vars => (TypeOK /\ DeliverInv)'
  BY TypeStep
<1> QED
  BY <1>1, <1>2, PTL DEF Spec

-----------------------------------------------------------------------------
(* The subscription implements the notification stream.                     *)

(* What is not a step of the queue is a stutter of the stream, or its end.  *)
LEMMA StreamKept ==
  ASSUME TypeOK, UNCHANGED <<n, buffer, channel, received>>,
         Ended' = Ended \/ Ended'
  PROVE  [Stream!Next]_(Stream!vars)
<1>1. channel \o buffer \in Seq(1 .. Length)
  BY ConcatProperties DEF TypeOK
<1>2. CASE Ended' = Ended
  BY <1>2 DEF Stream!vars
<1>3. CASE Ended'
  <2>1. Len(channel \o buffer) \in 0 .. Len(channel \o buffer)
    BY <1>1, LenProperties
  <2>2. channel \o buffer = SubSeq(channel \o buffer, 1, Len(channel \o buffer))
    BY <1>1, SubSeqFull
  <2>3. Ended' = TRUE
    BY <1>3 DEF Ended
  <2>4. \E k \in 0 .. Len(channel \o buffer) :
          channel' \o buffer' = SubSeq(channel \o buffer, 1, k)
    BY <2>1, <2>2
  <2>5. Stream!End
    BY <2>3, <2>4 DEF Stream!End
  <2> QED
    BY <2>5 DEF Stream!Next
<1> QED
  BY <1>2, <1>3

(* Every step of the subscription is a step of the stream or a stutter.     *)
LEMMA StreamStep ==
  ASSUME TypeOK, DeliverInv, [Next]_vars
  PROVE  [Stream!Next]_(Stream!vars)
<1> DEFINE S == 1 .. Length
<1> USE DEF Ended
<1>0. /\ buffer \in Seq(S) /\ channel \in Seq(S) /\ received \in Seq(S)
      /\ channel \o buffer \in Seq(S)
  BY ConcatProperties DEF TypeOK
<1>1. CASE ForwardIn
  <2>1. n + 1 \in S
    BY <1>1, SubscriptionAssumption DEF TypeOK, DeliverInv, ForwardIn
  <2>2. CASE fwd' = "fail" /\ buffer' = <<>>
    <3>1. channel' \o buffer' = channel
      BY <1>0, <1>1, <2>2, ConcatEmptySeq DEF ForwardIn
    <3>2. \E k \in 0 .. Len(channel \o buffer) :
            channel' \o buffer' = SubSeq(channel \o buffer, 1, k)
      BY <1>0, <3>1, PrefixConcat
    <3>3. Ended' = TRUE
      BY <2>2
    <3> QED
      BY <1>1, <3>2, <3>3 DEF ForwardIn, Stream!Next, Stream!End
  <2>3. CASE UNCHANGED fwd /\ buffer' = Append(buffer, n + 1)
    <3>1. channel' \o buffer' = Append(channel \o buffer, n + 1)
      BY <1>0, <1>1, <2>1, <2>3, AppendConcat DEF ForwardIn
    <3> QED
      BY <1>1, <2>3, <3>1 DEF ForwardIn, Stream!Next, Stream!Push
  <2> QED
    BY <1>1, <2>2, <2>3 DEF ForwardIn
<1>2. CASE DeliverQuit
  <2>1. Len(channel \o buffer) \in 0 .. Len(channel \o buffer)
    BY <1>0, LenProperties
  <2>2. channel \o buffer = SubSeq(channel \o buffer, 1, Len(channel \o buffer))
    BY <1>0, SubSeqFull
  <2>3. Ended' = TRUE
    BY <1>2 DEF DeliverQuit
  <2> QED
    BY <1>2, <2>1, <2>2, <2>3 DEF DeliverQuit, Stream!Next, Stream!End
<1>3. CASE ForwardSend
  <2>1. channel' \o buffer' = channel \o buffer
    BY <1>0, <1>3, MoveHead DEF ForwardSend
  <2> QED
    BY <1>3, <2>1 DEF ForwardSend, Stream!vars
<1>4. CASE HandOver
  <2>1. channel = <<>>
    BY <1>0, <1>4, EmptySeq DEF TypeOK, HandOver
  <2>2. channel \o buffer = buffer /\ channel' \o buffer' = Tail(buffer)
    BY <1>0, <1>4, <2>1, ConcatEmptySeq, HeadTailProperties DEF HandOver
  <2> QED
    BY <1>4, <2>2 DEF HandOver, Stream!Next, Stream!Pop
<1>5. CASE Receive
  <2>1. /\ channel \o buffer # <<>>
        /\ Head(channel \o buffer) = Head(channel)
        /\ channel' \o buffer' = Tail(channel \o buffer)
    BY <1>0, <1>5, HeadTailConcat DEF Receive
  <2> QED
    BY <1>5, <2>1 DEF Receive, Stream!Next, Stream!Pop
<1>6. CASE ForwardQuit
  <2>1. channel' \o buffer' = channel
    BY <1>0, <1>6, ConcatEmptySeq DEF ForwardQuit
  <2>2. \E k \in 0 .. Len(channel \o buffer) :
          channel' \o buffer' = SubSeq(channel \o buffer, 1, k)
    BY <1>0, <2>1, PrefixConcat
  <2>3. Ended' = TRUE
    BY <1>6 DEF ForwardQuit
  <2> QED
    BY <1>6, <2>2, <2>3 DEF ForwardQuit, Stream!Next, Stream!End
<1>7. CASE FwdFailed
  BY <1>7, StreamKept DEF FwdFailed
<1>8. CASE FwdReport
  BY <1>8, StreamKept DEF FwdReport
<1>9. CASE FwdExit
  BY <1>9, StreamKept DEF FwdExit
<1>10. CASE QuitSub
  BY <1>10, StreamKept DEF QuitSub
<1>11. CASE \/ Notification \/ ReadFailed \/ AcceptClose \/ CallReturns
            \/ CallAccepted \/ UNCHANGED vars
  BY <1>11, StreamKept DEF Notification, ReadFailed, AcceptClose, CallReturns,
     CallAccepted, vars
<1>12. ASSUME NEW u \in Owners, Unsubscribe(u) \/ OwnerStep(u)
       PROVE  [Stream!Next]_(Stream!vars)
  BY <1>12, StreamKept DEF Unsubscribe, OwnerStep, UnsubscribeRequest,
     UnsubscribeReturned, UnsubscribeSkip, UnsubscribeClose
<1> QED
  BY <1>1, <1>2, <1>3, <1>4, <1>5, <1>6, <1>7, <1>8, <1>9, <1>10, <1>11,
     <1>12 DEF Next, Dispatch, Forward, Consume

(* The subscription, with its buffer and the subscriber's channel, is a     *)
(* notification stream: forward's select, deliver, Unsubscribe and the end  *)
(* of the connection never reorder, repeat or drop a notification in a way  *)
(* the stream does not allow.                                               *)
THEOREM StreamCorrect == Spec => StreamSpec
<1>1. Init => Stream!Init
  <2> SUFFICES ASSUME Init PROVE Stream!Init
    OBVIOUS
  <2>1. channel \o buffer = <<>>
    BY EmptySeq, ConcatEmptySeq DEF Init
  <2> QED
    BY <2>1 DEF Init, Ended, Stream!Init
<1>2. TypeOK /\ DeliverInv /\ [Next]_vars => [Stream!Next]_(Stream!vars)
  BY StreamStep
<1> QED
  BY <1>1, <1>2, TypeCorrect, PTL DEF Spec, StreamSpec, Stream!Spec

-----------------------------------------------------------------------------
(* Order and gaps.                                                          *)

(* s holds increasing numbers, none above m, and at most m of them.         *)
Ordered(s, m) ==
  /\ Len(s) <= m
  /\ \A i \in 1 .. Len(s) : s[i] <= m
  /\ \A i, j \in 1 .. Len(s) : i < j => s[i] < s[j]

(* s is <<1, ..., m>>.                                                      *)
Counts(s, m) == Len(s) = m /\ \A i \in 1 .. m : s[i] = i

(* Appending the next number keeps the order and the count.                 *)
LEMMA OrderedAppend ==
  ASSUME NEW s \in Seq(Nat), NEW m \in Nat
  PROVE  /\ Ordered(s, m) => Ordered(Append(s, m + 1), m + 1)
         /\ Counts(s, m) => Counts(Append(s, m + 1), m + 1)
<1>1. /\ Len(Append(s, m + 1)) = Len(s) + 1
      /\ \A i \in 1 .. Len(s) : Append(s, m + 1)[i] = s[i]
      /\ Append(s, m + 1)[Len(s) + 1] = m + 1
  BY AppendProperties
<1>2. Len(s) \in Nat /\ \A i \in 1 .. Len(s) : s[i] \in Nat
  BY LenProperties, ElementOfSeq
<1> DEFINE t == Append(s, m + 1)
<1>3. \A i \in 1 .. Len(s) + 1 : t[i] = IF i = Len(s) + 1 THEN m + 1 ELSE s[i]
  BY <1>1, <1>2
<1> HIDE DEF t
<1>4. Len(t) = Len(s) + 1
  BY <1>1 DEF t
<1>5. ASSUME Ordered(s, m) PROVE Ordered(t, m + 1)
  <2>1. Len(t) <= m + 1
    BY <1>2, <1>4, <1>5 DEF Ordered
  <2>2. ASSUME NEW i \in 1 .. Len(t) PROVE t[i] <= m + 1
    <3>1. i = Len(s) + 1 \/ i \in 1 .. Len(s)
      BY <1>2, <1>4
    <3>2. i \in 1 .. Len(s) => s[i] <= m /\ s[i] \in Nat
      BY <1>2, <1>5 DEF Ordered
    <3> QED
      BY <1>2, <1>3, <1>4, <3>1, <3>2
  <2>3. ASSUME NEW i \in 1 .. Len(t), NEW j \in 1 .. Len(t), i < j
        PROVE  t[i] < t[j]
    <3>1. i \in 1 .. Len(s) /\ t[i] = s[i] /\ s[i] \in Nat /\ s[i] <= m
      BY <1>2, <1>3, <1>4, <1>5, <2>3 DEF Ordered
    <3>2. CASE j = Len(s) + 1
      BY <1>2, <1>3, <3>1, <3>2
    <3>3. CASE j \in 1 .. Len(s)
      <4>1. s[i] < s[j]
        BY <1>5, <2>3, <3>1, <3>3 DEF Ordered
      <4>2. t[j] = s[j]
        BY <1>2, <1>3, <3>3
      <4> QED
        BY <3>1, <4>1, <4>2
    <3> QED
      BY <1>2, <1>4, <3>2, <3>3
  <2> QED
    BY <2>1, <2>2, <2>3 DEF Ordered
<1>6. Counts(s, m) => Counts(t, m + 1)
  BY <1>2, <1>3, <1>4 DEF Counts
<1> QED
  BY <1>5, <1>6 DEF t

(* A prefix of an ordered sequence is ordered, for a greater bound too.     *)
LEMMA OrderedPrefix ==
  ASSUME NEW s \in Seq(Nat), NEW m \in Nat, NEW k \in 0 .. Len(s),
         Ordered(s, m)
  PROVE  Ordered(SubSeq(s, 1, k), m) /\ Ordered(SubSeq(s, 1, k), m + 1)
<1>1. Len(s) \in Nat /\ \A i \in 1 .. Len(s) : s[i] \in Nat
  BY LenProperties, ElementOfSeq
<1>2. /\ Len(SubSeq(s, 1, k)) = k
      /\ \A i \in 1 .. k : SubSeq(s, 1, k)[i] = s[i]
  BY <1>1, SubSeqProperties
<1> DEFINE t == SubSeq(s, 1, k)
<1> HIDE DEF t
<1>3. Len(t) = k /\ \A i \in 1 .. k : t[i] = s[i]
  BY <1>2 DEF t
<1>4. Len(t) <= m /\ Len(t) <= m + 1
  BY <1>1, <1>3 DEF Ordered
<1>5. ASSUME NEW i \in 1 .. Len(t) PROVE t[i] <= m /\ t[i] <= m + 1
  <2>1. i \in 1 .. Len(s)
    BY <1>1, <1>3
  <2>2. t[i] = s[i] /\ s[i] \in Nat /\ s[i] <= m
    BY <1>1, <1>3, <2>1 DEF Ordered
  <2> QED
    BY <2>2
<1>6. ASSUME NEW i \in 1 .. Len(t), NEW j \in 1 .. Len(t), i < j
      PROVE  t[i] < t[j]
  <2>1. i \in 1 .. Len(s) /\ j \in 1 .. Len(s)
    BY <1>1, <1>3
  <2>2. t[i] = s[i] /\ t[j] = s[j]
    BY <1>3
  <2> QED
    BY <1>6, <2>1, <2>2 DEF Ordered
<1>7. Ordered(t, m) /\ Ordered(t, m + 1)
  BY <1>4, <1>5, <1>6 DEF Ordered
<1> QED
  BY <1>7 DEF t

(* Cutting the second sequence cuts the concatenation.                      *)
LEMMA ConcatPrefix ==
  ASSUME NEW S, NEW s \in Seq(S), NEW t \in Seq(S), NEW k \in 0 .. Len(t)
  PROVE  /\ Len(s) + k \in 0 .. Len(s \o t)
         /\ s \o SubSeq(t, 1, k) = SubSeq(s \o t, 1, Len(s) + k)
<1>1. Len(s) \in Nat /\ Len(t) \in Nat /\ k \in Nat /\ k <= Len(t)
  BY LenProperties
<1>2. /\ SubSeq(t, 1, k) \in Seq(S)
      /\ Len(SubSeq(t, 1, k)) = k
      /\ \A i \in 1 .. k : SubSeq(t, 1, k)[i] = t[i]
  BY <1>1, ElementOfSeq, SubSeqProperties
<1>3. /\ s \o t \in Seq(S)
      /\ Len(s \o t) = Len(s) + Len(t)
      /\ \A i \in 1 .. Len(s) + Len(t) :
           (s \o t)[i] = IF i <= Len(s) THEN s[i] ELSE t[i - Len(s)]
  BY ConcatProperties
<1>4. \A i \in 1 .. Len(s) + k : (s \o t)[i] \in S
  BY <1>1, <1>3, ElementOfSeq
<1>5. /\ SubSeq(s \o t, 1, Len(s) + k) \in Seq(S)
      /\ Len(SubSeq(s \o t, 1, Len(s) + k)) = Len(s) + k
      /\ \A i \in 1 .. Len(s) + k : SubSeq(s \o t, 1, Len(s) + k)[i] = (s \o t)[i]
  BY <1>1, <1>4, SubSeqProperties
<1>6. /\ s \o SubSeq(t, 1, k) \in Seq(S)
      /\ Len(s \o SubSeq(t, 1, k)) = Len(s) + k
      /\ \A i \in 1 .. Len(s) + k :
           (s \o SubSeq(t, 1, k))[i]
             = IF i <= Len(s) THEN s[i] ELSE SubSeq(t, 1, k)[i - Len(s)]
  BY <1>1, <1>2, ConcatProperties
<1>7. \A i \in 1 .. Len(s) + k :
        (s \o SubSeq(t, 1, k))[i] = SubSeq(s \o t, 1, Len(s) + k)[i]
  BY <1>1, <1>2, <1>3, <1>5, <1>6
<1>8. s \o SubSeq(t, 1, k) = SubSeq(s \o t, 1, Len(s) + k)
  BY <1>5, <1>6, <1>7, SeqEqual
<1> QED
  BY <1>1, <1>3, <1>8

(* The inductive invariant of the queue.                                    *)
QueueInv == Ordered(Underway, n) /\ (~Ended => Counts(Underway, n))

(* It is kept by the steps of the stream, whatever step of the subscription *)
(* they come from.                                                          *)
LEMMA QueueStep ==
  ASSUME TypeOK, TypeOK', QueueInv, [Stream!Next]_(Stream!vars)
  PROVE  QueueInv'
<1> DEFINE q == channel \o buffer
<1>0. /\ q \in Seq(1 .. Length) /\ received \in Seq(1 .. Length)
      /\ Underway \in Seq(1 .. Length) /\ n \in Nat
      /\ Underway = received \o q
  BY ConcatProperties DEF TypeOK, Underway
<1> HIDE DEF q
<1>1. Underway \in Seq(Nat)
  <2>1. 1 .. Length \subseteq Nat
    BY SubscriptionAssumption
  <2> QED
    BY <1>0, <2>1, SeqMonotonic
<1>9. Underway' = received' \o q'
  BY DEF Underway, q
<1>2. CASE Stream!Push
  <2>1. /\ n' = n + 1 /\ q' = Append(q, n + 1)
        /\ received' = received /\ Ended' = Ended
    BY <1>2 DEF Stream!Push, q
  <2>2. n + 1 \in 1 .. Length
    BY <1>0, <2>1 DEF TypeOK
  <2>3. Underway' = Append(Underway, n + 1)
    BY <1>0, <1>9, <2>1, <2>2, AppendConcat
  <2> QED
    BY <1>0, <1>1, <2>1, <2>3, OrderedAppend DEF QueueInv
<1>3. CASE Stream!Pop
  <2>1. /\ n' = n /\ Ended' = Ended /\ q # <<>>
        /\ received' = Append(received, Head(q)) /\ q' = Tail(q)
    BY <1>3 DEF Stream!Pop, q
  <2>2. Append(received, Head(q)) \o Tail(q) = received \o q
    BY <1>0, <2>1, MoveHead
  <2>3. Underway' = Underway
    BY <1>0, <1>9, <2>1, <2>2
  <2> QED
    BY <2>1, <2>3 DEF QueueInv
<1>4. CASE Stream!End
  <2>1. PICK k \in 0 .. Len(q) : q' = SubSeq(q, 1, k)
    BY <1>4 DEF Stream!End, q
  <2>2. /\ n' \in {n, n + 1} /\ Ended' /\ received' = received
    BY <1>4 DEF Stream!End, q
  <2>3. /\ Len(received) + k \in 0 .. Len(Underway)
        /\ Underway' = SubSeq(Underway, 1, Len(received) + k)
    BY <1>0, <1>9, <2>1, <2>2, ConcatPrefix
  <2>4. Ordered(Underway', n')
    BY <1>0, <1>1, <2>2, <2>3, OrderedPrefix DEF QueueInv
  <2> QED
    BY <2>2, <2>4 DEF QueueInv
<1>5. CASE UNCHANGED Stream!vars
  <2>1. n' = n /\ q' = q /\ received' = received /\ Ended' = Ended
    BY <1>5 DEF Stream!vars, q
  <2> QED
    BY <1>0, <1>9, <2>1 DEF QueueInv
<1> QED
  BY <1>2, <1>3, <1>4, <1>5 DEF Stream!Next

(* The queue is in order always, and complete until the end.                *)
THEOREM QueueCorrect == Spec => []QueueInv
<1>1. Init => QueueInv
  <2> SUFFICES ASSUME Init PROVE QueueInv
    OBVIOUS
  <2>1. Underway = <<>>
    BY EmptySeq, ConcatEmptySeq DEF Init, Underway
  <2>2. n = 0 /\ Len(<<>>) = 0
    BY EmptySeq DEF Init
  <2> QED
    BY <2>1, <2>2 DEF QueueInv, Ordered, Counts
<1>2. TypeOK /\ DeliverInv /\ QueueInv /\ [Next]_vars => QueueInv'
  BY TypeStep, StreamStep, QueueStep
<1> QED
  BY <1>1, <1>2, TypeCorrect, PTL DEF Spec

(* Until the subscription ends no notification is lost or reordered on the  *)
(* way through deliver, forward's buffer and the channel.                   *)
THEOREM GaplessCorrect == Spec => []Gapless
<1>1. QueueInv => Gapless
  BY DEF QueueInv, Gapless, Counts
<1> QED
  BY <1>1, QueueCorrect, PTL

(* Nor is one repeated or reordered afterwards.                             *)
THEOREM InOrderCorrect == Spec => []InOrder
<1>1. QueueInv => InOrder
  BY DEF QueueInv, InOrder, Ordered
<1> QED
  BY <1>1, QueueCorrect, PTL

(* The overflow error is only for a subscriber that is more than MaxBuffer  *)
(* notifications behind.                                                    *)
THEOREM OverflowCorrect == Spec => OverflowMeansSlow
<1> DEFINE Slow == fwdErr' = "overflow" /\ fwdErr # "overflow"
                     => n' - Len(received) > MaxBuffer
<1>1. TypeOK /\ QueueInv /\ [Next]_vars => [Slow]_vars
  <2> SUFFICES ASSUME TypeOK, QueueInv, Next, fwdErr' = "overflow",
                      fwdErr # "overflow"
               PROVE  n' - Len(received) > MaxBuffer
    OBVIOUS
  <2>1. ForwardIn
    BY DEF Next, Dispatch, Forward, Consume, OwnerStep, Notification,
       ReadFailed, AcceptClose, CallReturns, CallAccepted, DeliverQuit, QuitSub,
       ForwardSend, ForwardQuit, FwdFailed, FwdReport, FwdExit, HandOver,
       Receive, Unsubscribe, UnsubscribeRequest, UnsubscribeReturned,
       UnsubscribeSkip, UnsubscribeClose
  <2>2. Len(buffer) = MaxBuffer /\ n' = n + 1
    BY <2>1 DEF ForwardIn, Overflows
  <2>3. /\ channel \o buffer \in Seq(1 .. Length)
        /\ Len(channel \o buffer) = Len(channel) + Len(buffer)
    BY ConcatProperties DEF TypeOK
  <2>4. Len(Underway) = Len(received) + Len(channel \o buffer)
    BY <2>3, ConcatProperties DEF TypeOK, Underway
  <2>5. Len(received) \in Nat /\ Len(channel) \in Nat /\ n \in Nat
    BY LenProperties DEF TypeOK
  <2>6. Len(received) + Len(channel) + MaxBuffer <= n
    BY <2>2, <2>3, <2>4, <2>5, SubscriptionAssumption DEF QueueInv, Ordered
  <2> QED
    BY <2>2, <2>5, <2>6, SubscriptionAssumption
<1> QED
  BY <1>1, TypeCorrect, QueueCorrect, PTL DEF Spec, OverflowMeansSlow

-----------------------------------------------------------------------------
(* The end.                                                                 *)

(* Who runs quitOnce, what they have done, and who was told.                *)
OnceInv ==
  /\ fwd = "unsub" => once = "busy"
  /\ fwd = "done" => once = "done"
  /\ \A u \in Owners : /\ usr[u] = "unsub" => once = "busy" /\ fwd # "unsub"
                       /\ usr[u] \in {"close", "done"} => once = "done"
  /\ \A u, v \in Owners : usr[u] = "unsub" /\ usr[v] = "unsub" => u = v
  /\ ErrChannelSafe
  /\ once = "busy" => fwd = "unsub" \/ \E u \in Owners : usr[u] # "none"
  /\ once = "done" => serr # "empty" \/ \E u \in Owners : usr[u] # "none"

(* A step keeps the accounting of quitOnce.                                 *)
LEMMA OnceStep ==
  ASSUME TypeOK, OnceInv, [Next]_vars
  PROVE  OnceInv'
<1> USE DEF OnceInv, ErrChannelSafe
<1>1. CASE ForwardIn
  BY <1>1 DEF ForwardIn
<1>2. CASE UNCHANGED <<fwd, endVars>>
  BY <1>2
<1>3. CASE ForwardQuit
  BY <1>3 DEF ForwardQuit
<1>4. CASE FwdFailed
  BY <1>4 DEF FwdFailed
<1>5. CASE FwdReport
  BY <1>5 DEF FwdReport, TypeOK
<1>6. CASE FwdExit
  BY <1>6 DEF FwdExit
<1>7. CASE QuitSub
  BY <1>7 DEF QuitSub, QuitErr
<1>8. CASE UNCHANGED <<fwd, once, quit, serr, serrClosed, usr>>
  BY <1>8
<1>9. ASSUME NEW w \in Owners, Unsubscribe(w) PROVE OnceInv'
  BY <1>9 DEF Unsubscribe, TypeOK
<1>10. ASSUME NEW w \in Owners, UnsubscribeRequest(w) PROVE OnceInv'
  BY <1>10 DEF UnsubscribeRequest, TypeOK
<1>11. ASSUME NEW w \in Owners, UnsubscribeReturned(w) PROVE OnceInv'
  BY <1>11 DEF UnsubscribeReturned, TypeOK
<1>12. ASSUME NEW w \in Owners, UnsubscribeSkip(w) PROVE OnceInv'
  BY <1>12 DEF UnsubscribeSkip, TypeOK
<1>13. ASSUME NEW w \in Owners, UnsubscribeClose(w) PROVE OnceInv'
  BY <1>13 DEF UnsubscribeClose, TypeOK
<1> QED
  BY <1>1, <1>2, <1>3, <1>4, <1>5, <1>6, <1>7, <1>8, <1>9, <1>10, <1>11,
     <1>12, <1>13
     DEF Next, vars, Dispatch, Forward, Consume, OwnerStep, Notification,
         ReadFailed, AcceptClose, CallReturns, CallAccepted, DeliverQuit,
         ForwardSend, HandOver, Receive

(* The invariant of the ending, behind the two theorems that follow.        *)
LEMMA OnceInvCorrect == Spec => []OnceInv
<1>1. Init => OnceInv
  BY DEF Init, OnceInv, ErrChannelSafe
<1>2. TypeOK /\ OnceInv /\ [Next]_vars => OnceInv'
  BY OnceStep
<1> QED
  BY <1>1, <1>2, TypeCorrect, PTL DEF Spec

(* Whoever can still run quitOnce's body finds sub.err open and empty,      *)
(* however many goroutines call Unsubscribe.                                *)
THEOREM ErrSafeCorrect == Spec => []ErrChannelSafe
<1>1. OnceInv => ErrChannelSafe
  BY DEF OnceInv
<1> QED
  BY <1>1, OnceInvCorrect, PTL

(* No subscription ends without its owner being told.                       *)
THEOREM EndCorrect == Spec => []EndIsTold
<1>1. OnceInv => EndIsTold
  BY DEF OnceInv, EndIsTold
<1> QED
  BY <1>1, OnceInvCorrect, PTL

=============================================================================
