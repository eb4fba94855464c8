-------------------------- MODULE EventBrokerProofs --------------------------
(***************************************************************************)
(* Proofs about EventBroker, for any runs, readers, publishers and channel  *)
(* capacity: Publish and CloseRun never panic, no reader leaks, a closed    *)
(* channel is final, and readers see each publisher's events in order.      *)
(***************************************************************************)
EXTENDS EventBroker, SequenceTheorems, TLAPS

LEMMA BrokerTypePreserved ==
    ASSUME BrokerInv, [Next]_vars
    PROVE  TypeOK'
<1> USE BrokerAssumption DEF BrokerInv, TypeOK, ReaderPC, readerVars, publisherVars
<1>1. ASSUME NEW s \in Subscriber, ReaderStep(s) PROVE TypeOK'
  <2>1. ASSUME NEW r \in Run, Subscribe(s, r) PROVE TypeOK' BY <2>1 DEF Subscribe
  <2>2. CASE Receive(s)
    <3>1. Head(queue[s]) \in Event /\ Tail(queue[s]) \in Seq(Event)
      BY <2>2 DEF Receive
    <3>2. Append(received[s], Head(queue[s])) \in Seq(Event) BY <3>1
    <3> QED BY <2>2, <3>1, <3>2 DEF Receive
  <2>3. CASE SeeClose(s) BY <2>3 DEF SeeClose
  <2>4. CASE Disconnect(s) BY <2>4 DEF Disconnect
  <2>5. CASE Unsubscribe(s) BY <2>5 DEF Unsubscribe, Registered
  <2> QED BY <1>1, <2>1, <2>2, <2>3, <2>4, <2>5 DEF ReaderStep
<1>2. ASSUME NEW p \in Publisher, PublisherStep(p) PROVE TypeOK'
  <2>1. ASSUME NEW r \in Run, BeginPublish(p, r) PROVE TypeOK'
    BY <2>1 DEF BeginPublish
  <2>2. ASSUME NEW s \in Subscriber, Send(p, s) PROVE TypeOK'
    <3>1. <<p, sent[p]>> \in Event BY <2>2 DEF Send, Event, Registered, NoPanic
    <3>2. Append(queue[s], <<p, sent[p]>>) \in Seq(Event) BY <3>1
    <3>3. queue' \in [Subscriber -> Seq(Event)] BY <2>2, <3>2 DEF Send
    <3>4. dropped[s] \cup {<<p, sent[p]>>} \in SUBSET Event BY <3>1
    <3>5. dropped' \in [Subscriber -> SUBSET Event] BY <2>2, <3>4 DEF Send
    <3>6. pending' \in [Publisher -> SUBSET Subscriber] BY <2>2 DEF Send
    <3> QED BY <2>2, <3>3, <3>5, <3>6 DEF Send
  <2>3. CASE EndPublish(p) BY <2>3 DEF EndPublish
  <2> QED BY <1>2, <2>1, <2>2, <2>3 DEF PublisherStep
<1>3. ASSUME NEW r \in Run, CloseRun(r) PROVE TypeOK' BY <1>3 DEF CloseRun
<1>4. CASE UNCHANGED vars BY <1>4 DEF vars
<1> QED BY <1>1, <1>2, <1>3, <1>4 DEF Next

\* Subscribe, unsubscribe and CloseRun run under the write lock, so no publisher
\* is between reading the table and its last send.
LEMMA NoPanicPreserved ==
    ASSUME BrokerInv, [Next]_vars
    PROVE  (NoPanic /\ NoLeak /\ Registered)'
<1> USE BrokerAssumption
    DEF BrokerInv, TypeOK, NoPanic, NoLeak, Registered, readerVars, publisherVars
<1> DEFINE Goal == NoPanic /\ NoLeak /\ Registered
<1>1. ASSUME NEW s \in Subscriber, ReaderStep(s) PROVE Goal'
  <2>1. ASSUME NEW r \in Run, Subscribe(s, r) PROVE Goal'
    BY <2>1 DEF Subscribe, Unlocked
  <2>2. CASE Receive(s) BY <2>2 DEF Receive
  <2>3. CASE SeeClose(s) BY <2>3 DEF SeeClose
  <2>4. CASE Disconnect(s) BY <2>4 DEF Disconnect
  <2>5. CASE Unsubscribe(s) BY <2>5 DEF Unsubscribe, Unlocked
  <2> QED BY <1>1, <2>1, <2>2, <2>3, <2>4, <2>5 DEF ReaderStep
<1>2. ASSUME NEW p \in Publisher, PublisherStep(p) PROVE Goal'
  <2>1. ASSUME NEW r \in Run, BeginPublish(p, r) PROVE Goal'
    BY <2>1 DEF BeginPublish
  <2>2. ASSUME NEW s \in Subscriber, Send(p, s) PROVE Goal' BY <2>2 DEF Send
  <2>3. CASE EndPublish(p) BY <2>3 DEF EndPublish
  <2> QED BY <1>2, <2>1, <2>2, <2>3 DEF PublisherStep
<1>3. ASSUME NEW r \in Run, CloseRun(r) PROVE Goal'
  BY <1>3 DEF CloseRun, Unlocked
<1>4. CASE UNCHANGED vars BY <1>4 DEF vars
<1> QED BY <1>1, <1>2, <1>3, <1>4 DEF Next

\* Taking an event from the channel and writing it loses nothing.
LEMMA ReceiveKeepsDelivered ==
    ASSUME NEW S, NEW got \in Seq(S), NEW q \in Seq(S), q # <<>>
    PROVE  Append(got, Head(q)) \o Tail(q) = got \o q
<1> DEFINE l == Append(got, Head(q)) \o Tail(q)
           r == got \o q
<1>1. Head(q) \in S /\ Tail(q) \in Seq(S) /\ Len(q) \in Nat \ {0} /\ Len(got) \in Nat
  OBVIOUS
<1>2. Len(Tail(q)) = Len(q) - 1 OBVIOUS
<1>3. Append(got, Head(q)) \in Seq(S) /\ Len(Append(got, Head(q))) = Len(got) + 1
  BY <1>1
<1>4. l \in Seq(S) /\ r \in Seq(S) BY <1>1, <1>3
<1>5. Len(l) = Len(r) BY <1>1, <1>2, <1>3
<1>6. ASSUME NEW i \in 1..Len(r) PROVE l[i] = r[i]
  <2>1. CASE i <= Len(got) BY <2>1, <1>1, <1>3
  <2>2. CASE i = Len(got) + 1 BY <2>2, <1>1, <1>3
  <2>3. CASE i > Len(got) + 1
    <3>1. l[i] = Tail(q)[i - Len(got) - 1] BY <2>3, <1>1, <1>2, <1>3
    <3>2. Tail(q)[i - Len(got) - 1] = q[i - Len(got)] BY <2>3, <1>1, <1>2
    <3> QED BY <3>1, <3>2, <2>3, <1>1
  <2> QED BY <2>1, <2>2, <2>3, <1>1
<1> HIDE DEF l, r
<1>7. l = r BY <1>4, <1>5, <1>6
<1> QED BY <1>7 DEF l, r

\* An event that enters a channel comes last of all that its reader will write.
LEMMA SendAppendsDelivered ==
    ASSUME NEW S, NEW got \in Seq(S), NEW q \in Seq(S), NEW e \in S
    PROVE  got \o Append(q, e) = Append(got \o q, e)
<1>1. <<e>> \in Seq(S) /\ got \o q \in Seq(S) OBVIOUS
<1>2. Append(q, e) = q \o <<e>> BY AppendIsConcat
<1>3. Append(got \o q, e) = (got \o q) \o <<e>> BY <1>1, AppendIsConcat
<1>4. (got \o q) \o <<e>> = got \o (q \o <<e>>) BY <1>1, ConcatAssociative
<1> QED BY <1>2, <1>3, <1>4

\* What a reader is given changes in one way only: the event of a publisher that
\* has it still to try comes at the end.
LEMMA DeliveredSteps ==
    ASSUME BrokerInv, [Next]_vars, NEW s \in Subscriber
    PROVE  \/ Delivered(s)' = Delivered(s)
           \/ \E p \in Publisher :
                /\ Send(p, s)
                /\ Delivered(s)' = Append(Delivered(s), <<p, sent[p]>>)
<1> USE DEF BrokerInv, TypeOK, readerVars, publisherVars, Delivered
<1>1. ASSUME NEW x \in Subscriber, ReaderStep(x) PROVE Delivered(s)' = Delivered(s)
  <2>1. CASE Receive(x) /\ x = s
    <3>1. received'[s] = Append(received[s], Head(queue[s])) /\ queue'[s] = Tail(queue[s])
      BY <2>1 DEF Receive
    <3>2. Append(received[s], Head(queue[s])) \o Tail(queue[s]) = received[s] \o queue[s]
      BY <2>1, ReceiveKeepsDelivered DEF Receive
    <3> QED BY <3>1, <3>2
  <2>2. CASE Receive(x) /\ x # s BY <2>2 DEF Receive
  <2>3. CASE ~Receive(x)
    BY <1>1, <2>3 DEF ReaderStep, Subscribe, SeeClose, Disconnect, Unsubscribe
  <2> QED BY <2>1, <2>2, <2>3
<1>2. ASSUME NEW p \in Publisher, NEW x \in Subscriber, Send(p, x)
      PROVE  \/ Delivered(s)' = Delivered(s)
             \/ Send(p, s) /\ Delivered(s)' = Append(Delivered(s), <<p, sent[p]>>)
  <2>1. CASE UNCHANGED queue \/ x # s BY <1>2, <2>1 DEF Send
  <2>2. CASE queue'[s] = Append(queue[s], <<p, sent[p]>>) /\ x = s
    <3>1. <<p, sent[p]>> \in Event BY <1>2 DEF Send, Event, Registered, NoPanic
    <3>2. received[s] \o Append(queue[s], <<p, sent[p]>>)
          = Append(received[s] \o queue[s], <<p, sent[p]>>)
      BY <3>1, SendAppendsDelivered
    <3>3. received' = received BY <1>2 DEF Send
    <3> QED BY <1>2, <2>2, <3>2, <3>3
  <2> QED BY <1>2, <2>1, <2>2 DEF Send
<1>3. ASSUME NEW p \in Publisher, (\E r \in Run : BeginPublish(p, r)) \/ EndPublish(p)
      PROVE  Delivered(s)' = Delivered(s)
  BY <1>3 DEF BeginPublish, EndPublish
<1>4. CASE \E r \in Run : CloseRun(r) BY <1>4 DEF CloseRun
<1>5. CASE UNCHANGED vars BY <1>5 DEF vars
<1> QED
  <2> HIDE DEF BrokerInv, TypeOK, Delivered
  <2> QED BY <1>1, <1>2, <1>3, <1>4, <1>5 DEF Next, PublisherStep

\* A publisher counts up, and only while it has no channel left to try; until it
\* does, the channels it has to try become fewer.
LEMMA NumbersStep ==
    ASSUME BrokerInv, [Next]_vars, NEW p \in Publisher
    PROVE  \/ sent'[p] = sent[p] /\ pending'[p] \subseteq pending[p]
           \/ sent'[p] = sent[p] + 1
<1> USE DEF BrokerInv, TypeOK, readerVars, publisherVars
<1>1. ASSUME NEW q \in Publisher, PublisherStep(q)
      PROVE  \/ sent'[p] = sent[p] /\ pending'[p] \subseteq pending[p]
             \/ sent'[p] = sent[p] + 1
  <2>1. ASSUME NEW r \in Run, BeginPublish(q, r)
        PROVE  \/ UNCHANGED <<sent[p], pending[p]>>
               \/ sent'[p] = sent[p] + 1
    BY <2>1 DEF BeginPublish
  <2>2. ASSUME NEW x \in Subscriber, Send(q, x)
        PROVE  sent'[p] = sent[p] /\ pending'[p] \subseteq pending[p]
    BY <2>2 DEF Send
  <2>3. CASE EndPublish(q) BY <2>3 DEF EndPublish
  <2> QED BY <1>1, <2>1, <2>2, <2>3 DEF PublisherStep
<1>2. ASSUME NEW x \in Subscriber, ReaderStep(x) PROVE UNCHANGED <<sent, pending>>
  BY <1>2 DEF ReaderStep, Subscribe, Receive, SeeClose, Disconnect, Unsubscribe
<1>3. CASE \E r \in Run : CloseRun(r) BY <1>3 DEF CloseRun
<1>4. CASE UNCHANGED vars BY <1>4 DEF vars
<1> QED BY <1>1, <1>2, <1>3, <1>4 DEF Next

\* The events of a publisher reach a channel as they are counted, so the last one
\* is the greatest.
LEMMA OrderPreserved ==
    ASSUME BrokerInv, [Next]_vars
    PROVE  Numbered' /\ (PublisherOrder => PublisherOrder')
<1> SUFFICES ASSUME NEW s \in Subscriber
             PROVE  /\ \A i \in DOMAIN Delivered(s)' :
                        LET e == Delivered(s)'[i]
                        IN  /\ e[2] <= sent'[e[1]]
                            /\ s \in pending'[e[1]] => e[2] < sent'[e[1]]
                    /\ PublisherOrder =>
                        \A i, j \in DOMAIN Delivered(s)' :
                          i < j /\ Delivered(s)'[i][1] = Delivered(s)'[j][1] =>
                            Delivered(s)'[i][2] < Delivered(s)'[j][2]
  BY DEF Numbered, PublisherOrder
<1> DEFINE old == Delivered(s)
           new == Delivered(s)'
<1>1. old \in Seq(Event) BY DEF BrokerInv, TypeOK, Delivered
<1>2. \A i \in DOMAIN old :
        /\ old[i][1] \in Publisher /\ old[i][2] \in Nat
        /\ old[i][2] <= sent[old[i][1]]
        /\ s \in pending[old[i][1]] => old[i][2] < sent[old[i][1]]
  BY <1>1 DEF BrokerInv, Numbered, Event
<1>3. PublisherOrder => \A i, j \in DOMAIN old :
        i < j /\ old[i][1] = old[j][1] => old[i][2] < old[j][2]
  BY DEF PublisherOrder
<1>4. \A p \in Publisher : sent[p] \in Nat BY DEF BrokerInv, TypeOK
<1> HIDE DEF old, new
<1>5. \A i \in DOMAIN old :
        /\ old[i][2] <= sent'[old[i][1]]
        /\ s \in pending'[old[i][1]] => old[i][2] < sent'[old[i][1]]
  BY <1>2, <1>4, NumbersStep
<1>6. CASE new = old BY <1>3, <1>5, <1>6 DEF new, old
<1>7. ASSUME NEW p \in Publisher, Send(p, s), new = Append(old, <<p, sent[p]>>)
      PROVE  /\ \A i \in DOMAIN new :
                  /\ new[i][2] <= sent'[new[i][1]]
                  /\ s \in pending'[new[i][1]] => new[i][2] < sent'[new[i][1]]
             /\ PublisherOrder => \A i, j \in DOMAIN new :
                  i < j /\ new[i][1] = new[j][1] => new[i][2] < new[j][2]
  <2>1. s \in pending[p] /\ sent' = sent /\ s \notin pending'[p]
    BY <1>7 DEF Send, BrokerInv, TypeOK
  <2>2. /\ DOMAIN old = 1 .. Len(old) /\ DOMAIN new = 1 .. Len(old) + 1
        /\ Len(old) \in Nat
        /\ \A i \in DOMAIN old : new[i] = old[i]
        /\ new[Len(old) + 1] = <<p, sent[p]>>
    BY <1>1, <1>7
  <2>3. \A i \in DOMAIN old : old[i][1] = p => old[i][2] < sent[p]
    BY <1>2, <2>1
  <2>4. ASSUME NEW i \in DOMAIN new
        PROVE  /\ new[i][2] <= sent'[new[i][1]]
               /\ s \in pending'[new[i][1]] => new[i][2] < sent'[new[i][1]]
    <3>1. CASE i \in DOMAIN old BY <3>1, <1>5, <2>2
    <3>2. CASE i = Len(old) + 1 BY <3>2, <2>1, <2>2, <1>4
    <3> QED BY <2>2, <3>1, <3>2
  <2>5. ASSUME PublisherOrder, NEW i \in DOMAIN new, NEW j \in DOMAIN new,
               i < j, new[i][1] = new[j][1]
        PROVE  new[i][2] < new[j][2]
    <3>1. i \in DOMAIN old BY <2>2, <2>5
    <3>2. CASE j \in DOMAIN old BY <3>1, <3>2, <1>3, <2>2, <2>5
    <3>3. CASE j = Len(old) + 1 BY <3>1, <3>3, <2>2, <2>3, <2>5
    <3> QED BY <2>2, <3>2, <3>3
  <2> QED BY <2>4, <2>5
<1> QED BY <1>6, <1>7, DeliveredSteps DEF new, old

-----------------------------------------------------------------------------
THEOREM BrokerInvariance == Spec => []BrokerInv
<1>1. Init => BrokerInv
  BY BrokerAssumption
  DEF Init, BrokerInv, TypeOK, ReaderPC, NoPanic, NoLeak, Registered, Numbered,
      Delivered
<1>2. BrokerInv /\ [Next]_vars => BrokerInv'
  BY BrokerTypePreserved, NoPanicPreserved, OrderPreserved DEF BrokerInv
<1> QED BY <1>1, <1>2, PTL DEF Spec

\* No interleaving of publishers, readers that come and go, and CloseRun sends on
\* a closed channel or closes one twice.
THEOREM BrokerNeverPanics == Spec => []NoPanic
BY BrokerInvariance, PTL DEF BrokerInv

\* A handler that has returned is in no run's channel list.
THEOREM BrokerNeverLeaks == Spec => []NoLeak
BY BrokerInvariance, PTL DEF BrokerInv

\* Whatever is dropped and whoever else publishes, a reader sees the events of a
\* publisher in their order and none twice.
THEOREM OrderCorrect == Spec => []PublisherOrder
<1>1. Init => PublisherOrder BY DEF Init, PublisherOrder, Delivered
<1>2. BrokerInv /\ PublisherOrder /\ [Next]_vars => PublisherOrder'
  BY OrderPreserved
<1> QED BY <1>1, <1>2, BrokerInvariance, PTL DEF Spec

\* A closed channel takes nothing in and loses nothing: what was in it when
\* CloseRun closed it is still what its reader will have written in the end.
THEOREM ClosedChannelsFinal == Spec => ClosedIsFinal
<1> DEFINE Kept(s) == chan[s] = "closed" =>
                        /\ chan'[s] = "closed"
                        /\ dropped'[s] = dropped[s]
                        /\ received'[s] \o queue'[s] = Delivered(s)
<1>1. ASSUME BrokerInv, [Next]_vars, NEW s \in Subscriber PROVE Kept(s)
  <2> USE <1>1 DEF BrokerInv, TypeOK, readerVars, publisherVars, Delivered
  <2>1. ASSUME NEW x \in Subscriber, ReaderStep(x) PROVE Kept(s)
    <3>1. ASSUME NEW r \in Run, Subscribe(x, r) PROVE Kept(s)
      BY <3>1 DEF Subscribe, Registered
    <3>2. CASE Receive(x)
      <4>1. CASE x = s
        <5>1. /\ received'[s] = Append(received[s], Head(queue[s]))
              /\ queue'[s] = Tail(queue[s])
              /\ UNCHANGED <<chan, dropped>>
          BY <3>2, <4>1 DEF Receive
        <5>2. Append(received[s], Head(queue[s])) \o Tail(queue[s])
              = received[s] \o queue[s]
          BY <3>2, <4>1, ReceiveKeepsDelivered DEF Receive
        <5> QED BY <5>1, <5>2
      <4>2. CASE x # s BY <3>2, <4>2 DEF Receive
      <4> QED BY <4>1, <4>2
    <3>3. CASE SeeClose(x) BY <3>3 DEF SeeClose
    <3>4. CASE Disconnect(x) BY <3>4 DEF Disconnect
    <3>5. CASE Unsubscribe(x) BY <3>5 DEF Unsubscribe
    <3> QED BY <2>1, <3>1, <3>2, <3>3, <3>4, <3>5 DEF ReaderStep
  <2>2. ASSUME NEW p \in Publisher, PublisherStep(p) PROVE Kept(s)
    <3>1. ASSUME NEW r \in Run, BeginPublish(p, r) PROVE Kept(s)
      BY <3>1 DEF BeginPublish
    <3>2. ASSUME NEW x \in Subscriber, Send(p, x) PROVE Kept(s)
      <4>1. x \in pending[p] BY <3>2 DEF Send
      <4>2. sending[p] \in Run /\ x \in subs[sending[p]] BY <4>1 DEF NoPanic
      <4>3. chan[x] = "open" BY <4>2 DEF NoPanic
      <4> QED BY <3>2, <4>3 DEF Send
    <3>3. CASE EndPublish(p) BY <3>3 DEF EndPublish
    <3> QED BY <2>2, <3>1, <3>2, <3>3 DEF PublisherStep
  <2>3. ASSUME NEW r \in Run, CloseRun(r) PROVE Kept(s)
    BY <2>3 DEF CloseRun
  <2>4. CASE UNCHANGED vars BY <2>4 DEF vars
  <2> QED BY <2>1, <2>2, <2>3, <2>4 DEF Next
<1>2. BrokerInv /\ [Next]_vars => [\A s \in Subscriber : Kept(s)]_vars
  BY <1>1
<1> QED BY <1>2, BrokerInvariance, PTL DEF Spec, ClosedIsFinal
=============================================================================
