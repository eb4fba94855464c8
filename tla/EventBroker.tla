----------------------------- MODULE EventBroker -----------------------------
(***************************************************************************)
(* The SSE broker (internal/sse/broker.go) and the loop of its readers,     *)
(* handleRunEvents (internal/api/run_handler.go:350-365).                   *)
(*                                                                          *)
(* A member of Subscriber is one GET /runs/{id}/events request and the      *)
(* channel Subscribe makes for it.  Publish holds the read lock while it    *)
(* goes over the channels, so publishers interleave with each other and     *)
(* with readers, and Subscribe, unsubscribe and CloseRun wait for them.     *)
(* The order of a run's channel slice is left out: nothing depends on it.   *)
(***************************************************************************)
EXTENDS Integers, Sequences, FiniteSets

CONSTANTS Run,
          Subscriber,
          Publisher,     \* callers of Publish: goroutines of the run driver
          Capacity,      \* of a subscriber's channel: 256 in the code
          MaxEvents,     \* bound: how many events each publisher sends
          None

ASSUME BrokerAssumption ==
    /\ Capacity \in Nat \ {0}
    /\ MaxEvents \in [Publisher -> Nat]
    /\ None \notin Run

\* The n-th event of a publisher.
Event == {e \in Publisher \X Nat : e[2] \in 1..MaxEvents[e[1]]}

VARIABLES
    subs,        \* Broker.subs: the channels registered for each run
    chan,        \* each channel: not made yet, open or closed
    queue,       \* what is buffered in it
    topic,       \* the run a reader asked for
    reader,      \* the goroutine of the GET request
    received,    \* history: the events a reader has written to its client
    dropped,     \* history: the events a full channel has cost a reader
    sent,        \* events each publisher has begun to publish
    sending,     \* the run a publisher publishes to, under the read lock
    pending      \* the channels its loop has still to try

readerVars == <<topic, reader, received>>
publisherVars == <<sent, sending, pending>>
vars == <<subs, chan, queue, dropped, readerVars, publisherVars>>

ReaderPC == {"idle", "streaming", "leaving", "gone"}

TypeOK ==
    /\ subs \in [Run -> SUBSET Subscriber]
    /\ chan \in [Subscriber -> {"none", "open", "closed"}]
    /\ queue \in [Subscriber -> Seq(Event)]
    /\ topic \in [Subscriber -> Run \cup {None}]
    /\ reader \in [Subscriber -> ReaderPC]
    /\ received \in [Subscriber -> Seq(Event)]
    /\ dropped \in [Subscriber -> SUBSET Event]
    /\ sent \in [Publisher -> Nat]
    /\ sending \in [Publisher -> Run \cup {None}]
    /\ pending \in [Publisher -> SUBSET Subscriber]

Init ==
    /\ subs = [r \in Run |-> {}]
    /\ chan = [s \in Subscriber |-> "none"]
    /\ queue = [s \in Subscriber |-> <<>>]
    /\ topic = [s \in Subscriber |-> None]
    /\ reader = [s \in Subscriber |-> "idle"]
    /\ received = [s \in Subscriber |-> <<>>]
    /\ dropped = [s \in Subscriber |-> {}]
    /\ sent = [p \in Publisher |-> 0]
    /\ sending = [p \in Publisher |-> None]
    /\ pending = [p \in Publisher |-> {}]

\* mu.Lock() is granted when no publisher holds the read lock.
Unlocked == \A p \in Publisher : sending[p] = None

-----------------------------------------------------------------------------
Subscribe(s, r) ==
    /\ Unlocked
    /\ reader[s] = "idle"
    /\ chan' = [chan EXCEPT ![s] = "open"]
    /\ subs' = [subs EXCEPT ![r] = @ \cup {s}]
    /\ topic' = [topic EXCEPT ![s] = r]
    /\ reader' = [reader EXCEPT ![s] = "streaming"]
    /\ UNCHANGED <<queue, received, dropped, publisherVars>>

\* The reader's loop: an event is written to the client.
Receive(s) ==
    /\ reader[s] = "streaming"
    /\ queue[s] # <<>>
    /\ received' = [received EXCEPT ![s] = Append(@, Head(queue[s]))]
    /\ queue' = [queue EXCEPT ![s] = Tail(@)]
    /\ UNCHANGED <<subs, chan, topic, reader, dropped, publisherVars>>

\* Mutant: the reader takes no notice of a closed channel.
SeeClose_Ignored(s) ==
    /\ reader[s] = "streaming"
    /\ chan[s] = "closed" /\ queue[s] = <<>>
    /\ UNCHANGED vars

\* The channel is closed and empty.
SeeClose(s) ==
    /\ reader[s] = "streaming"
    /\ chan[s] = "closed" /\ queue[s] = <<>>
    /\ reader' = [reader EXCEPT ![s] = "leaving"]
    /\ UNCHANGED <<subs, chan, queue, topic, received, dropped, publisherVars>>

\* The client goes away: r.Context() is done.
Disconnect(s) ==
    /\ reader[s] = "streaming"
    /\ reader' = [reader EXCEPT ![s] = "leaving"]
    /\ UNCHANGED <<subs, chan, queue, topic, received, dropped, publisherVars>>

\* Mutant: unsubscribe is not deferred.
Unsubscribe_Forgotten(s) ==
    /\ Unlocked
    /\ reader[s] = "leaving"
    /\ reader' = [reader EXCEPT ![s] = "gone"]
    /\ UNCHANGED <<subs, chan, queue, topic, received, dropped, publisherVars>>

\* The deferred unsubscribe, a no-op when CloseRun has removed the entry.
Unsubscribe(s) ==
    /\ Unlocked
    /\ reader[s] = "leaving"
    /\ subs' = [subs EXCEPT ![topic[s]] = @ \ {s}]
    /\ reader' = [reader EXCEPT ![s] = "gone"]
    /\ UNCHANGED <<chan, queue, topic, received, dropped, publisherVars>>

CloseRun(r) ==
    /\ Unlocked
    /\ chan' = [s \in Subscriber |-> IF s \in subs[r] THEN "closed" ELSE chan[s]]
    /\ subs' = [subs EXCEPT ![r] = {}]
    /\ UNCHANGED <<queue, readerVars, dropped, publisherVars>>

-----------------------------------------------------------------------------
(* Publish: read lock, one non-blocking send per channel, unlock.           *)

BeginPublish(p, r) ==
    /\ sending[p] = None
    /\ sent[p] < MaxEvents[p]
    /\ sent' = [sent EXCEPT ![p] = @ + 1]
    /\ sending' = [sending EXCEPT ![p] = r]
    /\ pending' = [pending EXCEPT ![p] = subs[r]]
    /\ UNCHANGED <<subs, chan, queue, readerVars, dropped>>

\* Mutant: the send waits for room.
Send_Blocks(p, s) ==
    /\ s \in pending[p]
    /\ \/ /\ Len(queue[s]) < Capacity
          /\ queue' = [queue EXCEPT ![s] = Append(@, <<p, sent[p]>>)]
          /\ pending' = [pending EXCEPT ![p] = @ \ {s}]
          /\ UNCHANGED <<subs, chan, readerVars, sent, sending, dropped>>
       \/ /\ Len(queue[s]) = Capacity
          /\ UNCHANGED vars

\* Mutant: the channel is offered the event again.
Send_Twice(p, s) ==
    /\ s \in pending[p]
    /\ Len(queue[s]) < Capacity
    /\ queue' = [queue EXCEPT ![s] = Append(@, <<p, sent[p]>>)]
    /\ UNCHANGED <<subs, chan, readerVars, sent, sending, dropped, pending>>

\* A send on a closed channel panics: NoPanic says that it never happens.
Send(p, s) ==
    /\ s \in pending[p]
    /\ \/ /\ Len(queue[s]) < Capacity
          /\ queue' = [queue EXCEPT ![s] = Append(@, <<p, sent[p]>>)]
          /\ UNCHANGED dropped
       \/ /\ Len(queue[s]) = Capacity
          /\ dropped' = [dropped EXCEPT ![s] = @ \cup {<<p, sent[p]>>}]
          /\ UNCHANGED queue
    /\ pending' = [pending EXCEPT ![p] = @ \ {s}]
    /\ UNCHANGED <<subs, chan, readerVars, sent, sending>>

EndPublish(p) ==
    /\ sending[p] # None
    /\ pending[p] = {}
    /\ sending' = [sending EXCEPT ![p] = None]
    /\ UNCHANGED <<subs, chan, queue, readerVars, dropped, sent, pending>>

-----------------------------------------------------------------------------
ReaderStep(s) ==
    \/ \E r \in Run : Subscribe(s, r)
    \/ Receive(s)
    \/ SeeClose(s)
    \/ Disconnect(s)
    \/ Unsubscribe(s)

PublisherStep(p) ==
    \/ \E r \in Run : BeginPublish(p, r)
    \/ \E s \in Subscriber : Send(p, s)
    \/ EndPublish(p)

Next ==
    \/ \E s \in Subscriber : ReaderStep(s)
    \/ \E p \in Publisher : PublisherStep(p)
    \/ \E r \in Run : CloseRun(r)

Spec == Init /\ [][Next]_vars

\* A publisher inside Publish keeps going.
PublisherFairness ==
    \A p \in Publisher :
        WF_vars((\E s \in Subscriber : Send(p, s)) \/ EndPublish(p))

\* A reader whose client takes what it is sent keeps going.  The lock is granted
\* in the end: sync.RWMutex lets no new reader pass a waiting writer.
ReaderFairness ==
    \A s \in Subscriber :
        /\ WF_vars(Receive(s) \/ SeeClose(s))
        /\ SF_vars(Unsubscribe(s))

\* Publishers must do without the readers: a client may stall for ever.
FairSpec == Spec /\ PublisherFairness

-----------------------------------------------------------------------------
Delivered(s) == received[s] \o queue[s]

Events(seq) == {seq[i] : i \in DOMAIN seq}

\* Publish never sends on a closed channel and CloseRun never closes one twice
\* (either would panic): whatever a publisher has still to try is registered,
\* and whatever is registered for a run is open and was made for that run.
NoPanic ==
    /\ \A r \in Run : \A s \in subs[r] : chan[s] = "open" /\ topic[s] = r
    /\ \A p \in Publisher : sending[p] = None => pending[p] = {}
    /\ \A p \in Publisher : sending[p] # None => pending[p] \subseteq subs[sending[p]]

\* No reader is left behind in the table once its handler has returned.
NoLeak == \A r \in Run : \A s \in subs[r] : reader[s] # "gone"

\* The inductive invariant behind NoPanic and NoLeak: a reader is in the table
\* only for the run it asked for, between Subscribe and unsubscribe.
Registered ==
    /\ \A s \in Subscriber : reader[s] = "idle" =>
            chan[s] = "none" /\ \A r \in Run : s \notin subs[r]
    /\ \A s \in Subscriber : reader[s] \in {"streaming", "leaving"} => topic[s] \in Run
    /\ \A p \in Publisher : sending[p] # None => sent[p] \in 1..MaxEvents[p]

\* Behind PublisherOrder: what has reached a channel is no newer than the last
\* event of its publisher, and older while that one has still to be tried.
Numbered ==
    \A s \in Subscriber : \A i \in DOMAIN Delivered(s) :
        LET e == Delivered(s)[i]
        IN  /\ e[2] <= sent[e[1]]
            /\ s \in pending[e[1]] => e[2] < sent[e[1]]

BrokerInv == TypeOK /\ NoPanic /\ NoLeak /\ Registered /\ Numbered

\* A reader sees the events of one publisher in the order they were published
\* and none of them twice, whatever was dropped and whoever else publishes.
PublisherOrder ==
    \A s \in Subscriber : \A i, j \in DOMAIN Delivered(s) :
        i < j /\ Delivered(s)[i][1] = Delivered(s)[j][1] =>
            Delivered(s)[i][2] < Delivered(s)[j][2]

\* Nothing enters a channel once CloseRun has closed it, and it stays closed.
ClosedIsFinal ==
    [][\A s \in Subscriber : chan[s] = "closed" =>
        /\ chan'[s] = "closed"
        /\ dropped'[s] = dropped[s]
        /\ received'[s] \o queue'[s] = Delivered(s)]_vars

\* Publish returns although no reader ever takes anything from its channel.
PublishNeverBlocks ==
    \A p \in Publisher : (sending[p] # None) ~> (sending[p] = None)

\* CloseRun ends every stream registered for the run whose client takes what
\* it is sent or goes away.
CloseEndsStreams ==
    ReaderFairness =>
        \A s \in Subscriber : (chan[s] = "closed") ~>
            (reader[s] = "gone" /\ \A r \in Run : s \notin subs[r])
=============================================================================
