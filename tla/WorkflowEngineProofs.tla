------------------------ MODULE WorkflowEngineProofs ------------------------
(***************************************************************************)
(* Proofs about WorkflowEngine, for any family of flows over the nodes of   *)
(* Vertex; a node may be of any type, known or not, and lack any child.  A  *)
(* stack is a sequence of records with the fields of Frame; the lemmas on   *)
(* pushing, replacing and popping a frame say what a call, a hand-over and  *)
(* a return preserve.  The first part proves the shape of the stack (IInv), *)
(* the second what its scopes hold (WalkInv).                               *)
(***************************************************************************)
EXTENDS WorkflowEngine, SequenceTheorems, WellFoundedInduction, TLAPS

Fields == {"node", "i", "limit", "ok", "passed", "entries", "merged", "began",
           "branchBegan"}

\* A frame when r requests have been sent.
FrameOK(f, r) ==
    /\ DOMAIN f = Fields
    /\ f.i \in Nat
    /\ f.ok \in BOOLEAN
    /\ f.began \in Nat
    /\ f.branchBegan \in Nat
    /\ f.began <= f.branchBegan
    /\ f.branchBegan <= r

\* A frame whose walker waits for a child.
Waits(f) ==
    /\ f.node.type \in Composite
    /\ f.i > 0
    /\ f.node.type \in {"sequence", "repeat"} => f.ok

\* A walker without children has seen no failure.
LeafFresh(f) == f.node.type \notin Composite => f.ok

IsSequence(s) == \E S : s \in Seq(S)

\* A stack s over the root node, when r requests have been sent and b says that
\* a failure has reached the top.
StackOK(s, root, r, b) ==
    /\ IsSequence(s)
    /\ \A k \in 1..Len(s) : FrameOK(s[k], r)
    /\ \A k \in 1..(Len(s) - 1) :
          Waits(s[k]) /\ s[k].branchBegan <= s[k + 1].began
    /\ s # <<>> => s[1].node = root /\ LeafFresh(s[Len(s)])
    /\ b /\ s # <<>> =>
          /\ ~s[Len(s)].ok
          /\ \A k \in 1..Len(s) : s[k].node.type # "parallel"

IInv ==
    /\ flow \in Flow
    /\ phase \in {"setup", "running", "aborted"}
    /\ iteration \in 0..MaxIterations
    /\ requests \in 0..MaxRequests
    /\ broken \in BOOLEAN
    /\ stack # <<>> => phase = "running"
    /\ StackOK(stack, RunNode, requests, broken)

-----------------------------------------------------------------------------
(* Stacks.                                                                  *)

LEMMA NonEmpty ==
    ASSUME NEW s, IsSequence(s), s # <<>>
    PROVE  Len(s) \in Nat \ {0}
<1>1. PICK S : s \in Seq(S) BY DEF IsSequence
<1> QED BY <1>1, EmptySeq, LenProperties

\* A call: the walker on top, now f, waits for the new walker g.
LEMMA PushOK ==
    ASSUME NEW s, NEW root, NEW r \in Nat, StackOK(s, root, r, FALSE), s # <<>>,
           NEW f, FrameOK(f, r), Waits(f),
           f.node = s[Len(s)].node, f.began = s[Len(s)].began,
           NEW g, FrameOK(g, r), g.ok, g.began = r
    PROVE  StackOK(Append([s EXCEPT ![Len(s)] = f], g), root, r, FALSE)
<1> DEFINE n == Len(s)
           u == [s EXCEPT ![n] = f]
           t == Append(u, g)
<1>1. PICK S : s \in Seq(S) BY DEF StackOK, IsSequence
<1>2. n \in Nat \ {0} BY NonEmpty DEF StackOK
<1>3. s \in Seq(S \cup {f, g}) BY <1>1, SeqMonotonic
<1>4. /\ u \in Seq(S \cup {f, g})
      /\ Len(u) = n
      /\ \A j \in 1..n : u[j] = IF j = n THEN f ELSE s[j]
  BY <1>2, <1>3, ExceptSeq
<1> HIDE DEF u, n
<1>5. /\ t \in Seq(S \cup {f, g})
      /\ t # <<>>
      /\ Len(t) = n + 1
      /\ \A j \in 1..n : t[j] = u[j]
      /\ t[n + 1] = g
  BY <1>4, AppendProperties
<1> HIDE DEF t
<1>6. \A j \in 1..(n - 1) : t[j] = s[j] BY <1>2, <1>4, <1>5
<1>7. t[n] = f BY <1>2, <1>4, <1>5
<1>8. IsSequence(t) BY <1>5 DEF IsSequence
<1>9. \A k \in 1..Len(t) : FrameOK(t[k], r)
  BY <1>2, <1>5, <1>6, <1>7 DEF StackOK, n
<1>10. \A k \in 1..(Len(t) - 1) : Waits(t[k]) /\ t[k].branchBegan <= t[k + 1].began
  <2> SUFFICES ASSUME NEW k \in 1..n
               PROVE  Waits(t[k]) /\ t[k].branchBegan <= t[k + 1].began
    BY <1>2, <1>5
  <2>1. CASE k = n BY <2>1, <1>5, <1>7 DEF FrameOK
  <2>2. CASE k = n - 1
    BY <2>2, <1>2, <1>6, <1>7 DEF StackOK, n
  <2>3. CASE k < n - 1
    <3>1. t[k] = s[k] /\ t[k + 1] = s[k + 1] BY <2>3, <1>2, <1>6
    <3> QED BY <3>1, <2>3, <1>2 DEF StackOK, n
  <2> QED BY <2>1, <2>2, <2>3, <1>2
<1>11. t[1].node = root
  BY <1>2, <1>6, <1>7 DEF StackOK, n
<1> QED BY <1>5, <1>8, <1>9, <1>10, <1>11 DEF StackOK, LeafFresh, t, u, n

\* A hand-over, or a change of the frame on top.
LEMMA ReplaceOK ==
    ASSUME NEW s, NEW root, NEW r \in Nat, NEW b \in BOOLEAN, StackOK(s, root, r, b), s # <<>>,
           NEW f, FrameOK(f, r), LeafFresh(f),
           Len(s) > 1 \/ f.node = root,
           f.began >= s[Len(s)].began,
           b => ~f.ok /\ f.node.type # "parallel"
    PROVE  StackOK([s EXCEPT ![Len(s)] = f], root, r, b)
<1> DEFINE n == Len(s)
           t == [s EXCEPT ![n] = f]
<1>1. PICK S : s \in Seq(S) BY DEF StackOK, IsSequence
<1>2. n \in Nat \ {0} BY NonEmpty DEF StackOK
<1>3. s \in Seq(S \cup {f}) BY <1>1, SeqMonotonic
<1>4. /\ t \in Seq(S \cup {f})
      /\ Len(t) = n
      /\ \A j \in 1..n : t[j] = IF j = n THEN f ELSE s[j]
  BY <1>2, <1>3, ExceptSeq
<1> HIDE DEF t, n
<1>5. IsSequence(t) BY <1>4 DEF IsSequence
<1>6. \A k \in 1..Len(t) : FrameOK(t[k], r) BY <1>4 DEF StackOK, n
<1>7. \A k \in 1..(Len(t) - 1) : Waits(t[k]) /\ t[k].branchBegan <= t[k + 1].began
  <2> SUFFICES ASSUME NEW k \in 1..(n - 1)
               PROVE  Waits(t[k]) /\ t[k].branchBegan <= t[k + 1].began
    BY <1>4
  <2>1. t[k] = s[k] /\ Waits(s[k]) /\ s[k].branchBegan <= s[k + 1].began
    BY <1>2, <1>4 DEF StackOK, n
  <2>2. CASE k + 1 = n
    <3>1. t[k + 1] = f BY <2>2, <1>2, <1>4
    <3>2. s[k].branchBegan \in Nat /\ s[n].began \in Nat /\ f.began \in Nat
      BY <1>2 DEF StackOK, FrameOK, n
    <3> QED BY <3>1, <3>2, <2>1, <2>2 DEF n
  <2>3. CASE k + 1 # n
    <3>1. t[k + 1] = s[k + 1] BY <2>3, <1>2, <1>4
    <3> QED BY <3>1, <2>1
  <2> QED BY <2>2, <2>3
<1>8. t[1].node = root BY <1>2, <1>4 DEF StackOK, n
<1>9. t[n] = f BY <1>2, <1>4
<1>10. b => \A k \in 1..Len(t) : t[k].node.type # "parallel"
  BY <1>2, <1>4 DEF StackOK, n
<1> QED BY <1>2, <1>4, <1>5, <1>6, <1>7, <1>8, <1>9, <1>10 DEF StackOK, t, n

\* A return: the caller, now f, is on top again.
LEMMA PopOK ==
    ASSUME NEW s, NEW root, NEW r \in Nat, NEW b \in BOOLEAN, StackOK(s, root, r, b), Len(s) > 1,
           NEW q \in Nat, r <= q,
           NEW f, FrameOK(f, q),
           f.node = s[Len(s) - 1].node, f.began = s[Len(s) - 1].began,
           NEW c \in BOOLEAN,
           c => /\ ~f.ok
                       /\ \A k \in 1..(Len(s) - 1) : s[k].node.type # "parallel"
    PROVE  StackOK([Front(s) EXCEPT ![Len(s) - 1] = f], root, q, c)
<1> DEFINE m == Len(s) - 1
           u == SubSeq(s, 1, m)
           t == [u EXCEPT ![m] = f]
<1>1. PICK S : s \in Seq(S) BY DEF StackOK, IsSequence
<1>2. m \in Nat \ {0} /\ Len(s) = m + 1
  <2>1. Len(s) \in Nat BY <1>1, LenProperties
  <2> QED BY <2>1
<1> HIDE DEF m
<1>3. \A i \in 1..m : s[i] \in S \cup {f} BY <1>1, <1>2, ElementOfSeq
<1>4. /\ u \in Seq(S \cup {f})
      /\ Len(u) = m
      /\ \A i \in 1..m : u[i] = s[i]
  BY <1>2, <1>3, SubSeqProperties
<1>6. t = [Front(s) EXCEPT ![Len(s) - 1] = f] BY DEF Front, m
<1> HIDE DEF u
<1>5. /\ t \in Seq(S \cup {f})
      /\ Len(t) = m
      /\ \A i \in 1..m : t[i] = IF i = m THEN f ELSE u[i]
  BY <1>2, <1>4, ExceptSeq
<1> HIDE DEF t
<1>7. IsSequence(t) BY <1>5 DEF IsSequence
<1>8. t[m] = f /\ \A i \in 1..(m - 1) : t[i] = s[i]
  <2>1. m \in 1..m /\ \A i \in 1..(m - 1) : i \in 1..m /\ i # m BY <1>2
  <2> QED BY <2>1, <1>4, <1>5
<1>9. \A k \in 1..m : FrameOK(s[k], q)
  <2> SUFFICES ASSUME NEW k \in 1..m PROVE FrameOK(s[k], q) OBVIOUS
  <2>1. FrameOK(s[k], r) BY <1>2 DEF StackOK
  <2> QED BY <2>1 DEF FrameOK
<1>10. \A k \in 1..Len(t) : FrameOK(t[k], q) BY <1>2, <1>5, <1>8, <1>9
<1>11. \A k \in 1..m : Waits(s[k]) /\ s[k].branchBegan <= s[k + 1].began
  BY <1>2 DEF StackOK
<1>12. \A k \in 1..(Len(t) - 1) :
          Waits(t[k]) /\ t[k].branchBegan <= t[k + 1].began
  <2> SUFFICES ASSUME NEW k \in 1..(m - 1)
               PROVE  Waits(t[k]) /\ t[k].branchBegan <= t[k + 1].began
    BY <1>5
  <2>1. t[k] = s[k] BY <1>8
  <2>2. t[k + 1].began = s[k + 1].began
    <3>1. CASE k + 1 = m BY <3>1, <1>2, <1>8 DEF m
    <3>2. CASE k + 1 # m BY <3>2, <1>2, <1>8
    <3> QED BY <3>1, <3>2
  <2> QED BY <2>1, <2>2, <1>2, <1>11
<1>13. t[1].node = root
  <2>1. s[1].node = root BY <1>1, <1>2, EmptySeq DEF StackOK
  <2>2. CASE m = 1 BY <2>1, <2>2, <1>8 DEF m
  <2>3. CASE m # 1 BY <2>1, <2>3, <1>2, <1>8
  <2> QED BY <2>2, <2>3
<1>14. LeafFresh(f) BY <1>2, <1>11 DEF Waits, LeafFresh, m
<1>15. c => \A k \in 1..m : t[k].node.type # "parallel"
  <2> SUFFICES ASSUME c, NEW k \in 1..m PROVE t[k].node.type # "parallel" OBVIOUS
  <2>1. t[k].node = s[k].node
    <3>1. CASE k = m BY <3>1, <1>8 DEF m
    <3>2. CASE k # m BY <3>2, <1>2, <1>8
    <3> QED BY <3>1, <3>2
  <2> QED BY <2>1 DEF m
<1>16. StackOK(t, root, q, c)
  BY <1>2, <1>5, <1>7, <1>8, <1>10, <1>12, <1>13, <1>14, <1>15 DEF StackOK
<1> QED BY <1>6, <1>16

LEMMA EmptyOK ==
    ASSUME NEW root, NEW r, NEW b
    PROVE  StackOK(<<>>, root, r, b)
<1>1. <<>> \in Seq({}) /\ Len(<<>>) = 0 BY EmptySeq
<1> QED BY <1>1 DEF StackOK, IsSequence

-----------------------------------------------------------------------------
(* What a call, a hand-over, a return and an error do to the engine.        *)

LEMMA FrameFits ==
    ASSUME NEW n, requests \in Nat
    PROVE  /\ FrameOK(Frame(n), requests)
           /\ Frame(n).ok
           /\ Frame(n).node = n
           /\ Frame(n).began = requests
BY DEF Frame, FrameOK, Fields

\* Only a sequence, a repeat or the root is on top when a failure has reached it.
LEMMA Unbroken ==
    ASSUME IInv, stack # <<>>,
           Top.ok \/ Node.type \notin {"run", "sequence", "repeat"}
    PROVE  ~broken
<1>1. Len(stack) \in Nat \ {0} BY NonEmpty DEF IInv, StackOK
<1>2. LeafFresh(Top) BY DEF IInv, StackOK, Top
<1>3. broken => ~Top.ok /\ Node.type # "parallel"
  BY <1>1 DEF IInv, StackOK, Top, Node
<1> QED BY <1>2, <1>3 DEF LeafFresh, Composite, Node

LEMMA NotAlone ==
    ASSUME IInv, stack # <<>>, Node.type # "run"
    PROVE  Len(stack) \in Nat /\ Len(stack) > 1
<1>1. Len(stack) \in Nat \ {0} BY NonEmpty DEF IInv, StackOK
<1>2. stack[1].node.type = "run" BY DEF IInv, StackOK, RunNode
<1>3. Len(stack) # 1 BY <1>2 DEF Top, Node
<1>4. \A n \in Nat \ {0} : n # 1 => n > 1 OBVIOUS
<1> QED BY <1>1, <1>3, <1>4

LEMMA CallPreserves ==
    ASSUME IInv, stack # <<>>, ~broken, NEW frame, NEW child, Call(frame, child),
           FrameOK(frame, requests), Waits(frame),
           frame.node = Node, frame.began = Top.began
    PROVE  IInv'
<1>1. requests \in Nat BY EngineAssumption DEF IInv
<1>2. StackOK(stack, RunNode, requests, FALSE) BY DEF IInv, StackOK
<1>3. StackOK(stack', RunNode, requests, FALSE)
  <2>1. CASE child = None BY <2>1, EmptyOK DEF Call
  <2>2. CASE child # None
    BY <2>2, <1>1, <1>2, FrameFits, PushOK DEF Call, Top, Node
  <2> QED BY <2>1, <2>2
<1>4. RunNode' = RunNode BY DEF Call, RunNode
<1>5. StackOK(stack', RunNode', requests', broken')
  BY <1>3, <1>4 DEF Call, StackOK
<1>6. phase = "running" BY DEF IInv
<1> QED BY <1>5, <1>6 DEF IInv, Call

LEMMA HandOverPreserves ==
    ASSUME IInv, stack # <<>>, Node.type \in {"optional", "if"},
           NEW child, HandOver(child)
    PROVE  IInv'
<1>1. requests \in Nat BY EngineAssumption DEF IInv
<1>2. ~broken BY Unbroken
<1>3. Len(stack) \in Nat /\ Len(stack) > 1 BY NotAlone
<1>4. Top.began \in Nat /\ Top.began <= requests
  BY <1>1, <1>3 DEF IInv, StackOK, FrameOK, Top
<1>5. LeafFresh(Frame(child)) BY <1>1, FrameFits DEF LeafFresh
<1>6. /\ broken \in BOOLEAN
      /\ StackOK(stack, RunNode, requests, broken)
      /\ child # None => stack' = [stack EXCEPT ![Len(stack)] = Frame(child)]
      /\ child = None => stack' = <<>>
  BY DEF HandOver, IInv
<1>7. FrameOK(Frame(child), requests) /\ Frame(child).began >= stack[Len(stack)].began
  BY <1>1, <1>4, FrameFits DEF Top
<1>8. StackOK(stack', RunNode, requests, broken)
  <2>1. CASE child = None BY <1>6, <2>1, EmptyOK
  <2>2. CASE child # None
    BY <1>1, <1>2, <1>3, <1>5, <1>6, <1>7, <2>2, ReplaceOK
  <2> QED BY <2>1, <2>2
<1>9. RunNode' = RunNode BY DEF HandOver, RunNode
<1>10. phase = "running" BY DEF IInv
<1> QED BY <1>8, <1>9, <1>10 DEF IInv, HandOver

\* The walker's own frame with another limit.
LEMMA LimitPreserves ==
    ASSUME IInv, stack # <<>>, NEW n, SetLimit(n)
    PROVE  IInv'
<1> DEFINE f == [Top EXCEPT !.limit = n]
<1>1. requests \in Nat BY EngineAssumption DEF IInv
<1>2. Len(stack) \in Nat \ {0} BY NonEmpty DEF IInv, StackOK
<1>3. FrameOK(Top, requests) /\ LeafFresh(Top)
  BY <1>2 DEF IInv, StackOK, Top
<1>4. /\ FrameOK(f, requests)
      /\ f.node = Top.node /\ f.ok = Top.ok /\ f.began = Top.began
  BY <1>3 DEF FrameOK, Fields
<1>5. LeafFresh(f) BY <1>3, <1>4 DEF LeafFresh
<1>6. f.began >= Top.began BY <1>4, <1>3 DEF FrameOK
<1>7. broken => ~f.ok /\ f.node.type # "parallel"
  BY <1>2, <1>4 DEF IInv, StackOK, Top
<1>8. Len(stack) > 1 \/ f.node = RunNode
  BY <1>2, <1>4 DEF IInv, StackOK, Top
<1>9. stack' = [stack EXCEPT ![Len(stack)] = f] BY DEF SetLimit
<1>10. broken \in BOOLEAN /\ StackOK(stack, RunNode, requests, broken) BY DEF IInv
<1> HIDE DEF f
<1>11. f.began >= stack[Len(stack)].began BY <1>6 DEF Top
<1>12. StackOK(stack', RunNode, requests, broken)
  BY <1>1, <1>4, <1>5, <1>7, <1>8, <1>9, <1>10, <1>11, ReplaceOK
<1>13. RunNode' = RunNode BY DEF RunNode, SetLimit
<1>14. phase = "running" BY DEF IInv
<1> QED BY <1>12, <1>13, <1>14 DEF IInv, SetLimit

LEMMA ReturnPreserves ==
    ASSUME IInv, stack # <<>>, Node.type # "run",
           NEW ok \in BOOLEAN, NEW writes, Return(ok, writes), broken => ~ok,
           requests' \in Nat, requests <= requests', requests' <= MaxRequests
    PROVE  IInv'
<1> DEFINE m == Len(stack) - 1
           caller == stack[m]
           f == [caller EXCEPT !.entries = Merge(writes, @),
                               !.ok = ok,
                               !.passed = IF ok THEN @ + 1 ELSE @]
<1>1. requests \in Nat BY EngineAssumption DEF IInv
<1>2. Len(stack) \in Nat /\ Len(stack) > 1 BY NotAlone
<1>3. FrameOK(caller, requests) BY <1>2 DEF IInv, StackOK
<1>4. FrameOK(caller, requests') BY <1>1, <1>3 DEF FrameOK
<1>5. /\ FrameOK(f, requests')
      /\ f.node = caller.node /\ f.began = caller.began /\ f.ok = ok
  BY <1>4 DEF FrameOK, Fields
<1>6. broken' \in BOOLEAN /\ broken \in BOOLEAN BY DEF Return, IInv
<1>7. broken' => ~f.ok /\ \A k \in 1..m : stack[k].node.type # "parallel"
  <2>1. CASE broken
    <3>1. \A k \in 1..Len(stack) : stack[k].node.type # "parallel"
      BY <2>1 DEF IInv, StackOK
    <3> QED BY <2>1, <3>1, <1>2, <1>5
  <2>2. CASE ~broken BY <2>2, <1>5 DEF Return, InParallel
  <2> QED BY <2>1, <2>2
<1>8. stack' = [Front(stack) EXCEPT ![m] = f] BY DEF Return
<1> HIDE DEF f
<1>9. StackOK(stack', RunNode, requests', broken')
  BY <1>1, <1>2, <1>5, <1>6, <1>7, <1>8, PopOK DEF IInv
<1>10. RunNode' = RunNode BY DEF Return, RunNode
<1>11. requests' \in 0..MaxRequests BY EngineAssumption
<1>12. phase = "running" BY DEF IInv
<1> QED BY <1>6, <1>9, <1>10, <1>11, <1>12 DEF IInv, Return

LEMMA ThrowPreserves ==
    ASSUME IInv, Throw
    PROVE  IInv'
BY EmptyOK DEF IInv, Throw, RunNode

-----------------------------------------------------------------------------
(* The steps.                                                               *)

\* A frame whose walker has begun one more child, in the same scope.
LEMMA NextFits ==
    ASSUME NEW g, NEW r, FrameOK(g, r), g.ok, g.node.type \in Composite,
           NEW next \in Nat \ {0}
    PROVE  /\ FrameOK([g EXCEPT !.i = next], r)
           /\ Waits([g EXCEPT !.i = next])
           /\ [g EXCEPT !.i = next].node = g.node
           /\ [g EXCEPT !.i = next].began = g.began
<1> DEFINE f == [g EXCEPT !.i = next]
<1>1. DOMAIN g = Fields BY DEF FrameOK
<1>2. /\ DOMAIN f = Fields
      /\ f.i = next /\ f.ok = g.ok /\ f.node = g.node /\ f.began = g.began
      /\ f.branchBegan = g.branchBegan
  BY <1>1 DEF Fields
<1> HIDE DEF f
<1>3. FrameOK(f, r) BY <1>2 DEF FrameOK
<1>4. Waits(f) BY <1>2 DEF Waits
<1> QED BY <1>2, <1>3, <1>4 DEF f

LEMMA TopFits ==
    ASSUME IInv, stack # <<>>
    PROVE  /\ requests \in Nat /\ requests <= MaxRequests
           /\ FrameOK(Top, requests)
           /\ Top.i + 1 \in Nat \ {0}
<1>1. Len(stack) \in Nat \ {0} BY NonEmpty DEF IInv, StackOK
<1>2. requests \in Nat /\ requests <= MaxRequests BY EngineAssumption DEF IInv
<1>3. FrameOK(Top, requests) BY <1>1 DEF IInv, StackOK, Top
<1>4. Top.i \in Nat BY <1>3 DEF FrameOK
<1> QED BY <1>2, <1>3, <1>4

\* One more child of a sequence or a repeat.
LEMMA ChildPreserves ==
    ASSUME IInv, stack # <<>>, Node.type \in {"sequence", "repeat"}, Top.ok,
           NEW child, Call([Top EXCEPT !.i = Top.i + 1], child)
    PROVE  IInv'
<1> DEFINE next == Top.i + 1
           f == [Top EXCEPT !.i = next]
<1>1. ~broken BY Unbroken
<1>2. /\ FrameOK(Top, requests) /\ next \in Nat \ {0}
      /\ Top.node.type \in Composite
  BY TopFits DEF Composite, Node
<1>3. Call(f, child) OBVIOUS
<1> HIDE DEF next
<1>4. /\ FrameOK(f, requests) /\ Waits(f)
      /\ f.node = Node /\ f.began = Top.began
  BY <1>2, NextFits DEF Node
<1> HIDE DEF f
<1> QED BY <1>1, <1>3, <1>4, CallPreserves

LEMMA LeavesPreserve ==
    ASSUME IInv, WalkDelay \/ WalkRequest \/ SkipOptional \/ TakeNeither
    PROVE  IInv'
<1>1. requests \in Nat /\ requests <= MaxRequests BY EngineAssumption DEF IInv
<1>2. CASE WalkDelay \/ SkipOptional \/ TakeNeither
  <2>1. /\ Walking("delay") \/ Walking("optional") \/ Walking("if")
        /\ Return(TRUE, Empty)
        /\ UNCHANGED requests
    BY <1>2 DEF WalkDelay, SkipOptional, TakeNeither
  <2>2. stack # <<>> /\ Node.type \in {"delay", "optional", "if"}
    BY <2>1 DEF Walking
  <2>3. ~broken BY <2>2, Unbroken
  <2>4. TRUE \in BOOLEAN OBVIOUS
  <2>5. Return(TRUE, Empty) BY <2>1
  <2>6. requests' \in Nat /\ requests <= requests' /\ requests' <= MaxRequests
    BY <1>1, <2>1
  <2>7. Node.type # "run" BY <2>2
  <2> QED BY <2>2, <2>3, <2>4, <2>5, <2>6, <2>7, ReturnPreserves
<1>3. CASE WalkRequest
  <2>1. stack # <<>> /\ Node.type = "request" BY <1>3 DEF WalkRequest, Walking
  <2>2. ~broken BY <2>1, Unbroken
  <2>3. requests' = requests + 1 /\ requests' <= MaxRequests
    BY <1>1, <1>3, EngineAssumption DEF WalkRequest, Send
  <2>4. PICK ok \in BOOLEAN, found \in BOOLEAN :
            Return(ok, Extract(Node, requests', found))
    BY <1>3 DEF WalkRequest
  <2> QED BY <1>1, <2>1, <2>2, <2>3, <2>4, ReturnPreserves
<1> QED BY <1>2, <1>3

LEMMA HandOversPreserve ==
    ASSUME IInv, FireOptional \/ TakeThen \/ TakeElse
    PROVE  IInv'
<1>1. PICK child : HandOver(child) BY DEF FireOptional, TakeThen, TakeElse
<1>2. stack # <<>> /\ Node.type \in {"optional", "if"}
  BY DEF FireOptional, TakeThen, TakeElse, Walking
<1> QED BY <1>1, <1>2, HandOverPreserves

LEMMA SequencePreserves ==
    ASSUME IInv, NextChild \/ EndSequence
    PROVE  IInv'
<1>1. stack # <<>> /\ Node.type = "sequence" BY DEF NextChild, EndSequence, Walking
<1>2. CASE NextChild BY <1>1, <1>2, ChildPreserves DEF NextChild
<1>3. CASE EndSequence
  <2>1. Return(Top.ok, Bind(Node.id, Top.entries)) /\ UNCHANGED requests
    BY <1>3 DEF EndSequence
  <2>2. Top.ok \in BOOLEAN /\ (broken => ~Top.ok)
    BY <1>1, TopFits, Unbroken DEF FrameOK
  <2>3. requests \in Nat /\ requests <= MaxRequests BY <1>1, TopFits
  <2> QED BY <1>1, <2>1, <2>2, <2>3, ReturnPreserves
<1> QED BY <1>2, <1>3

LEMMA ParallelPreserves ==
    ASSUME IInv, SkipParallel \/ NextBranch \/ EndParallel \/ WalkBatch
    PROVE  IInv'
<1>1. stack # <<>> /\ Node.type = "parallel"
  BY DEF SkipParallel, NextBranch, EndParallel, WalkBatch, Walking
<1>2. ~broken BY <1>1, Unbroken
<1>3. requests \in Nat /\ requests <= MaxRequests BY <1>1, TopFits
<1>4. ASSUME NEW ok \in BOOLEAN, NEW writes, Return(ok, writes),
             UNCHANGED requests
      PROVE  IInv'
  <2>1. requests' \in Nat /\ requests <= requests' /\ requests' <= MaxRequests
    BY <1>3, <1>4
  <2>2. Node.type # "run" BY <1>1
  <2> QED BY <1>1, <1>2, <1>4, <2>1, <2>2, ReturnPreserves
<1>5. ASSUME NEW wait, NEW passed, NEW total
      PROVE  CheckWaitPolicy(wait, passed, total) \in BOOLEAN
  BY DEF CheckWaitPolicy
<1>6. CASE SkipParallel
  <2>1. Return(TRUE, Empty) /\ UNCHANGED requests BY <1>6 DEF SkipParallel
  <2>2. TRUE \in BOOLEAN OBVIOUS
  <2> QED BY <1>4, <2>1, <2>2
<1>7. CASE NextBranch
  <2> DEFINE next == Top.i + 1
             both == Merge(Top.entries, Top.merged)
             f == [Top EXCEPT !.i = next, !.merged = both,
                              !.entries = Empty, !.branchBegan = requests]
  <2>1. Call(f, Node.children[next]) BY <1>7 DEF NextBranch
  <2>2. FrameOK(Top, requests) /\ next \in Nat \ {0} BY <1>1, TopFits
  <2>3. DOMAIN Top = Fields BY <2>2 DEF FrameOK
  <2> HIDE DEF next, both
  <2>4. /\ DOMAIN f = Fields
        /\ f.i = next /\ f.ok = Top.ok /\ f.node = Top.node
        /\ f.began = Top.began /\ f.branchBegan = requests
    BY <2>3 DEF Fields
  <2> HIDE DEF f
  <2>5. FrameOK(f, requests) BY <1>3, <2>2, <2>4 DEF FrameOK
  <2>6. Waits(f) /\ f.node = Node BY <1>1, <2>2, <2>4 DEF Waits, Composite, Node
  <2> QED BY <1>1, <1>2, <2>1, <2>4, <2>5, <2>6, CallPreserves
<1>8. CASE EndParallel
  <2>1. /\ Return(CheckWaitPolicy(Node.wait, Top.passed, Len(Node.children)),
                  Bind(Node.id, Merge(Top.entries, Top.merged)))
        /\ UNCHANGED requests
    BY <1>8 DEF EndParallel
  <2> QED BY <1>4, <1>5, <2>1
<1>9. CASE WalkBatch
  <2>1. PICK passed, writes :
            Return(CheckWaitPolicy(Node.wait, Cardinality(passed),
                                   Len(Node.children)), writes)
    BY <1>9 DEF WalkBatch
  <2>2. requests' \in requests..MaxRequests BY <1>9 DEF WalkBatch, Send
  <2>3. requests' \in Nat /\ requests <= requests' /\ requests' <= MaxRequests
    BY <1>3, <2>2, EngineAssumption
  <2>4. Node.type # "run" BY <1>1
  <2> DEFINE ok == CheckWaitPolicy(Node.wait, Cardinality(passed),
                                   Len(Node.children))
  <2>5. ok \in BOOLEAN BY <1>5
  <2>6. Return(ok, writes) BY <2>1
  <2> HIDE DEF ok
  <2> QED BY <1>1, <1>2, <2>3, <2>4, <2>5, <2>6, ReturnPreserves
<1> QED BY <1>6, <1>7, <1>8, <1>9

LEMMA RepeatPreserves ==
    ASSUME IInv,
           BeginRepeat \/ BeginCounted \/ RepeatThrows \/ Iterate \/ EndRepeat
    PROVE  IInv'
<1>1. stack # <<>> /\ Node.type = "repeat"
  BY DEF BeginRepeat, BeginCounted, RepeatThrows, Iterate, EndRepeat, Walking
<1>2. CASE BeginRepeat BY <1>1, <1>2, LimitPreserves DEF BeginRepeat
<1>3. CASE BeginCounted
  <2>1. CASE Throw BY <2>1, ThrowPreserves
  <2>2. CASE \E n \in EvalInt(Node.expr) : SetLimit(n)
    BY <1>1, <2>2, LimitPreserves
  <2> QED BY <1>3, <2>1, <2>2 DEF BeginCounted
<1>4. CASE RepeatThrows BY <1>4, ThrowPreserves DEF RepeatThrows
<1>5. CASE Iterate
  BY <1>1, <1>5, ChildPreserves DEF Iterate, GoesOn
<1>6. CASE EndRepeat
  <2>1. Return(Top.ok, Bind(Node.id, Top.entries)) /\ UNCHANGED requests
    BY <1>6 DEF EndRepeat
  <2>2. Top.ok \in BOOLEAN /\ (broken => ~Top.ok)
    BY <1>1, TopFits, Unbroken DEF FrameOK
  <2>3. requests \in Nat /\ requests <= MaxRequests BY <1>1, TopFits
  <2> QED BY <1>1, <2>1, <2>2, <2>3, ReturnPreserves
<1> QED BY <1>2, <1>3, <1>4, <1>5, <1>6

LEMMA BeginPreserves ==
    ASSUME IInv, BeginIteration
    PROVE  IInv'
<1> DEFINE f == [Frame(RunNode) EXCEPT !.i = 1]
           t == <<f, Frame(flow)>>
<1>1. requests \in Nat BY EngineAssumption DEF IInv
<1>2. FrameOK(Frame(RunNode), requests) /\ Frame(RunNode).ok
      /\ Frame(RunNode).node = RunNode /\ Frame(RunNode).began = requests
  BY <1>1, FrameFits
<1>3. RunNode.type = "run" /\ RunNode.type \in Composite
  BY DEF RunNode, Composite
<1>4. /\ FrameOK(f, requests) /\ Waits(f)
      /\ f.node = RunNode /\ f.began = requests
  BY <1>2, <1>3, NextFits
<1>5. /\ FrameOK(Frame(flow), requests) /\ LeafFresh(Frame(flow))
      /\ Frame(flow).began = requests
  BY <1>1, FrameFits DEF LeafFresh
<1>6. f.branchBegan <= Frame(flow).began BY <1>4, <1>5 DEF FrameOK
<1>7. stack' = t /\ ~broken' BY DEF BeginIteration
<1> HIDE DEF f
<1>8. /\ IsSequence(t)
      /\ Len(t) = 2 /\ t[1] = f /\ t[2] = Frame(flow)
  <2>1. t \in Seq({f, Frame(flow)}) OBVIOUS
  <2> QED BY <2>1 DEF IsSequence
<1> HIDE DEF t
<1>9. StackOK(t, RunNode, requests, FALSE)
  <2>1. \A k \in 1..2 : FrameOK(t[k], requests) BY <1>4, <1>5, <1>8
  <2>2. \A k \in 1..1 : Waits(t[k]) /\ t[k].branchBegan <= t[k + 1].began
    BY <1>4, <1>6, <1>8
  <2> QED BY <1>4, <1>5, <1>8, <2>1, <2>2 DEF StackOK
<1>10. RunNode' = RunNode BY DEF BeginIteration, RunNode
<1>11. StackOK(stack', RunNode', requests', broken')
  BY <1>7, <1>9, <1>10 DEF BeginIteration, StackOK
<1>12. iteration' \in 0..MaxIterations
  BY EngineAssumption DEF BeginIteration, IInv
<1>13. broken' \in BOOLEAN BY DEF BeginIteration
<1> QED BY <1>11, <1>12, <1>13 DEF BeginIteration, IInv

LEMMA OthersPreserve ==
    ASSUME IInv, Setup \/ SetupThrows \/ EndIteration \/ UnknownType
    PROVE  IInv'
<1>1. CASE Setup \/ SetupThrows
  <2>1. UNCHANGED <<flow, stack, iteration, requests, broken>> /\ phase = "setup"
        /\ phase' \in {"running", "aborted"}
    BY <1>1 DEF Setup, SetupThrows
  <2>2. stack = <<>> BY <2>1 DEF IInv
  <2>3. StackOK(stack', RunNode', requests', broken') BY <2>1, <2>2, EmptyOK
  <2> QED BY <2>1, <2>2, <2>3 DEF IInv
<1>2. CASE EndIteration \/ UnknownType
  BY <1>2, ThrowPreserves DEF EndIteration, UnknownType, Throw
<1> QED BY <1>1, <1>2

LEMMA NextPreserves ==
    ASSUME IInv, [Next]_vars
    PROVE  IInv'
<1>1. CASE UNCHANGED vars BY <1>1 DEF vars, IInv, RunNode, StackOK
<1>2. CASE Next
  BY <1>2, LeavesPreserve, HandOversPreserve, SequencePreserves,
     ParallelPreserves, RepeatPreserves, BeginPreserves, OthersPreserve
     DEF Next, WalkStep
<1> QED BY <1>1, <1>2

LEMMA InitFits == Init => IInv
<1> SUFFICES ASSUME Init PROVE IInv OBVIOUS
<1>1. StackOK(<<>>, RunNode, requests, broken) BY EmptyOK
<1>2. stack = <<>> BY DEF Init
<1>3. StackOK(stack, RunNode, requests, broken) BY <1>1, <1>2
<1>4. 0 \in 0..MaxIterations /\ 0 \in 0..MaxRequests BY EngineAssumption
<1> QED BY <1>2, <1>3, <1>4 DEF Init, IInv

\* The walk keeps the shape of its stack, for any family of flows.
THEOREM EngineInvariance == Spec => []IInv
<1>1. IInv /\ [Next]_vars => IInv' BY NextPreserves
<1> QED BY <1>1, InitFits, PTL DEF Spec

-----------------------------------------------------------------------------
\* What the runs check of the stack: walkers that wait are composites without a
\* failure, and a failure that no parallel can absorb is what the top returns.
THEOREM EngineCorrect == Spec => []EngineInv
<1>1. ASSUME IInv PROVE EngineInv
  <2>1. \A k \in 1..Len(stack) : FrameOK(stack[k], requests)
    BY <1>1 DEF IInv, StackOK
  <2>2. \A k \in 1..(Len(stack) - 1) :
            Waits(stack[k]) /\ stack[k].branchBegan <= stack[k + 1].began
    BY <1>1 DEF IInv, StackOK
  <2>3. stack # <<>> => phase = "running" /\ stack[1].node = RunNode
    BY <1>1 DEF IInv, StackOK
  <2>4. broken /\ stack # <<>> =>
            /\ ~Top.ok
            /\ \A k \in 1..Len(stack) : stack[k].node.type # "parallel"
    BY <1>1 DEF IInv, StackOK, Top
  <2> QED BY <1>1, <2>1, <2>2, <2>3, <2>4 DEF IInv, EngineInv, FrameOK, Waits
<1> QED BY <1>1, EngineInvariance, PTL

\* After a failure that no parallel can absorb, the iteration sends no request.
THEOREM FailureEndsIteration == Spec => NoRequestAfterFailure
<1>1. ASSUME IInv, [Next]_vars, broken, broken' PROVE requests' = requests
  <2>1. ~WalkRequest BY <1>1, Unbroken DEF WalkRequest, Walking
  <2>2. ~WalkBatch BY <1>1, Unbroken DEF WalkBatch, Walking
  <2>3. CASE UNCHANGED vars BY <2>3 DEF vars
  <2>4. CASE Next
    BY <2>1, <2>2, <2>4
       DEF Next, WalkStep, Setup, SetupThrows, BeginIteration, EndIteration,
           UnknownType, Throw, WalkDelay, FireOptional, SkipOptional, TakeThen,
           TakeElse, TakeNeither, HandOver, NextChild, EndSequence, SkipParallel,
           NextBranch, EndParallel, BeginRepeat, BeginCounted, SetLimit,
           RepeatThrows, Iterate, EndRepeat, Call
  <2> QED BY <1>1, <2>3, <2>4
<1>2. IInv /\ [Next]_vars => [broken /\ broken' => requests' = requests]_vars
  BY <1>1
<1> QED BY <1>2, EngineInvariance, PTL DEF Spec, NoRequestAfterFailure

-----------------------------------------------------------------------------
(* Least and greatest numbers stand in for induction.                       *)

\* A set of numbers has a least one.
LEMMA LeastNat ==
    ASSUME NEW T \in SUBSET Nat, T # {}
    PROVE  \E x \in T : \A y \in T : x <= y
<1>1. PICK x \in T : \A y \in T : ~(<<y, x>> \in OpToRel(<, Nat))
  BY NatLessThanWellFounded, WFMin
<1>2. \A y \in T : ~(y < x) BY <1>1 DEF OpToRel
<1> QED BY <1>2

\* So has one that is bounded a greatest.
LEMMA MaxIn ==
    ASSUME NEW n \in Nat, NEW T \in SUBSET (1..n), T # {}
    PROVE  Max(T) \in T
<1> DEFINE below == {n - x : x \in T}
<1>1. below \in SUBSET Nat /\ below # {}
  <2>1. \A x \in T : x \in 1..n /\ n - x \in Nat OBVIOUS
  <2> QED BY <2>1
<1> HIDE DEF below
<1>2. PICK d \in below : \A y \in below : d <= y BY <1>1, LeastNat
<1> USE DEF below
<1>3. PICK x \in T : d = n - x OBVIOUS
<1>4. \A y \in T : x >= y
  <2> SUFFICES ASSUME NEW y \in T PROVE x >= y OBVIOUS
  <2>1. n - y \in below BY DEF below
  <2>2. n - x <= n - y BY <1>2, <1>3, <2>1
  <2> QED BY <2>2
<1> QED BY <1>3, <1>4 DEF Max

\* Going down a path is what its definition says: step by step.
LEMMA DescendSteps ==
    ASSUME NEW entries, NEW path, Len(path) \in Nat
    PROVE  \E at : /\ at = [k \in 0..Len(path) |->
                                IF k = 0 THEN {entries} ELSE Field(at[k - 1], path[k])]
                   /\ Descend(entries, path) = at[Len(path)]
<1> DEFINE Walk(at, n) ==
              at = [k \in 0..n |-> IF k = 0 THEN {entries} ELSE Field(at[k - 1], path[k])]
           T == {n \in Nat : ~ \E at : Walk(at, n)}
<1>1. ASSUME NEW n \in Nat, NEW before, n > 0, Walk(before, n - 1)
      PROVE  \E at : Walk(at, n)
  <2> DEFINE at == [k \in 0..n |-> IF k = n THEN Field(before[n - 1], path[n]) ELSE before[k]]
  <2>1. \A k \in 0..(n - 1) : at[k] = before[k] BY <1>1
  <2>2. at[n] = Field(at[n - 1], path[n]) BY <1>1, <2>1
  <2>3. \A k \in 0..(n - 1) :
          before[k] = IF k = 0 THEN {entries} ELSE Field(before[k - 1], path[k])
    BY <1>1
  <2>4. \A k \in 0..n : at[k] = IF k = 0 THEN {entries} ELSE Field(at[k - 1], path[k])
    <3> SUFFICES ASSUME NEW k \in 0..n
                 PROVE at[k] = IF k = 0 THEN {entries} ELSE Field(at[k - 1], path[k])
      OBVIOUS
    <3>1. CASE k = n BY <1>1, <2>2, <3>1
    <3>2. CASE k # n /\ k = 0
      <4>1. k \in 0..(n - 1) BY <1>1, <3>2
      <4> QED BY <2>1, <2>3, <3>2, <4>1
    <3>3. CASE k # n /\ k # 0
      <4>1. k \in 0..(n - 1) /\ k - 1 \in 0..(n - 1) BY <1>1, <3>3
      <4> QED BY <2>1, <2>3, <3>3, <4>1
    <3> QED BY <3>1, <3>2, <3>3
  <2>5. at = [k \in 0..n |-> at[k]] OBVIOUS
  <2> HIDE DEF at
  <2>6. Walk(at, n) BY <2>4, <2>5
  <2> QED BY <2>6
<1>2. \E at : Walk(at, 0)
  <2>1. Walk([k \in 0..0 |-> {entries}], 0) OBVIOUS
  <2> QED BY <2>1
<1> HIDE DEF Walk
<1>3. T = {}
  <2> SUFFICES ASSUME T # {} PROVE FALSE OBVIOUS
  <2>1. T \in SUBSET Nat OBVIOUS
  <2> HIDE DEF T
  <2>2. PICK n \in T : \A m \in T : n <= m BY <2>1, LeastNat
  <2>3. n \in Nat /\ ~ \E at : Walk(at, n) BY <2>2 DEF T
  <2>4. n # 0 BY <1>2, <2>3
  <2>5. n - 1 \in Nat /\ n > 0 /\ ~(n <= n - 1) BY <2>3, <2>4
  <2>6. n - 1 \notin T BY <2>2, <2>5
  <2>7. PICK at : Walk(at, n - 1) BY <2>5, <2>6 DEF T
  <2> QED BY <1>1, <2>3, <2>5, <2>7
<1>4. \E at : Walk(at, Len(path)) BY <1>3
<1> DEFINE chosen == CHOOSE at : Walk(at, Len(path))
<1>5. Walk(chosen, Len(path)) BY <1>4
<1>6. Descend(entries, path) = chosen[Len(path)] BY DEF Descend, Walk
<1> HIDE DEF chosen
<1> QED BY <1>5, <1>6 DEF Walk

-----------------------------------------------------------------------------
(* Values.                                                                  *)

\* A set of values with all that can be reached in them by name, of which every
\* extract comes from a request in A.
Closed(V, A) ==
    \A u \in V :
        /\ \A x \in DOMAIN u \ {"by"} : u[x] \in V
        /\ "by" \in DOMAIN u => u.by \in A

\* Whatever a template can reach in v comes from a request in A.
From(v, A) == \E V : v \in V /\ Closed(V, A)

\* The entries of a scope.
Entries(e, A) ==
    /\ "by" \notin DOMAIN e
    /\ \A x \in DOMAIN e : From(e[x], A)

LEMMA EntriesFrom ==
    ASSUME NEW e, NEW A, Entries(e, A)
    PROVE  From(e, A)
<1> DEFINE W(x) == CHOOSE V : e[x] \in V /\ Closed(V, A)
           V == {e} \cup UNION {W(x) : x \in DOMAIN e}
<1>1. \A x \in DOMAIN e : e[x] \in W(x) /\ Closed(W(x), A) BY DEF Entries, From
<1> HIDE DEF W
<1>2. \A x \in DOMAIN e : e[x] \in V BY <1>1
<1>3. Closed(V, A)
  <2> SUFFICES ASSUME NEW u \in V
               PROVE  /\ \A x \in DOMAIN u \ {"by"} : u[x] \in V
                      /\ "by" \in DOMAIN u => u.by \in A
    BY DEF Closed
  <2>1. CASE u = e BY <1>2, <2>1 DEF Entries
  <2>2. CASE u # e
    <3>1. PICK y \in DOMAIN e : u \in W(y) BY <2>2
    <3>2. W(y) \subseteq V OBVIOUS
    <3> QED BY <1>1, <3>1, <3>2 DEF Closed
  <2> QED BY <2>1, <2>2
<1>4. e \in V OBVIOUS
<1> QED BY <1>3, <1>4 DEF From

LEMMA EmptyEntries ==
    ASSUME NEW A
    PROVE  Entries(Empty, A) /\ From(Empty, A)
<1>1. DOMAIN Empty = {} BY DEF Empty
<1>2. Entries(Empty, A) BY <1>1 DEF Entries
<1> QED BY <1>2, EntriesFrom

LEMMA MoreRequests ==
    ASSUME NEW A, NEW B, A \subseteq B
    PROVE  /\ \A v : From(v, A) => From(v, B)
           /\ \A e : Entries(e, A) => Entries(e, B)
<1>1. \A V : Closed(V, A) => Closed(V, B) BY DEF Closed
<1>2. \A v : From(v, A) => From(v, B) BY <1>1 DEF From
<1> QED BY <1>2 DEF Entries

LEMMA MergeDomain ==
    ASSUME NEW e, NEW d
    PROVE  DOMAIN Merge(e, d) = DOMAIN e \cup DOMAIN d
BY DEF Merge

LEMMA MergeEntries ==
    ASSUME NEW A, NEW e, NEW d, Entries(e, A), Entries(d, A)
    PROVE  Entries(Merge(e, d), A)
BY DEF Entries, Merge

LEMMA BindEntries ==
    ASSUME NEW A, NEW e, NEW id, id # "by", Entries(e, A)
    PROVE  /\ Entries(Bind(id, e), A)
           /\ id # None => id \in DOMAIN Bind(id, e)
<1>1. CASE id = None BY <1>1 DEF Bind
<1>2. CASE id # None
  <2> DEFINE b == [name \in {id} |-> e]
  <2>1. Bind(id, e) = b BY <1>2 DEF Bind
  <2>2. DOMAIN b = {id} /\ b[id] = e OBVIOUS
  <2> HIDE DEF b
  <2>3. Entries(b, A) BY <2>2, EntriesFrom DEF Entries
  <2> QED BY <2>1, <2>2, <2>3
<1> QED BY <1>1, <1>2

\* What one request leaves.
LEMMA ExtractEntries ==
    ASSUME NEW A, NEW node \in Vertex, NEW n \in A, NEW found \in BOOLEAN
    PROVE  /\ Entries(Extract(node, n, found), A)
           /\ node.id # None /\ node.extract # {} =>
                 node.id \in DOMAIN Extract(node, n, found)
<1> DEFINE value == IF found THEN [by |-> n] ELSE Empty
           keys == [key \in node.extract |-> value]
<1>1. node.id # "by" /\ "by" \notin node.extract BY VertexAssumption DEF NamesApart
<1>2. From([by |-> n], A)
  <2>1. Closed({[by |-> n]}, A) BY DEF Closed
  <2> QED BY <2>1 DEF From
<1>3. From(value, A) BY <1>2, EmptyEntries
<1>4. DOMAIN keys = node.extract /\ \A key \in node.extract : keys[key] = value
  OBVIOUS
<1>5. CASE node.id = None \/ node.extract = {}
  BY <1>5, EmptyEntries DEF Extract
<1>6. CASE node.id # None /\ node.extract # {}
  <2>1. Extract(node, n, found) = Bind(node.id, keys) BY <1>6 DEF Extract
  <2> HIDE DEF keys, value
  <2>2. Entries(keys, A) BY <1>1, <1>3, <1>4 DEF Entries
  <2> QED BY <1>1, <1>6, <2>1, <2>2, BindEntries
<1> QED BY <1>5, <1>6

\* What a batch leaves.
LEMMA BatchLeaves ==
    ASSUME NEW A, NEW branches \in Seq(Vertex), NEW n \in Nat, NEW found,
           \A j \in DOMAIN branches : n + j \in A
    PROVE  Entries(BatchEntries(branches, n, found), A)
<1> DEFINE left(j) == Extract(branches[j], n + j, j \in found)
           named == {j \in DOMAIN branches : left(j) # Empty}
           those(id) == {j \in named : branches[j].id = id}
           ids == {branches[j].id : j \in named}
           e == [id \in ids |-> left(Max(those(id)))[id]]
<1>1. \A j \in DOMAIN branches : branches[j] \in Vertex OBVIOUS
<1>2. \A j \in DOMAIN branches : (j \in found) \in BOOLEAN OBVIOUS
<1>3. \A j \in DOMAIN branches : Entries(left(j), A)
  BY <1>1, <1>2, ExtractEntries
<1>4. \A j \in named : branches[j].id \in DOMAIN left(j)
  <2> SUFFICES ASSUME NEW j \in DOMAIN branches, left(j) # Empty
               PROVE  branches[j].id \in DOMAIN left(j)
    OBVIOUS
  <2>1. branches[j].id # None /\ branches[j].extract # {} BY DEF Extract
  <2> QED BY <1>1, <1>2, <2>1, ExtractEntries
<1>5. BatchEntries(branches, n, found) = e BY DEF BatchEntries
<1>6. named \subseteq 1..Len(branches) /\ Len(branches) \in Nat OBVIOUS
<1> HIDE DEF named, left
<1>7. ASSUME NEW id \in ids
      PROVE  id # "by" /\ From(left(Max(those(id)))[id], A)
  <2>1. PICK i \in named : branches[i].id = id OBVIOUS
  <2>2. those(id) # {} /\ those(id) \in SUBSET (1..Len(branches)) BY <1>6, <2>1
  <2>3. Max(those(id)) \in those(id) BY <1>6, <2>2, MaxIn
  <2> DEFINE j == Max(those(id))
  <2>4. j \in named /\ branches[j].id = id BY <2>3
  <2> HIDE DEF j
  <2>5. j \in DOMAIN branches BY <1>6, <2>4
  <2>6. id \in DOMAIN left(j) BY <1>4, <2>4
  <2>7. From(left(j)[id], A) BY <1>3, <2>5, <2>6 DEF Entries
  <2>8. id # "by" BY <1>1, <2>4, <2>5, VertexAssumption DEF NamesApart
  <2> QED BY <2>7, <2>8 DEF j
<1> HIDE DEF ids, those
<1>8. DOMAIN e = ids /\ \A id \in ids : e[id] = left(Max(those(id)))[id] OBVIOUS
<1> HIDE DEF e
<1>9. Entries(e, A) BY <1>7, <1>8 DEF Entries
<1> QED BY <1>5, <1>9

\* A template that goes down a path finds nothing else.
LEMMA DescendFrom ==
    ASSUME NEW A, NEW e, From(e, A), NEW path \in Path, NEW v \in Descend(e, path)
    PROVE  "by" \in DOMAIN v => v.by \in A
<1>1. PICK V : e \in V /\ Closed(V, A) BY DEF From
<1>2. path \in Seq(ToSet(path) \ {"by"}) BY VertexAssumption DEF NamesApart
<1>3. Len(path) \in Nat /\ \A k \in 1..Len(path) : path[k] # "by"
  BY <1>2, LenProperties, ElementOfSeq
<1>4. PICK at :
        /\ at = [k \in 0..Len(path) |->
                   IF k = 0 THEN {e} ELSE Field(at[k - 1], path[k])]
        /\ Descend(e, path) = at[Len(path)]
  BY <1>3, DescendSteps
<1>5. \A k \in 0..Len(path) :
        at[k] = IF k = 0 THEN {e} ELSE Field(at[k - 1], path[k])
  BY <1>4
<1> DEFINE bad == {k \in 0..Len(path) : ~(at[k] \subseteq V)}
<1>6. bad = {}
  <2> SUFFICES ASSUME bad # {} PROVE FALSE OBVIOUS
  <2>1. bad \in SUBSET Nat OBVIOUS
  <2>2. PICK k \in bad : \A m \in bad : k <= m
    <3> HIDE DEF bad
    <3> QED BY <2>1, LeastNat
  <2>3. k # 0 BY <1>1, <1>5, <2>2
  <2>4. k - 1 \in 0..Len(path) /\ k \in 1..Len(path) /\ ~(k <= k - 1) BY <1>3, <2>3
  <2>5. at[k - 1] \subseteq V BY <2>2, <2>4
  <2>6. Field(at[k - 1], path[k]) \subseteq V
    BY <1>1, <1>3, <2>4, <2>5 DEF Field, Closed
  <2> QED BY <1>5, <2>2, <2>3, <2>6
<1>7. at[Len(path)] \subseteq V
  <2>1. Len(path) \in 0..Len(path) BY <1>3
  <2> QED BY <1>6, <2>1
<1>8. v \in V BY <1>4, <1>7
<1> QED BY <1>1, <1>8 DEF Closed

-----------------------------------------------------------------------------
(* What a frame knows of its children and of the requests its scope is from. *)

\* The entry of a child that has returned is there.
Keeps(f, child) ==
    Binds(child) => child.id \in DOMAIN f.entries \cup DOMAIN f.merged

\* The first n children have returned.
KeepsFirst(f, n) ==
    /\ f.node.type \in {"sequence", "parallel"} =>
          \A j \in 1..n : Keeps(f, f.node.children[j])
    /\ f.node.type = "repeat" /\ 1..n # {} => Keeps(f, f.node.child)

\* The child that is called last.
Called(f) == IF f.node.type = "repeat" THEN f.node.child ELSE f.node.children[f.i]

\* The scope has entries of the walker's own requests, of which the r-th is the
\* last.
Confined(f, r) ==
    /\ Entries(f.entries, (f.began + 1)..r)
    /\ Entries(f.merged, (f.began + 1)..r)

OnTop(f, root, r) ==
    /\ f.node \in Vertex \cup {root}
    /\ KeepsFirst(f, f.i)
    /\ Confined(f, r)

\* f waits for g, which is the child called, or what it has handed over to.  A
\* parallel that waits has an empty scope: its branch has not ended.
Above(f, g, root) ==
    /\ f.node \in Vertex \cup {root}
    /\ KeepsFirst(f, f.i - 1)
    /\ f.node.type \in {"sequence", "parallel", "repeat"} /\ Binds(Called(f)) =>
          g.node = Called(f)
    /\ Confined(f, g.began)
    /\ f.node.type = "parallel" => f.entries = Empty

Linked(s, root, r) ==
    /\ \A k \in 1..(Len(s) - 1) : Above(s[k], s[k + 1], root)
    /\ s # <<>> => OnTop(s[Len(s)], root, r)

WalkInv == IInv /\ Linked(stack, RunNode, requests)

LEMMA EmptyLinked ==
    ASSUME NEW root, NEW r
    PROVE  Linked(<<>>, root, r)
<1>1. Len(<<>>) = 0 BY EmptySeq
<1> QED BY <1>1 DEF Linked

LEMMA PushLinked ==
    ASSUME NEW s, IsSequence(s), s # <<>>, NEW root, NEW r, Linked(s, root, r),
           NEW f, f.node = s[Len(s)].node, f.began = s[Len(s)].began,
           NEW g, Above(f, g, root), OnTop(g, root, r)
    PROVE  Linked(Append([s EXCEPT ![Len(s)] = f], g), root, r)
<1> DEFINE n == Len(s)
           u == [s EXCEPT ![n] = f]
           t == Append(u, g)
<1>1. PICK S : s \in Seq(S) BY DEF IsSequence
<1>2. n \in Nat \ {0} BY NonEmpty
<1>3. s \in Seq(S \cup {f, g}) BY <1>1, SeqMonotonic
<1>4. /\ u \in Seq(S \cup {f, g})
      /\ Len(u) = n
      /\ \A j \in 1..n : u[j] = IF j = n THEN f ELSE s[j]
  BY <1>2, <1>3, ExceptSeq
<1> HIDE DEF u, n
<1>5. /\ Len(t) = n + 1
      /\ \A j \in 1..n : t[j] = u[j]
      /\ t[n + 1] = g
  BY <1>4, AppendProperties
<1> HIDE DEF t
<1>6. \A j \in 1..(n - 1) : t[j] = s[j] BY <1>2, <1>4, <1>5
<1>7. t[n] = f BY <1>2, <1>4, <1>5
<1>8. \A k \in 1..(Len(t) - 1) : Above(t[k], t[k + 1], root)
  <2> SUFFICES ASSUME NEW k \in 1..n PROVE Above(t[k], t[k + 1], root)
    BY <1>2, <1>5
  <2>1. CASE k = n BY <2>1, <1>5, <1>7
  <2>2. CASE k = n - 1
    <3>1. Above(s[k], s[k + 1], root) /\ k + 1 = n BY <2>2, <1>2 DEF Linked, n
    <3>2. t[k] = s[k] /\ t[k + 1] = f BY <2>2, <1>2, <1>6, <1>7
    <3> QED BY <3>1, <3>2 DEF Above, n
  <2>3. CASE k < n - 1
    <3>1. t[k] = s[k] /\ t[k + 1] = s[k + 1] BY <2>3, <1>2, <1>6
    <3> QED BY <3>1, <2>3, <1>2 DEF Linked, n
  <2> QED BY <2>1, <2>2, <2>3, <1>2
<1>9. Linked(t, root, r) BY <1>5, <1>8 DEF Linked
<1> QED BY <1>9 DEF t, u, n

LEMMA ReplaceLinked ==
    ASSUME NEW s, IsSequence(s), s # <<>>, NEW root, NEW r, NEW q, Linked(s, root, r),
           NEW f, OnTop(f, root, q),
           Len(s) > 1 => Above(s[Len(s) - 1], f, root)
    PROVE  Linked([s EXCEPT ![Len(s)] = f], root, q)
<1> DEFINE n == Len(s)
           t == [s EXCEPT ![n] = f]
<1>1. PICK S : s \in Seq(S) BY DEF IsSequence
<1>2. n \in Nat \ {0} BY NonEmpty
<1>3. s \in Seq(S \cup {f}) BY <1>1, SeqMonotonic
<1>4. /\ Len(t) = n
      /\ \A j \in 1..n : t[j] = IF j = n THEN f ELSE s[j]
  BY <1>2, <1>3, ExceptSeq
<1> HIDE DEF t, n
<1>5. \A k \in 1..(Len(t) - 1) : Above(t[k], t[k + 1], root)
  <2> SUFFICES ASSUME NEW k \in 1..(n - 1) PROVE Above(t[k], t[k + 1], root)
    BY <1>4
  <2>1. t[k] = s[k] /\ Above(s[k], s[k + 1], root) BY <1>2, <1>4 DEF Linked, n
  <2>2. CASE k + 1 = n
    <3>1. t[k + 1] = f /\ k = n - 1 /\ n > 1 BY <2>2, <1>2, <1>4
    <3> QED BY <3>1, <2>1 DEF n
  <2>3. CASE k + 1 # n
    <3>1. t[k + 1] = s[k + 1] BY <2>3, <1>2, <1>4
    <3> QED BY <3>1, <2>1
  <2> QED BY <2>2, <2>3
<1>6. t[Len(t)] = f BY <1>2, <1>4
<1>7. Linked(t, root, q) BY <1>5, <1>6 DEF Linked
<1> QED BY <1>7 DEF t, n

LEMMA PopLinked ==
    ASSUME NEW s, IsSequence(s), Len(s) > 1, NEW root, NEW r, NEW q, Linked(s, root, r),
           NEW f, OnTop(f, root, q),
           f.node = s[Len(s) - 1].node, f.began = s[Len(s) - 1].began
    PROVE  Linked([Front(s) EXCEPT ![Len(s) - 1] = f], root, q)
<1> DEFINE m == Len(s) - 1
           u == SubSeq(s, 1, m)
           t == [u EXCEPT ![m] = f]
<1>1. PICK S : s \in Seq(S) BY DEF IsSequence
<1>2. m \in Nat \ {0} /\ Len(s) = m + 1
  <2>1. Len(s) \in Nat BY <1>1, LenProperties
  <2>2. \A x \in Nat : x > 1 => x - 1 \in Nat \ {0} /\ x = (x - 1) + 1 OBVIOUS
  <2> QED BY <2>1, <2>2
<1> HIDE DEF m
<1>3. \A i \in 1..m : s[i] \in S \cup {f} BY <1>1, <1>2, ElementOfSeq
<1>4. /\ u \in Seq(S \cup {f})
      /\ Len(u) = m
      /\ \A i \in 1..m : u[i] = s[i]
  BY <1>2, <1>3, SubSeqProperties
<1>5. t = [Front(s) EXCEPT ![Len(s) - 1] = f] BY DEF Front, m
<1> HIDE DEF u
<1>6. Len(t) = m /\ \A i \in 1..m : t[i] = IF i = m THEN f ELSE u[i]
  BY <1>2, <1>4, ExceptSeq
<1> HIDE DEF t
<1>7. t[m] = f BY <1>2, <1>6
<1>8. \A i \in 1..(m - 1) : t[i] = s[i] BY <1>2, <1>4, <1>6
<1>9. \A k \in 1..(m - 1) : Above(t[k], t[k + 1], root)
  <2> SUFFICES ASSUME NEW k \in 1..(m - 1) PROVE Above(t[k], t[k + 1], root)
    OBVIOUS
  <2>1. t[k] = s[k] /\ Above(s[k], s[k + 1], root) BY <1>2, <1>8 DEF Linked
  <2>2. CASE k + 1 = m
    <3>1. t[k + 1] = f /\ f.node = s[k + 1].node /\ f.began = s[k + 1].began
      BY <2>2, <1>7 DEF m
    <3> QED BY <3>1, <2>1 DEF Above
  <2>3. CASE k + 1 # m
    <3>1. t[k + 1] = s[k + 1] BY <2>3, <1>2, <1>8
    <3> QED BY <3>1, <2>1
  <2> QED BY <2>2, <2>3
<1>10. Linked(t, root, q) BY <1>6, <1>7, <1>9 DEF Linked
<1> QED BY <1>5, <1>10

\* A walker that has just been called has an empty scope.
LEMMA FrameOnTop ==
    ASSUME NEW n \in Vertex, NEW root, NEW r
    PROVE  OnTop(Frame(n), root, r)
<1>1. /\ Frame(n).node = n /\ Frame(n).i = 0
      /\ Frame(n).entries = Empty /\ Frame(n).merged = Empty
  BY DEF Frame
<1>2. 1..0 = {} OBVIOUS
<1>3. KeepsFirst(Frame(n), 0) BY <1>2 DEF KeepsFirst
<1> QED BY <1>1, <1>3, EmptyEntries DEF OnTop, Confined

\* The scope of a walker that waits may get what later requests leave.
LEMMA ConfinedLater ==
    ASSUME NEW f, f.began \in Nat, NEW r \in Nat, NEW q \in Nat, r <= q, Confined(f, r)
    PROVE  Confined(f, q)
<1>1. (f.began + 1)..r \subseteq (f.began + 1)..q OBVIOUS
<1> QED BY <1>1, MoreRequests DEF Confined

\* What a walker leaves in its caller's scope stands for it there.
LEMMA CallerOnTop ==
    ASSUME NEW c, NEW g, NEW root, NEW r \in Nat, FrameOK(c, r), c.i > 0,
           FrameOK(g, r), c.branchBegan <= g.began, Above(c, g, root),
           NEW q \in Nat, r <= q,
           NEW writes, Entries(writes, (g.began + 1)..q),
           Binds(g.node) => g.node.id \in DOMAIN writes,
           NEW f, f.node = c.node, f.i = c.i, f.began = c.began,
           f.merged = c.merged, f.entries = Merge(writes, c.entries)
    PROVE  OnTop(f, root, q)
<1>1. /\ c.began \in Nat /\ g.began \in Nat /\ c.i \in Nat
      /\ c.began <= g.began /\ g.began <= q
  BY DEF FrameOK
<1>2. Confined(f, q)
  <2>1. (g.began + 1)..q \subseteq (c.began + 1)..q BY <1>1
  <2>2. Entries(writes, (c.began + 1)..q) BY <2>1, MoreRequests
  <2>3. Confined(c, q) BY <1>1, ConfinedLater DEF Above
  <2> QED BY <2>2, <2>3, MergeEntries DEF Confined
<1>3. DOMAIN f.entries = DOMAIN writes \cup DOMAIN c.entries BY MergeDomain
<1>4. \A child : Keeps(c, child) => Keeps(f, child) BY <1>3 DEF Keeps
<1>5. c.node.type \in {"sequence", "parallel", "repeat"} => Keeps(f, Called(c))
  BY <1>3 DEF Above, Keeps
<1>6. f.node.type \in {"sequence", "parallel"} =>
        \A j \in 1..f.i : Keeps(f, f.node.children[j])
  <2> SUFFICES ASSUME c.node.type \in {"sequence", "parallel"}, NEW j \in 1..c.i
               PROVE  Keeps(f, c.node.children[j])
    OBVIOUS
  <2>1. CASE j = c.i BY <1>5, <2>1 DEF Called
  <2>2. CASE j # c.i
    <3>1. j \in 1..(c.i - 1) BY <1>1, <2>2
    <3> QED BY <1>4, <3>1 DEF Above, KeepsFirst
  <2> QED BY <2>1, <2>2
<1>7. f.node.type = "repeat" => Keeps(f, f.node.child) BY <1>5 DEF Called
<1> QED BY <1>2, <1>6, <1>7 DEF OnTop, KeepsFirst, Above

\* A waiting caller and the walker on top, in the stack of the engine.
LEMMA CallerBelow ==
    ASSUME WalkInv, stack # <<>>, Node.type # "run"
    PROVE  /\ Len(stack) \in Nat /\ Len(stack) > 1
           /\ requests \in Nat
           /\ FrameOK(Top, requests)
           /\ Node \in Vertex
           /\ LET c == stack[Len(stack) - 1]
              IN  /\ FrameOK(c, requests) /\ c.i > 0
                  /\ c.branchBegan <= Top.began
                  /\ Above(c, Top, RunNode)
<1> DEFINE n == Len(stack)
<1>1. n \in Nat /\ n > 1 BY NotAlone DEF WalkInv
<1>2. requests \in Nat /\ FrameOK(Top, requests) BY TopFits DEF WalkInv
<1>3. Node \in Vertex
  BY DEF WalkInv, Linked, OnTop, Top, Node, RunNode
<1>4. n - 1 \in 1..(n - 1) /\ n - 1 \in 1..n /\ (n - 1) + 1 = n BY <1>1
<1> HIDE DEF n
<1>5. FrameOK(stack[n - 1], requests) BY <1>4 DEF WalkInv, IInv, StackOK, n
<1>6. Waits(stack[n - 1]) /\ stack[n - 1].branchBegan <= stack[(n - 1) + 1].began
  BY <1>4 DEF WalkInv, IInv, StackOK, n
<1>7. Above(stack[n - 1], stack[(n - 1) + 1], RunNode)
  BY <1>4 DEF WalkInv, Linked, n
<1>8. stack[(n - 1) + 1] = Top BY <1>4 DEF Top, n
<1> QED BY <1>1, <1>2, <1>3, <1>5, <1>6, <1>7, <1>8 DEF n, Waits

LEMMA ReturnLinks ==
    ASSUME WalkInv, stack # <<>>, Node.type # "run",
           NEW ok, NEW writes, Return(ok, writes),
           requests' \in Nat, requests <= requests',
           Entries(writes, (Top.began + 1)..requests'),
           Binds(Node) => Node.id \in DOMAIN writes
    PROVE  Linked(stack', RunNode', requests')
<1> DEFINE m == Len(stack) - 1
           caller == stack[m]
           f == [caller EXCEPT !.entries = Merge(writes, @),
                               !.ok = ok,
                               !.passed = IF ok THEN @ + 1 ELSE @]
<1>1. /\ Len(stack) > 1
      /\ requests \in Nat
      /\ FrameOK(caller, requests) /\ caller.i > 0
      /\ FrameOK(Top, requests)
      /\ caller.branchBegan <= Top.began
      /\ Above(caller, Top, RunNode)
  BY CallerBelow
<1>2. /\ f.node = caller.node /\ f.i = caller.i /\ f.began = caller.began
      /\ f.merged = caller.merged /\ f.entries = Merge(writes, caller.entries)
  BY <1>1 DEF FrameOK, Fields
<1>3. stack' = [Front(stack) EXCEPT ![m] = f] BY DEF Return
<1> HIDE DEF f
<1>4. OnTop(f, RunNode, requests') BY <1>1, <1>2, CallerOnTop DEF Node
<1>5. IsSequence(stack) /\ Linked(stack, RunNode, requests)
  BY DEF WalkInv, IInv, StackOK
<1>6. Linked(stack', RunNode, requests')
  BY <1>1, <1>2, <1>3, <1>4, <1>5, PopLinked
<1>7. RunNode' = RunNode BY DEF Return, RunNode
<1> QED BY <1>6, <1>7

LEMMA CallLinks ==
    ASSUME WalkInv, stack # <<>>, NEW f, NEW child \in Vertex \cup {None},
           Call(f, child), f.node = Node, f.began = Top.began,
           child = Called(f), KeepsFirst(f, f.i - 1), Confined(f, requests),
           Node.type = "parallel" => f.entries = Empty
    PROVE  Linked(stack', RunNode', requests')
<1>1. RunNode' = RunNode /\ requests' = requests BY DEF Call, RunNode
<1>2. CASE child = None BY <1>1, <1>2, EmptyLinked DEF Call
<1>3. CASE child # None
  <2> DEFINE g == Frame(child)
  <2>1. g.node = child /\ g.began = requests BY DEF Frame
  <2>2. stack' = Append([stack EXCEPT ![Len(stack)] = f], g) BY <1>3 DEF Call
  <2>3. OnTop(g, RunNode, requests) BY <1>3, FrameOnTop
  <2> HIDE DEF g
  <2>4. Node \in Vertex \cup {RunNode} BY DEF WalkInv, Linked, OnTop, Top, Node
  <2>5. Above(f, g, RunNode) BY <2>1, <2>4 DEF Above
  <2>6. IsSequence(stack) /\ Linked(stack, RunNode, requests)
    BY DEF WalkInv, IInv, StackOK
  <2>7. Linked(stack', RunNode, requests)
    BY <2>2, <2>3, <2>5, <2>6, PushLinked DEF Top, Node
  <2> QED BY <1>1, <2>7
<1> QED BY <1>2, <1>3

LEMMA HandOverLinks ==
    ASSUME WalkInv, stack # <<>>, Node.type \in {"optional", "if"},
           NEW child \in Vertex \cup {None}, HandOver(child)
    PROVE  Linked(stack', RunNode', requests')
<1>1. RunNode' = RunNode /\ requests' = requests BY DEF HandOver, RunNode
<1>2. CASE child = None BY <1>1, <1>2, EmptyLinked DEF HandOver
<1>3. CASE child # None
  <2> DEFINE g == Frame(child)
             c == stack[Len(stack) - 1]
  <2>1. g.node = child /\ g.began = requests BY DEF Frame
  <2>2. stack' = [stack EXCEPT ![Len(stack)] = g] BY <1>3 DEF HandOver
  <2>3. OnTop(g, RunNode, requests) BY <1>3, FrameOnTop
  <2> HIDE DEF g
  <2>4. /\ requests \in Nat /\ Top.began \in Nat /\ Top.began <= requests
        /\ c.began \in Nat
        /\ Above(c, Top, RunNode)
    BY CallerBelow DEF FrameOK
  <2> HIDE DEF c
  <2>5. ~Binds(Node) BY DEF Binds
  <2>6. Confined(c, g.began) BY <2>1, <2>4, ConfinedLater DEF Above
  <2>7. Above(c, g, RunNode) BY <2>4, <2>5, <2>6 DEF Above, Node
  <2>8. IsSequence(stack) /\ Linked(stack, RunNode, requests)
    BY DEF WalkInv, IInv, StackOK
  <2>9. Linked(stack', RunNode, requests)
    BY <2>2, <2>3, <2>7, <2>8, ReplaceLinked DEF c
  <2> QED BY <1>1, <2>9
<1> QED BY <1>2, <1>3

LEMMA LimitLinks ==
    ASSUME WalkInv, stack # <<>>, Node.type # "run", NEW n, SetLimit(n)
    PROVE  Linked(stack', RunNode', requests')
<1> DEFINE f == [Top EXCEPT !.limit = n]
           c == stack[Len(stack) - 1]
<1>1. /\ FrameOK(Top, requests) /\ Above(c, Top, RunNode)
      /\ OnTop(Top, RunNode, requests)
  BY CallerBelow DEF WalkInv, Linked, Top
<1>2. /\ f.node = Top.node /\ f.i = Top.i /\ f.began = Top.began
      /\ f.entries = Top.entries /\ f.merged = Top.merged
  BY <1>1 DEF FrameOK, Fields
<1>3. stack' = [stack EXCEPT ![Len(stack)] = f] BY DEF SetLimit
<1> HIDE DEF f, c
<1>4. OnTop(f, RunNode, requests)
  BY <1>1, <1>2 DEF OnTop, KeepsFirst, Keeps, Confined
<1>5. Above(c, f, RunNode) BY <1>1, <1>2 DEF Above
<1>6. IsSequence(stack) /\ Linked(stack, RunNode, requests)
  BY DEF WalkInv, IInv, StackOK
<1>7. Linked(stack', RunNode, requests)
  BY <1>3, <1>4, <1>5, <1>6, ReplaceLinked DEF c
<1>8. RunNode' = RunNode /\ requests' = requests BY DEF SetLimit, RunNode
<1> QED BY <1>7, <1>8

\* A walker that leaves nothing.
LEMMA NothingLinks ==
    ASSUME WalkInv, stack # <<>>, Node.type # "run", ~Binds(Node),
           NEW ok, Return(ok, Empty), UNCHANGED requests
    PROVE  Linked(stack', RunNode', requests')
<1>1. requests \in Nat BY CallerBelow
<1>2. Entries(Empty, (Top.began + 1)..requests') BY EmptyEntries
<1> QED BY <1>1, <1>2, ReturnLinks

\* A walker that leaves its entries under its node's id.
LEMMA BindLinks ==
    ASSUME WalkInv, stack # <<>>, Node.type # "run",
           NEW ok, NEW e, Return(ok, Bind(Node.id, e)),
           requests' \in Nat, requests <= requests',
           Entries(e, (Top.began + 1)..requests')
    PROVE  Linked(stack', RunNode', requests')
<1>1. Node.id # "by" BY CallerBelow, VertexAssumption DEF NamesApart
<1>2. /\ Entries(Bind(Node.id, e), (Top.began + 1)..requests')
      /\ Node.id # None => Node.id \in DOMAIN Bind(Node.id, e)
  BY <1>1, BindEntries
<1>3. Binds(Node) => Node.id # None BY DEF Binds
<1> QED BY <1>2, <1>3, ReturnLinks

\* One more child in the same scope.
LEMMA ChildLinks ==
    ASSUME WalkInv, stack # <<>>, Node.type \in {"sequence", "repeat"},
           NEW child \in Vertex \cup {None},
           Call([Top EXCEPT !.i = Top.i + 1], child),
           Node.type = "sequence" => child = Node.children[Top.i + 1],
           Node.type = "repeat" => child = Node.child
    PROVE  Linked(stack', RunNode', requests')
<1> DEFINE f == [Top EXCEPT !.i = Top.i + 1]
<1>1. FrameOK(Top, requests) /\ OnTop(Top, RunNode, requests)
  BY TopFits DEF WalkInv, Linked, Top
<1>2. /\ f.node = Top.node /\ f.i = Top.i + 1 /\ f.began = Top.began
      /\ f.entries = Top.entries /\ f.merged = Top.merged
  BY <1>1 DEF FrameOK, Fields
<1>3. Call(f, child) OBVIOUS
<1> HIDE DEF f
<1>4. f.i - 1 = Top.i BY <1>1, <1>2 DEF FrameOK
<1>5. KeepsFirst(f, f.i - 1)
  BY <1>1, <1>2, <1>4 DEF OnTop, KeepsFirst, Keeps
<1>6. Confined(f, requests) BY <1>1, <1>2 DEF OnTop, Confined
<1>7. child = Called(f) BY <1>2 DEF Called, Node
<1> QED BY <1>2, <1>3, <1>5, <1>6, <1>7, CallLinks DEF Node

LEMMA LeavesLink ==
    ASSUME WalkInv, WalkDelay \/ WalkRequest \/ SkipOptional \/ TakeNeither
    PROVE  Linked(stack', RunNode', requests')
<1>1. CASE WalkDelay \/ SkipOptional \/ TakeNeither
  <2>1. /\ stack # <<>> /\ Node.type \in {"delay", "optional", "if"}
        /\ Return(TRUE, Empty)
        /\ UNCHANGED requests
    BY <1>1 DEF WalkDelay, SkipOptional, TakeNeither, Walking
  <2>2. ~Binds(Node) BY <2>1 DEF Binds
  <2> QED BY <2>1, <2>2, NothingLinks
<1>2. CASE WalkRequest
  <2>1. stack # <<>> /\ Node.type = "request" BY <1>2 DEF WalkRequest, Walking
  <2>2. Node \in Vertex /\ requests \in Nat /\ FrameOK(Top, requests)
    BY <2>1, CallerBelow
  <2>3. requests' = requests + 1 BY <1>2 DEF WalkRequest, Send
  <2>4. requests' \in (Top.began + 1)..requests' /\ requests' \in Nat
        /\ requests <= requests'
    BY <2>2, <2>3 DEF FrameOK
  <2>5. PICK ok \in BOOLEAN, found \in BOOLEAN :
            Return(ok, Extract(Node, requests', found))
    BY <1>2 DEF WalkRequest
  <2> DEFINE writes == Extract(Node, requests', found)
             A == (Top.began + 1)..requests'
  <2>6. requests' \in A BY <2>4
  <2> HIDE DEF A
  <2>7. /\ Entries(writes, A)
        /\ Node.id # None /\ Node.extract # {} => Node.id \in DOMAIN writes
    BY <2>2, <2>6, ExtractEntries
  <2>8. Binds(Node) => Node.id \in DOMAIN writes BY <2>1, <2>7 DEF Binds
  <2>9. Return(ok, writes) BY <2>5
  <2> HIDE DEF writes
  <2> QED BY <2>1, <2>4, <2>7, <2>8, <2>9, ReturnLinks DEF A
<1> QED BY <1>1, <1>2

LEMMA HandOversLink ==
    ASSUME WalkInv, FireOptional \/ TakeThen \/ TakeElse
    PROVE  Linked(stack', RunNode', requests')
<1>1. stack # <<>> /\ Node.type \in {"optional", "if"}
  BY DEF FireOptional, TakeThen, TakeElse, Walking
<1>2. {Node.child, Node.then, Node.else} \subseteq Vertex \cup {None}
  BY <1>1, CallerBelow, VertexAssumption DEF Documents
<1>3. PICK child \in {Node.child, Node.then, Node.else} : HandOver(child)
  BY DEF FireOptional, TakeThen, TakeElse
<1> QED BY <1>1, <1>2, <1>3, HandOverLinks

LEMMA SequenceLinks ==
    ASSUME WalkInv, NextChild \/ EndSequence
    PROVE  Linked(stack', RunNode', requests')
<1>1. stack # <<>> /\ Node.type = "sequence" BY DEF NextChild, EndSequence, Walking
<1>2. /\ Node \in Vertex /\ requests \in Nat /\ FrameOK(Top, requests)
      /\ OnTop(Top, RunNode, requests)
  BY <1>1, CallerBelow DEF WalkInv, Linked, Top
<1>3. Node.children \in Seq(Vertex) BY <1>2, VertexAssumption DEF Documents
<1>4. CASE NextChild
  <2>1. Top.i + 1 \in 1..Len(Node.children)
    BY <1>2, <1>3, <1>4 DEF NextChild, FrameOK
  <2>2. Node.children[Top.i + 1] \in Vertex BY <1>3, <2>1
  <2> QED BY <1>1, <1>4, <2>2, ChildLinks DEF NextChild
<1>5. CASE EndSequence
  <2>1. /\ Return(Top.ok, Bind(Node.id, Top.entries))
        /\ requests' = requests
    BY <1>5 DEF EndSequence
  <2>2. Entries(Top.entries, (Top.began + 1)..requests')
    BY <1>2, <2>1 DEF OnTop, Confined
  <2> QED BY <1>1, <1>2, <2>1, <2>2, BindLinks
<1> QED BY <1>4, <1>5

LEMMA ParallelLinks ==
    ASSUME WalkInv, SkipParallel \/ NextBranch \/ EndParallel \/ WalkBatch
    PROVE  Linked(stack', RunNode', requests')
<1>1. stack # <<>> /\ Node.type = "parallel"
  BY DEF SkipParallel, NextBranch, EndParallel, WalkBatch, Walking
<1>2. /\ Node \in Vertex /\ requests \in Nat /\ FrameOK(Top, requests)
      /\ OnTop(Top, RunNode, requests)
  BY <1>1, CallerBelow DEF WalkInv, Linked, Top
<1>3. Node.children \in Seq(Vertex) BY <1>2, VertexAssumption DEF Documents
<1> DEFINE both == Merge(Top.entries, Top.merged)
<1>4. /\ Entries(both, (Top.began + 1)..requests)
      /\ DOMAIN both = DOMAIN Top.entries \cup DOMAIN Top.merged
  BY <1>2, MergeEntries, MergeDomain DEF OnTop, Confined
<1> HIDE DEF both
<1>5. CASE SkipParallel
  <2>1. Return(TRUE, Empty) /\ UNCHANGED requests /\ Node.children = <<>>
    BY <1>5 DEF SkipParallel
  <2>2. ~Binds(Node) BY <1>1, <2>1 DEF Binds
  <2> QED BY <1>1, <2>1, <2>2, NothingLinks
<1>6. CASE NextBranch
  <2> DEFINE next == Top.i + 1
             f == [Top EXCEPT !.i = next, !.merged = both,
                              !.entries = Empty, !.branchBegan = requests]
  <2>1. Call(f, Node.children[next]) BY <1>6 DEF NextBranch, both
  <2>2. next \in 1..Len(Node.children) /\ next - 1 = Top.i
    BY <1>2, <1>3, <1>6 DEF NextBranch, FrameOK
  <2>3. Node.children[next] \in Vertex \cup {None} BY <1>3, <2>2
  <2>4. DOMAIN Top = Fields BY <1>2 DEF FrameOK
  <2> HIDE DEF next
  <2>5. /\ f.i = next /\ f.node = Top.node /\ f.began = Top.began
        /\ f.entries = Empty /\ f.merged = both
    BY <2>4 DEF Fields
  <2> HIDE DEF f
  <2>6. \A child : Keeps(Top, child) => Keeps(f, child)
    BY <1>4, <2>5 DEF Keeps
  <2>7. KeepsFirst(f, f.i - 1)
    BY <1>2, <2>2, <2>5, <2>6 DEF OnTop, KeepsFirst
  <2>8. Confined(f, requests) BY <1>4, <2>5, EmptyEntries DEF Confined
  <2>9. Node.children[next] = Called(f) BY <1>1, <2>5 DEF Called, Node
  <2> QED BY <1>1, <2>1, <2>3, <2>5, <2>7, <2>8, <2>9, CallLinks DEF Node
<1>7. CASE EndParallel
  <2>1. PICK ok : Return(ok, Bind(Node.id, both))
    BY <1>7 DEF EndParallel, both
  <2>2. requests' = requests BY <1>7 DEF EndParallel
  <2> QED BY <1>1, <1>2, <1>4, <2>1, <2>2, BindLinks
<1>8. CASE WalkBatch
  <2> DEFINE left(found) == BatchEntries(Node.children, requests, found)
  <2>1. PICK ok, found : Return(ok, Bind(Node.id, left(found)))
    BY <1>8 DEF WalkBatch
  <2>2. requests' = requests + Len(Node.children)
    BY <1>8 DEF WalkBatch, Send
  <2>3. Len(Node.children) \in Nat /\ DOMAIN Node.children = 1..Len(Node.children)
    BY <1>3
  <2> DEFINE A == (Top.began + 1)..requests'
  <2>4. \A j \in DOMAIN Node.children : requests + j \in A
    BY <1>2, <2>2, <2>3 DEF FrameOK
  <2> HIDE DEF A
  <2>5. Entries(left(found), A) BY <1>2, <1>3, <2>4, BatchLeaves
  <2>6. requests' \in Nat /\ requests <= requests' BY <1>2, <2>2, <2>3
  <2> HIDE DEF left
  <2> QED BY <1>1, <2>1, <2>5, <2>6, BindLinks DEF A
<1> QED BY <1>5, <1>6, <1>7, <1>8

LEMMA RepeatLinks ==
    ASSUME WalkInv,
           BeginRepeat \/ BeginCounted \/ RepeatThrows \/ Iterate \/ EndRepeat
    PROVE  Linked(stack', RunNode', requests')
<1>1. stack # <<>> /\ Node.type = "repeat"
  BY DEF BeginRepeat, BeginCounted, RepeatThrows, Iterate, EndRepeat, Walking
<1>2. /\ Node \in Vertex /\ requests \in Nat
      /\ OnTop(Top, RunNode, requests)
  BY <1>1, CallerBelow DEF WalkInv, Linked, Top
<1>3. ASSUME Throw PROVE Linked(stack', RunNode', requests')
  BY <1>3, EmptyLinked DEF Throw
<1>4. CASE BeginRepeat BY <1>1, <1>4, LimitLinks DEF BeginRepeat
<1>5. CASE BeginCounted
  <2>1. CASE \E n \in EvalInt(Node.expr) : SetLimit(n) BY <1>1, <2>1, LimitLinks
  <2> QED BY <1>3, <1>5, <2>1 DEF BeginCounted
<1>6. CASE RepeatThrows BY <1>3, <1>6 DEF RepeatThrows
<1>7. CASE Iterate
  <2>1. Node.child \in Vertex \cup {None} BY <1>2, VertexAssumption DEF Documents
  <2> QED BY <1>1, <1>7, <2>1, ChildLinks DEF Iterate
<1>8. CASE EndRepeat
  <2>1. /\ Return(Top.ok, Bind(Node.id, Top.entries))
        /\ requests' = requests
    BY <1>8 DEF EndRepeat
  <2>2. Entries(Top.entries, (Top.began + 1)..requests')
    BY <1>2, <2>1 DEF OnTop, Confined
  <2> QED BY <1>1, <1>2, <2>1, <2>2, BindLinks
<1> QED BY <1>4, <1>5, <1>6, <1>7, <1>8

LEMMA BeginLinks ==
    ASSUME WalkInv, BeginIteration
    PROVE  Linked(stack', RunNode', requests')
<1> DEFINE f == [Frame(RunNode) EXCEPT !.i = 1]
           g == Frame(flow)
           t == <<f, g>>
<1>1. /\ f.node = RunNode /\ f.i = 1 /\ f.entries = Empty /\ f.merged = Empty
      /\ g.began = requests
  BY DEF Frame
<1>2. flow \in Vertex BY VertexAssumption DEF Documents, WalkInv, IInv
<1>3. OnTop(g, RunNode, requests) BY <1>2, FrameOnTop
<1>4. stack' = t BY DEF BeginIteration
<1>5. Len(t) = 2 /\ t[1] = f /\ t[2] = g /\ t # <<>> OBVIOUS
<1> HIDE DEF f, g, t
<1>6. RunNode.type = "run" BY DEF RunNode
<1>7. KeepsFirst(f, f.i - 1) BY <1>1, <1>6 DEF KeepsFirst
<1>8. Confined(f, g.began) BY <1>1, EmptyEntries DEF Confined
<1>9. Above(f, g, RunNode) BY <1>1, <1>6, <1>7, <1>8 DEF Above
<1>10. Linked(t, RunNode, requests)
  <2>1. 1..(Len(t) - 1) = {1} BY <1>5
  <2> QED BY <1>3, <1>5, <1>9, <2>1 DEF Linked
<1>11. RunNode' = RunNode /\ requests' = requests BY DEF BeginIteration, RunNode
<1> QED BY <1>4, <1>10, <1>11

LEMMA OthersLink ==
    ASSUME WalkInv, Setup \/ SetupThrows \/ EndIteration \/ UnknownType
    PROVE  Linked(stack', RunNode', requests')
<1>1. CASE Setup \/ SetupThrows
  BY <1>1 DEF Setup, SetupThrows, WalkInv, RunNode
<1>2. CASE EndIteration \/ UnknownType
  BY <1>2, EmptyLinked DEF EndIteration, UnknownType, Throw
<1> QED BY <1>1, <1>2

\* Every frame keeps what its children left, and no scope holds anything else.
THEOREM WalkInvariance == Spec => []WalkInv
<1>1. Init => WalkInv
  BY InitFits, EmptyLinked DEF Init, WalkInv
<1>2. ASSUME WalkInv, [Next]_vars PROVE WalkInv'
  <2>1. IInv' BY <1>2, NextPreserves DEF WalkInv
  <2>2. CASE UNCHANGED vars BY <1>2, <2>1, <2>2 DEF vars, WalkInv, RunNode
  <2>3. CASE Next
    BY <1>2, <2>1, <2>3, LeavesLink, HandOversLink, SequenceLinks, ParallelLinks,
       RepeatLinks, BeginLinks, OthersLink DEF Next, WalkStep, WalkInv
  <2> QED BY <1>2, <2>2, <2>3
<1> QED BY <1>1, <1>2, PTL DEF Spec

-----------------------------------------------------------------------------
\* What a child left can be read by every later sibling and iteration, and is
\* there for as long as its parent runs, for any family of flows.
THEOREM EarlierCorrect == Spec => []EarlierVisible
<1>1. ASSUME WalkInv PROVE EarlierVisible
  <2> SUFFICES ASSUME NEW k \in 1..Len(stack)
               PROVE  /\ stack[k].node.type \in {"sequence", "parallel"} =>
                            \A j \in Returned(k) :
                               Binds(stack[k].node.children[j]) =>
                                  stack[k].node.children[j].id \in
                                     DOMAIN Merge(stack[k].entries, stack[k].merged)
                      /\ stack[k].node.type = "repeat" /\ Returned(k) # {} =>
                            (Binds(stack[k].node.child) =>
                                stack[k].node.child.id \in
                                   DOMAIN Merge(stack[k].entries, stack[k].merged))
    BY Zenon DEF EarlierVisible
  <2> DEFINE n == IF k = Len(stack) THEN stack[k].i ELSE stack[k].i - 1
  <2>1. Returned(k) = 1..n BY DEF Returned
  <2>2. KeepsFirst(stack[k], n)
    <3>1. CASE k = Len(stack)
      <4>1. stack # <<>> BY <3>1, EmptySeq
      <4> QED BY <1>1, <3>1, <4>1 DEF WalkInv, Linked, OnTop
    <3>2. CASE k # Len(stack)
      <4>1. stack # <<>> BY EmptySeq
      <4>2. Len(stack) \in Nat BY <1>1, <4>1, NonEmpty DEF WalkInv, IInv, StackOK
      <4>3. k \in 1..(Len(stack) - 1) BY <3>2, <4>2
      <4> QED BY <1>1, <3>2, <4>3 DEF WalkInv, Linked, Above
    <3> QED BY <3>1, <3>2
  <2> HIDE DEF n
  <2> QED BY <2>1, <2>2, MergeDomain DEF KeepsFirst, Keeps
<1> QED BY <1>1, WalkInvariance, PTL

\* A walker lower in the stack has sent nothing since the branch it waits for
\* began, whatever lies between it and a higher one.
LEMMA Chain ==
    ASSUME NEW s, NEW root, NEW r \in Nat, NEW b, StackOK(s, root, r, b),
           Len(s) \in Nat, NEW i \in 1..Len(s), NEW j \in 1..Len(s), i < j
    PROVE  s[i].branchBegan <= s[j].began
<1>1. \A k \in 1..Len(s) :
        /\ s[k].began \in Nat /\ s[k].branchBegan \in Nat
        /\ s[k].began <= s[k].branchBegan
  BY DEF StackOK, FrameOK
<1>2. \A k \in 1..(Len(s) - 1) : s[k].branchBegan <= s[k + 1].began BY DEF StackOK
<1> DEFINE bad == {k \in 1..Len(s) : i < k /\ ~(s[i].branchBegan <= s[k].began)}
<1>3. bad = {}
  <2> SUFFICES ASSUME bad # {} PROVE FALSE OBVIOUS
  <2>1. bad \in SUBSET Nat OBVIOUS
  <2>2. PICK k \in bad : \A m \in bad : k <= m
    <3> HIDE DEF bad
    <3> QED BY <2>1, LeastNat
  <2>3. /\ k - 1 \in 1..Len(s) /\ k - 1 \in 1..(Len(s) - 1)
        /\ (k - 1) + 1 = k /\ ~(k <= k - 1)
    BY <2>2
  <2>4. s[k - 1].branchBegan <= s[k].began BY <1>2, <2>3
  <2>5. k - 1 # i BY <2>2, <2>4
  <2>6. k - 1 \notin bad BY <2>2, <2>3
  <2>7. s[i].branchBegan <= s[k - 1].began BY <2>2, <2>3, <2>5, <2>6
  <2>8. k \in 1..Len(s) BY <2>2
  <2>9. s[i].branchBegan <= s[k].began BY <1>1, <2>3, <2>4, <2>7, <2>8
  <2> QED BY <2>2, <2>9
<1> QED BY <1>3

\* What the scope of frame m has, at which path ever, is from its own requests,
\* up to those its walker waits for.
LEMMA Reach ==
    ASSUME WalkInv, Len(stack) \in Nat, stack # <<>>, NEW m \in 1..Len(stack),
           NEW path \in Path, NEW v \in Descend(stack[m].entries, path),
           "by" \in DOMAIN v
    PROVE  /\ v.by \in Nat /\ v.by > stack[m].began
           /\ m < Len(stack) => v.by <= stack[m + 1].began
<1> DEFINE bound == IF m < Len(stack) THEN stack[m + 1].began ELSE requests
           A == (stack[m].began + 1)..bound
<1>1. requests \in Nat BY TopFits DEF WalkInv
<1>2. \A k \in 1..Len(stack) : stack[k].began \in Nat
  BY DEF WalkInv, IInv, StackOK, FrameOK
<1>3. Confined(stack[m], bound)
  <2>1. CASE m < Len(stack)
    <3>1. m \in 1..(Len(stack) - 1) BY <2>1
    <3> QED BY <2>1, <3>1 DEF WalkInv, Linked, Above
  <2>2. CASE ~(m < Len(stack))
    <3>1. m = Len(stack) BY <2>2
    <3> QED BY <2>2, <3>1 DEF WalkInv, Linked, OnTop
  <2> QED BY <2>1, <2>2
<1>4. Entries(stack[m].entries, A) BY <1>3 DEF Confined
<1>5. stack[m].began \in Nat BY <1>2
<1>6. m < Len(stack) => stack[m + 1].began \in Nat BY <1>2
<1>7. bound \in Nat BY <1>1, <1>6
<1> HIDE DEF A
<1>8. From(stack[m].entries, A) BY <1>4, EntriesFrom
<1>9. v.by \in A BY <1>8, DescendFrom
<1>10. v.by \in Nat /\ v.by > stack[m].began /\ v.by <= bound
  <2> HIDE DEF bound
  <2> QED BY <1>5, <1>7, <1>9 DEF A
<1> QED BY <1>10

\* A template reads no extract of an earlier iteration, and none of another
\* branch of a parallel that still runs, for any family of flows and any path.
THEOREM IsolationCorrect == Spec => []Isolation
<1>1. ASSUME WalkInv PROVE Isolation
  <2> SUFFICES ASSUME stack # <<>>, NEW path \in Path, NEW v \in Resolve(path),
                      "by" \in DOMAIN v
               PROVE  /\ v.by > stack[1].began
                      /\ \A k \in 1..(Len(stack) - 1) :
                            stack[k].node.type = "parallel" =>
                               v.by \notin (stack[k].began + 1)..stack[k].branchBegan
    BY DEF Isolation, Isolated
  <2> DEFINE held == Holders(Head(path))
             m == Max(held)
  <2>1. Len(stack) \in Nat \ {0} BY <1>1, NonEmpty DEF WalkInv, IInv, StackOK
  <2>2. held \in SUBSET (1..Len(stack)) BY DEF Holders
  <2>3. held # {} /\ v \in Descend(stack[m].entries, path) BY DEF Resolve
  <2> HIDE DEF held
  <2>4. m \in held BY <2>1, <2>2, <2>3, MaxIn
  <2> HIDE DEF m
  <2>5. m \in 1..Len(stack) BY <2>2, <2>4
  <2>6. stack[m].entries # Empty BY <2>4 DEF held, Holders, Empty
  <2>7. /\ v.by \in Nat /\ v.by > stack[m].began
        /\ m < Len(stack) => v.by <= stack[m + 1].began
    BY <1>1, <2>1, <2>3, <2>5, Reach
  <2>8. /\ requests \in Nat
        /\ StackOK(stack, RunNode, requests, broken)
    BY <1>1, TopFits DEF WalkInv, IInv
  <2>9. \A k \in 1..Len(stack) :
          /\ stack[k].began \in Nat /\ stack[k].branchBegan \in Nat
          /\ stack[k].began <= stack[k].branchBegan
    BY <2>8 DEF StackOK, FrameOK
  <2>10. \A i, j \in 1..Len(stack) : i < j => stack[i].branchBegan <= stack[j].began
    BY <2>1, <2>8, Chain
  <2>11. v.by > stack[1].began
    <3>1. 1 \in 1..Len(stack) BY <2>1
    <3>2. CASE m = 1 BY <2>7, <3>2
    <3>3. CASE m # 1
      <4>1. 1 < m BY <2>5, <3>3
      <4>2. stack[1].branchBegan <= stack[m].began BY <2>5, <2>10, <3>1, <4>1
      <4> QED BY <2>5, <2>7, <2>9, <3>1, <4>2
    <3> QED BY <3>2, <3>3
  <2>12. ASSUME NEW k \in 1..(Len(stack) - 1), stack[k].node.type = "parallel"
         PROVE  v.by \notin (stack[k].began + 1)..stack[k].branchBegan
    <3>1. k \in 1..Len(stack) BY <2>1
    <3>2. CASE m > k
      <4>1. stack[k].branchBegan <= stack[m].began BY <2>5, <2>10, <3>1, <3>2
      <4> QED BY <2>5, <2>7, <2>9, <3>1, <4>1
    <3>3. CASE m = k
      BY <1>1, <2>6, <2>12, <3>3 DEF WalkInv, Linked, Above
    <3>4. CASE m < k
      <4>1. m + 1 \in 1..Len(stack) /\ m < Len(stack) BY <2>1, <2>5, <3>1, <3>4
      <4>2. v.by <= stack[m + 1].began BY <2>7, <4>1
      <4>3. stack[m + 1].began <= stack[k].began
        <5>1. CASE m + 1 = k BY <2>9, <3>1, <5>1
        <5>2. CASE m + 1 # k
          <6>1. m + 1 < k BY <2>5, <3>1, <3>4, <5>2
          <6>2. stack[m + 1].branchBegan <= stack[k].began
            BY <2>10, <3>1, <4>1, <6>1
          <6> QED BY <2>9, <3>1, <4>1, <6>2
        <5> QED BY <5>1, <5>2
      <4> QED BY <2>7, <2>9, <3>1, <4>1, <4>2, <4>3
    <3> QED BY <2>5, <3>1, <3>2, <3>3, <3>4
  <2> QED BY <2>11, <2>12
<1> QED BY <1>1, WalkInvariance, PTL

-----------------------------------------------------------------------------
\* A parallel walker returns when its wait policy is satisfied or no branch is
\* left, and one that waits for all hands on what each of them left, for any
\* family of flows.
THEOREM BranchesCorrect == Spec => ParallelWaits
<1>1. ASSUME WalkInv, Next, Walking("parallel"), ~IsBatch(Node),
             Node.children # <<>>, Len(stack') + 1 = Len(stack)
      PROVE  WaitKept
  <2>1. stack # <<>> /\ Node.type = "parallel" BY <1>1 DEF Walking
  <2>2. /\ Len(stack) \in Nat /\ Len(stack) > 1
        /\ FrameOK(stack[Len(stack) - 1], requests)
        /\ OnTop(Top, RunNode, requests) /\ FrameOK(Top, requests)
        /\ Node \in Vertex
    BY <1>1, <2>1, CallerBelow DEF WalkInv, Linked, Top
  <2>3. ~NextBranch
    <3> SUFFICES ASSUME NextBranch PROVE FALSE OBVIOUS
    <3>1. PICK f, child : Call(f, child) BY DEF NextBranch
    <3>2. CASE child = None
      <4>1. Len(stack') = 0 BY <3>1, <3>2, EmptySeq DEF Call
      <4>2. 0 + 1 = Len(stack) BY <1>1, <4>1
      <4>3. Len(stack) > 1 BY <2>2
      <4> QED BY <4>2, <4>3
    <3>3. CASE child # None
      <4> DEFINE u == [stack EXCEPT ![Len(stack)] = f]
      <4>1. stack' = Append(u, Frame(child)) BY <3>1, <3>3 DEF Call
      <4>2. PICK S : stack \in Seq(S) BY <1>1 DEF WalkInv, IInv, StackOK, IsSequence
      <4>3. stack \in Seq(S \cup {f, Frame(child)}) BY <4>2, SeqMonotonic
      <4>4. u \in Seq(S \cup {f, Frame(child)}) /\ Len(u) = Len(stack)
        BY <2>2, <4>3, ExceptSeq
      <4> HIDE DEF u
      <4>5. Len(stack') = Len(stack) + 1 BY <4>1, <4>4, AppendProperties
      <4> QED BY <1>1, <2>2, <4>5
    <3> QED BY <3>2, <3>3
  <2>4. EndParallel
    BY <1>1, <2>1, <2>3
       DEF Next, WalkStep, Setup, SetupThrows, BeginIteration, EndIteration,
           UnknownType, Composite, WalkRequest, WalkDelay, FireOptional,
           SkipOptional, TakeThen, TakeElse, TakeNeither, NextChild, EndSequence,
           SkipParallel, WalkBatch, BeginRepeat, BeginCounted, RepeatThrows,
           Iterate, EndRepeat, Walking, WalkInv, IInv
  <2> DEFINE both == Merge(Top.entries, Top.merged)
             writes == Bind(Node.id, both)
             m == Len(stack) - 1
             caller == stack[m]
  <2>5. PICK ok : Return(ok, writes) BY <2>4 DEF EndParallel
  <2> DEFINE f == [caller EXCEPT !.entries = Merge(writes, @),
                                 !.ok = ok,
                                 !.passed = IF ok THEN @ + 1 ELSE @]
  <2>6. stack' = [Front(stack) EXCEPT ![m] = f] BY <2>5 DEF Return
  <2>7. f.entries = Merge(writes, caller.entries)
    BY <2>2 DEF FrameOK, Fields
  <2> HIDE DEF f
  <2>8. Len(stack') = m /\ stack'[m] = f
    <3>1. PICK S : stack \in Seq(S) BY <1>1 DEF WalkInv, IInv, StackOK, IsSequence
    <3>2. m \in 1..m /\ m \in Nat /\ m + 1 = Len(stack) BY <2>2
    <3> HIDE DEF m
    <3>3. \A i \in 1..m : stack[i] \in S \cup {f} BY <3>1, <3>2, ElementOfSeq
    <3>4. SubSeq(stack, 1, m) \in Seq(S \cup {f}) /\ Len(SubSeq(stack, 1, m)) = m
      BY <3>2, <3>3, SubSeqProperties
    <3>5. stack' = [SubSeq(stack, 1, m) EXCEPT ![m] = f] BY <2>6 DEF Front, m
    <3> QED BY <3>2, <3>4, <3>5, ExceptSeq
  <2>9. stack'[Len(stack')].entries = Merge(writes, caller.entries) BY <2>7, <2>8
  <2> HIDE DEF m, caller
  <2>10. Top.i = Len(Node.children) BY <2>4 DEF EndParallel
  <2>11. DOMAIN Node.children = 1..Len(Node.children)
    BY <2>2, VertexAssumption DEF Documents
  <2>12. DOMAIN both = DOMAIN Top.entries \cup DOMAIN Top.merged BY MergeDomain
  <2>13. ASSUME NEW j \in DOMAIN Node.children, Binds(Node.children[j])
         PROVE  Node.children[j].id \in DOMAIN both
    BY <2>1, <2>2, <2>10, <2>11, <2>12, <2>13
       DEF OnTop, KeepsFirst, Keeps, Node
  <2> HIDE DEF both
  <2>14. CASE Node.id = None
    <3>1. writes = both BY <2>14 DEF Bind
    <3>2. DOMAIN both \subseteq DOMAIN Merge(writes, caller.entries)
      BY <3>1, MergeDomain
    <3> QED BY <2>9, <2>10, <2>13, <2>14, <3>2 DEF WaitKept
  <2>15. CASE Node.id # None
    <3>1. Merge(writes, caller.entries)[Node.id] = both
      BY <2>15 DEF Bind, Merge
    <3> QED BY <2>9, <2>10, <2>13, <2>15, <3>1 DEF WaitKept
  <2> QED BY <2>14, <2>15
<1>2. WalkInv /\ [Next]_vars =>
        [Walking("parallel") /\ ~IsBatch(Node) /\ Node.children # <<>>
            /\ Len(stack') + 1 = Len(stack)
         => WaitKept]_vars
  BY <1>1
<1> QED BY <1>2, WalkInvariance, PTL DEF Spec, ParallelWaits
=============================================================================
