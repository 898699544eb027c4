------------------------- MODULE ControlPlaneProofs -------------------------
(***************************************************************************)
(* The safety properties of the control plane, for any backends, requests, *)
(* failures and stops.                                                     *)
(***************************************************************************)
EXTENDS ControlPlane, SequenceTheorems, TLAPS

\* The ops-agent is inside a request, the head of its batch.
Handling == ops \in {"write", "stop", "start"}

\* The batch is the requests up to the offset that are not done with; those
\* acted on come before it, but for the one in hand, which is the last.
BatchIsNext ==
  /\ \A k \in 1 .. Len(batch) : batch[k] = offset - Len(batch) + k
  /\ ops = "down" => batch = << >>
  /\ IF Handling
       THEN /\ batch # << >> /\ executed # << >>
            /\ executed[Len(executed)] = Head(batch)
            /\ \A k \in 1 .. Len(executed) : executed[k] <= offset - Len(batch) + 1
       ELSE \A k \in 1 .. Len(executed) : executed[k] <= offset - Len(batch)

\* What the request in hand asks for.
InHand ==
  /\ ops = "write" => Current.action = "apply_backend"
  /\ ops = "start" /\ Current.target = "soc-defender" => defender = "down"

Applies(k) == requests[executed[k]].action = "apply_backend"

\* The k-th request acted on is the last to apply a backend.
LastApplied(k) == Applies(k) /\ \A j \in k + 1 .. Len(executed) : ~Applies(j)

\* The defender has not been stopped yet since the last selection was begun.
BeforeRestart == ops = "write" \/ (ops = "stop" /\ Current.action = "apply_backend")

\* Without a failure the selection is the last one applied, unless it is being
\* written, and a defender that has resolved since the restart resolved that one.
SelectionInForce ==
  failures = 0 =>
    \A k \in 1 .. Len(executed) : LastApplied(k) =>
      /\ ops # "write" => selected = requests[executed[k]].backend
      /\ ~BeforeRestart /\ defender \notin {"down", "resolve"}
           => backend = requests[executed[k]].backend

\* A defender about to publish its card scores with the backend it names.
CardNamesScorer == defender \in {"card", "write"} => scoring = backend

IInv ==
  /\ TypeOK
  /\ BatchIsNext
  /\ InHand
  /\ ActedOnOnceInOrder
  /\ SelectionInForce
  /\ CardNamesScorer
  /\ DetectorHasItsCard

-----------------------------------------------------------------------------

\* Steps of the defender and of the dashboard.
OtherStep == DefenderStart \/ DefenderStop \/ Resolve \/ Load \/ TruncateCard \/ WriteCard
             \/ CardError \/ BrowserConnects \/ PollerTick

\* Types of the sequences and counters, in the form the steps below cite.
LEMMA SequenceFacts ==
  ASSUME TypeOK
  PROVE  /\ Len(requests) \in Nat /\ Len(batch) \in Nat /\ Len(executed) \in Nat /\ offset \in Nat
         /\ offset <= Len(requests)
         /\ requests \in Seq(Request) /\ batch \in Seq(1 .. Len(requests))
         /\ executed \in Seq(1 .. Len(requests))
         /\ DOMAIN executed = 1 .. Len(executed) /\ DOMAIN batch = 1 .. Len(batch)
         /\ \A k \in 1 .. Len(executed) : executed[k] \in 1 .. Len(requests)
         /\ \A k \in 1 .. Len(batch) : batch[k] \in 1 .. Len(requests)
  BY SMTT(30) DEF TypeOK

\* The head of a batch, and what is left without it.
LEMMA BatchFacts ==
  ASSUME TypeOK, batch # << >>
  PROVE  /\ Len(batch) >= 1 /\ Head(batch) = batch[1] /\ Head(batch) \in 1 .. Len(requests)
         /\ Current \in Request
         /\ Tail(batch) \in Seq(1 .. Len(requests)) /\ Len(Tail(batch)) = Len(batch) - 1
         /\ \A k \in 1 .. Len(batch) - 1 : Tail(batch)[k] = batch[k + 1]
         /\ ToSet(Tail(batch)) \subseteq 1 .. Len(requests)
<1>1. batch \in Seq(1 .. Len(requests)) /\ Len(batch) >= 1 /\ requests \in Seq(Request)
  BY DEF TypeOK
<1>2. Head(batch) = batch[1] /\ Head(batch) \in 1 .. Len(requests)
  BY <1>1
<1>3. /\ Tail(batch) \in Seq(1 .. Len(requests)) /\ Len(Tail(batch)) = Len(batch) - 1
      /\ \A k \in 1 .. Len(batch) - 1 : Tail(batch)[k] = batch[k + 1]
  BY <1>1, HeadTailProperties
<1>4. ToSet(Tail(batch)) \subseteq 1 .. Len(requests)
  BY <1>3 DEF ToSet
<1>5. Current \in Request
  BY <1>1, <1>2 DEF Current
<1> QED
  BY <1>1, <1>2, <1>3, <1>4, <1>5

\* A request that applies a backend names one.
LEMMA ApplyNamesBackend ==
  ASSUME NEW req \in Request, req.action = "apply_backend"
  PROVE  req.backend \in Backends /\ req.target = "soc-defender"
  BY DEF Request

\* A request is added behind the others.
LEMMA PostEffect ==
  ASSUME TypeOK, NEW req \in Request, PostRequest(req)
  PROVE  /\ requests' \in Seq(Request) /\ Len(requests') = Len(requests) + 1
         /\ \A k \in 1 .. Len(requests) : requests'[k] = requests[k]
  BY AppendProperties DEF TypeOK, PostRequest

\* The request at the head of the batch is the newest of those acted on.
LEMMA HandleEffect ==
  ASSUME TypeOK, HandleRequest
  PROVE  /\ executed' \in Seq(1 .. Len(requests)) /\ Len(executed') = Len(executed) + 1
         /\ \A k \in 1 .. Len(executed) : executed'[k] = executed[k]
         /\ executed'[Len(executed) + 1] = Head(batch)
<1>1. Head(batch) \in 1 .. Len(requests)
  BY BatchFacts DEF HandleRequest
<1> QED
  BY <1>1, AppendProperties DEF TypeOK, HandleRequest

\* A poll returns the requests from the offset on.
LEMMA PollEffect ==
  ASSUME TypeOK, OpsPoll
  PROVE  /\ batch' \in Seq(1 .. Len(requests)) /\ Len(batch') = Len(requests) - offset
         /\ \A k \in 1 .. Len(batch') : batch'[k] = offset + k
<1>1. Len(requests) - offset \in Nat /\ offset \in Nat /\ Len(requests) \in Nat
  BY DEF TypeOK
<1>2. \A k \in 1 .. Len(requests) - offset : offset + k \in 1 .. Len(requests)
  BY <1>1
<1>3. batch' = [k \in 1 .. Len(requests) - offset |-> offset + k]
  BY DEF OpsPoll
<1> QED
  BY <1>1, <1>2, <1>3

\* Every step keeps the types.
LEMMA TypesKept ==
  ASSUME IInv, [Next]_vars
  PROVE  TypeOK'
<1>1. TypeOK /\ BatchIsNext
  BY DEF IInv
<1> USE <1>1
<1>2. MaxFailures \in Nat /\ MaxStops \in Nat
  BY BoundsAssumption
<1>3. ASSUME NEW req \in Request, PostRequest(req) PROVE TypeOK'
  <2>1. /\ requests' \in Seq(Request) /\ Len(requests') = Len(requests) + 1
    BY <1>3, PostEffect
  <2>2. 1 .. Len(requests) \subseteq 1 .. Len(requests') /\ offset \in 0 .. Len(requests')
    BY <2>1 DEF TypeOK
  <2>3. batch \in Seq(1 .. Len(requests')) /\ executed \in Seq(1 .. Len(requests'))
    BY <2>2, SeqMonotonic DEF TypeOK
  <2>4. discarded \subseteq 1 .. Len(requests')
    BY <2>2 DEF TypeOK
  <2> QED
    BY <1>3, <2>1, <2>2, <2>3, <2>4
       DEF PostRequest, TypeOK, config, opsagent, scorer, dashboard
<1>4. CASE OpsStart
  <2>1. offset' \in 0 .. Len(requests)
    BY <1>4, SequenceFacts DEF OpsStart
  <2>2. discarded' \subseteq 1 .. Len(requests)
    BY <1>4 DEF OpsStart, TypeOK
  <2> QED
    BY <1>4, <2>1, <2>2 DEF OpsStart, TypeOK, config, scorer, dashboard
<1>5. CASE OpsPoll
  BY <1>5, PollEffect, SequenceFacts DEF OpsPoll, TypeOK, config, scorer, dashboard
<1>6. CASE HandleRequest
  <2>1. ops' \in {"write", "stop"} /\ selected' \in Backends \cup {"none", "torn"}
    BY <1>6 DEF HandleRequest, TypeOK
  <2> QED
    BY SMTT(30), <1>6, <2>1, HandleEffect DEF HandleRequest, TypeOK, config, scorer, dashboard
<1>7. CASE WriteSelection
  <2>1. Current.backend \in Backends
    <3>1. batch # << >> /\ Current.action = "apply_backend"
      BY <1>7 DEF WriteSelection, IInv, InHand, BatchIsNext, Handling
    <3> QED
      BY <3>1, BatchFacts, ApplyNamesBackend
  <2> QED
    BY <1>7, <2>1 DEF WriteSelection, TypeOK, config, scorer, dashboard
<1>8. CASE StopTarget \/ StartTarget
  <2>1. batch' \in Seq(1 .. Len(requests))
    BY <1>8, BatchFacts DEF StopTarget, StartTarget, TypeOK, BatchIsNext, Handling
  <2> QED
    BY <1>8, <2>1 DEF StopTarget, StartTarget, TypeOK, config, dashboard
<1>9. CASE DockerError \/ OpsError \/ OpsDie
  <2>1. failures' \in 0 .. MaxFailures
    BY <1>2, <1>9 DEF DockerError, OpsError, OpsDie, TypeOK
  <2>2. batch' \in Seq(1 .. Len(requests)) /\ discarded' \subseteq 1 .. Len(requests)
    <3>1. CASE DockerError \/ OpsError
      <4>1. batch # << >>
        BY <3>1 DEF DockerError, OpsError, BatchIsNext, Handling
      <4>2. ToSet(Tail(batch)) \subseteq 1 .. Len(requests) /\ Tail(batch) \in Seq(1 .. Len(requests))
        BY <4>1, BatchFacts
      <4>3. discarded \subseteq 1 .. Len(requests) /\ << >> \in Seq(1 .. Len(requests))
        BY DEF TypeOK
      <4>4. batch' \in {<< >>, Tail(batch)} /\ discarded' \subseteq discarded \cup ToSet(Tail(batch))
        BY <3>1 DEF DockerError, OpsError
      <4> QED
        BY <4>2, <4>3, <4>4
    <3>2. CASE OpsDie
      BY <3>2 DEF OpsDie, TypeOK
    <3> QED
      BY <1>9, <3>1, <3>2
  <2> QED
    BY <1>9, <2>1, <2>2 DEF DockerError, OpsError, OpsDie, TypeOK, config, scorer, dashboard
<1>10. CASE DefenderStart \/ Resolve \/ Load
  BY <1>10 DEF DefenderStart, Resolve, Resolved, Load, TypeOK, config, opsagent, scorer, dashboard, Labels
<1>11. CASE DefenderStop
  <2>1. stops' \in 0 .. MaxStops
    BY <1>2, <1>11 DEF DefenderStop, TypeOK
  <2> QED
    BY <1>11, <2>1 DEF DefenderStop, TypeOK, config, opsagent, dashboard
<1>12. CASE TruncateCard \/ WriteCard \/ CardError
  <2>1. card' \in [active : Labels \cup {"none", "torn"}, mtime : Nat]
    BY <1>12 DEF TruncateCard, WriteCard, CardError, TypeOK
  <2>2. failures' \in 0 .. MaxFailures
    BY <1>2, <1>12 DEF TruncateCard, WriteCard, CardError, TypeOK
  <2> QED
    BY <1>12, <2>1, <2>2 DEF TruncateCard, WriteCard, CardError, TypeOK, config, opsagent, dashboard
<1>13. CASE BrowserConnects \/ PollerTick
  <2>1. CardSeen \in [active : Labels \cup {"none"}, mtime : Nat]
    BY DEF CardSeen, TypeOK
  <2> QED
    BY <1>13, <2>1 DEF BrowserConnects, PollerTick, TypeOK, config, opsagent, scorer
<1>14. CASE UNCHANGED vars
  BY <1>14 DEF vars, TypeOK, config, opsagent, scorer, dashboard
<1> QED
  BY <1>3, <1>4, <1>5, <1>6, <1>7, <1>8, <1>9, <1>10, <1>11, <1>12, <1>13, <1>14 DEF Next

-----------------------------------------------------------------------------
(* The order of requests.                                                  *)

OrderInv == BatchIsNext /\ InHand /\ ActedOnOnceInOrder

\* The steps of the defender, the card and the dashboard touch neither requests nor the ops-agent.
LEMMA OtherStepKeepsOrder ==
  ASSUME IInv, OtherStep \/ UNCHANGED vars
  PROVE  OrderInv'
<1>1. UNCHANGED <<requests, selected, opsagent>>
  BY DEF OtherStep, DefenderStart, DefenderStop, Resolve, Load, TruncateCard, WriteCard, CardError,
         BrowserConnects, PollerTick, vars
<1>2. ops = "start" /\ defender = "down" => defender' = "down"
  BY DEF OtherStep, DefenderStart, DefenderStop, Resolve, Load, TruncateCard, WriteCard, CardError,
         BrowserConnects, PollerTick, vars, scorer
<1> QED
  BY <1>1, <1>2 DEF IInv, OrderInv, BatchIsNext, Handling, InHand, Current, ActedOnOnceInOrder, opsagent

\* A new request comes after all that were polled.
LEMMA PostKeepsOrder ==
  ASSUME IInv, NEW req \in Request, PostRequest(req)
  PROVE  OrderInv'
<1>1. UNCHANGED <<opsagent, scorer>> /\ TypeOK
  BY DEF PostRequest, IInv
<1>2. batch # << >> => Current' = Current
  BY <1>1, PostEffect, BatchFacts DEF Current, opsagent
<1> QED
  BY <1>1, <1>2 DEF IInv, OrderInv, BatchIsNext, Handling, InHand, ActedOnOnceInOrder, opsagent, scorer

\* A request is over, or the ops-agent: what is left of the batch is its rest, or
\* nothing.
LEMMA DoneKeepsOrder ==
  ASSUME IInv, Handling, UNCHANGED <<requests, executed, offset>>,
         \/ batch' = Tail(batch) /\ ops' = "loop"
         \/ batch' = << >> /\ ops' \in {"loop", "down"}
  PROVE  OrderInv'
<1>1. /\ TypeOK /\ batch # << >>
      /\ \A k \in 1 .. Len(batch) : batch[k] = offset - Len(batch) + k
      /\ \A k \in 1 .. Len(executed) : executed[k] <= offset - Len(batch) + 1
  BY DEF IInv, BatchIsNext
<1>2. /\ Len(batch) \in Nat /\ Len(batch) >= 1 /\ offset \in Nat
      /\ \A k \in 1 .. Len(executed) : executed[k] \in Int
  BY <1>1, BatchFacts, SequenceFacts
<1>3. ~Handling' /\ ops' # "write" /\ ops' # "start"
  BY DEF Handling
<1>4. CASE batch' = Tail(batch) /\ ops' = "loop"
  <2>1. /\ Len(batch') = Len(batch) - 1
        /\ \A k \in 1 .. Len(batch) - 1 : batch'[k] = batch[k + 1]
    BY <1>1, <1>4, BatchFacts
  <2>2. ASSUME NEW k \in 1 .. Len(batch') PROVE batch'[k] = offset' - Len(batch') + k
    <3>1. k + 1 \in 1 .. Len(batch) /\ batch'[k] = batch[k + 1] /\ k \in Int
      BY <1>2, <2>1
    <3>2. batch[k + 1] = offset - Len(batch) + (k + 1)
      BY <1>1, <3>1
    <3>3. offset' = offset /\ Len(batch') = Len(batch) - 1
      BY <2>1
    <3> QED
      BY <1>2, <3>1, <3>2, <3>3
  <2>3. \A k \in 1 .. Len(executed') : executed'[k] <= offset' - Len(batch')
    BY <1>1, <1>2, <2>1
  <2> QED
    BY <1>3, <1>4, <2>2, <2>3 DEF OrderInv, BatchIsNext, InHand, ActedOnOnceInOrder, IInv
<1>5. CASE batch' = << >> /\ ops' \in {"loop", "down"}
  <2>1. \A k \in 1 .. Len(executed') : executed'[k] <= offset' - Len(batch')
    BY <1>1, <1>2, <1>5
  <2> QED
    BY <1>3, <1>5, <2>1 DEF OrderInv, BatchIsNext, InHand, ActedOnOnceInOrder, IInv
<1> QED
  BY <1>4, <1>5

\* The request acted on next is newer than those before it.
LEMMA HandleKeepsOrder ==
  ASSUME IInv, HandleRequest
  PROVE  OrderInv'
<1>1. /\ TypeOK /\ batch # << >> /\ UNCHANGED <<requests, offset, batch>>
      /\ \A k \in 1 .. Len(batch) : batch[k] = offset - Len(batch) + k
      /\ \A k \in 1 .. Len(executed) : executed[k] <= offset - Len(batch)
      /\ \A i, j \in 1 .. Len(executed) : i < j => executed[i] < executed[j]
  <2>1. TypeOK /\ batch # << >> /\ UNCHANGED <<requests, offset, batch>> /\ ~Handling
    BY DEF HandleRequest, IInv, Handling
  <2>2. DOMAIN executed = 1 .. Len(executed)
    BY <2>1, SequenceFacts
  <2> QED
    BY <2>1, <2>2 DEF IInv, BatchIsNext, ActedOnOnceInOrder
<1>2. /\ Len(batch) \in Nat /\ Len(batch) >= 1 /\ offset \in Nat /\ Len(executed) \in Nat
      /\ \A k \in 1 .. Len(executed) : executed[k] \in Int
      /\ Head(batch) = offset - Len(batch) + 1
  BY <1>1, BatchFacts, SequenceFacts
<1>3. /\ Len(executed') = Len(executed) + 1 /\ DOMAIN executed' = 1 .. Len(executed')
      /\ \A k \in 1 .. Len(executed) : executed'[k] = executed[k]
      /\ executed'[Len(executed) + 1] = Head(batch)
  BY <1>1, HandleEffect
<1>4. ops' \in {"write", "stop"} /\ (ops' = "write" => Current.action = "apply_backend")
  BY DEF HandleRequest
<1>5. \A k \in 1 .. Len(executed') : executed'[k] <= offset' - Len(batch') + 1
  <2>1. ASSUME NEW k \in 1 .. Len(executed') PROVE executed'[k] <= offset - Len(batch) + 1
    <3>1. CASE k = Len(executed) + 1
      BY <1>2, <1>3, <3>1
    <3>2. CASE k \in 1 .. Len(executed)
      BY <1>1, <1>2, <1>3, <3>2
    <3> QED
      BY <1>2, <1>3, <3>1, <3>2
  <2> QED
    BY <1>1, <2>1
<1>6. ASSUME NEW i \in 1 .. Len(executed'), NEW j \in 1 .. Len(executed'), i < j
      PROVE  executed'[i] < executed'[j]
  <2>1. i \in 1 .. Len(executed) /\ executed'[i] = executed[i]
    BY <1>2, <1>3, <1>6
  <2>2. CASE j = Len(executed) + 1
    BY <1>1, <1>2, <1>3, <2>1, <2>2
  <2>3. CASE j \in 1 .. Len(executed)
    BY <1>1, <1>3, <1>6, <2>1, <2>3
  <2> QED
    BY <1>2, <1>3, <2>2, <2>3
<1>7. executed' # << >> /\ executed'[Len(executed')] = Head(batch')
  BY <1>1, <1>2, <1>3
<1>8. BatchIsNext'
  BY <1>1, <1>4, <1>5, <1>7 DEF BatchIsNext, Handling
<1>9. InHand'
  BY <1>1, <1>4 DEF InHand, Current
<1>10. ActedOnOnceInOrder'
  BY <1>3, <1>6 DEF ActedOnOnceInOrder
<1> QED
  BY <1>8, <1>9, <1>10 DEF OrderInv

\* Every step keeps requests, batch and what was acted on in one order.
LEMMA OrderKept ==
  ASSUME IInv, [Next]_vars
  PROVE  OrderInv'
<1>1. CASE OpsStart
  <2>1. batch = << >> /\ offset <= Len(requests) /\ TypeOK
    BY <1>1 DEF OpsStart, IInv, BatchIsNext, TypeOK
  <2>2. \A k \in 1 .. Len(executed) : executed[k] <= Len(requests)
    BY <2>1, SequenceFacts
  <2> QED
    BY <1>1, <2>1, <2>2, SequenceFacts
       DEF OpsStart, IInv, OrderInv, BatchIsNext, Handling, InHand, ActedOnOnceInOrder
<1>2. CASE OpsPoll
  <2>1. batch = << >> /\ TypeOK /\ \A k \in 1 .. Len(executed) : executed[k] <= offset
    BY <1>2, SequenceFacts DEF OpsPoll, IInv, BatchIsNext, Handling
  <2>2. /\ Len(batch') = Len(requests) - offset /\ offset' = Len(requests) /\ executed' = executed
        /\ \A k \in 1 .. Len(batch') : batch'[k] = offset + k
    BY <1>2, <2>1, PollEffect DEF OpsPoll
  <2>3. offset' - Len(batch') = offset
    BY <2>1, <2>2, SequenceFacts
  <2> QED
    BY <1>2, <2>1, <2>2, <2>3
       DEF OpsPoll, IInv, OrderInv, BatchIsNext, Handling, InHand, ActedOnOnceInOrder
<1>3. CASE HandleRequest
  BY <1>3, HandleKeepsOrder
<1>4. CASE WriteSelection \/ StopTarget
  BY <1>4 DEF WriteSelection, StopTarget, IInv, OrderInv, BatchIsNext, Handling, InHand, Current,
              ActedOnOnceInOrder
<1>5. CASE StartTarget \/ DockerError \/ OpsError
  BY <1>5, DoneKeepsOrder DEF StartTarget, DockerError, OpsError, Handling
<1>6. CASE OpsDie
  <2>1. CASE Handling
    BY <1>6, <2>1, DoneKeepsOrder DEF OpsDie
  <2>2. CASE ~Handling
    <3>1. ops = "loop" /\ TypeOK
      BY <1>6, <2>2 DEF OpsDie, IInv, TypeOK, Handling
    <3>2. \A k \in 1 .. Len(executed) : executed[k] <= offset
      BY <2>2, <3>1, SequenceFacts DEF IInv, BatchIsNext
    <3> QED
      BY <1>6, <3>2, <3>1, SequenceFacts
         DEF OpsDie, IInv, OrderInv, BatchIsNext, Handling, InHand, ActedOnOnceInOrder
  <2> QED
    BY <2>1, <2>2
<1> QED
  BY <1>1, <1>2, <1>3, <1>4, <1>5, <1>6, PostKeepsOrder, OtherStepKeepsOrder DEF Next, OtherStep

-----------------------------------------------------------------------------
(* The selection and the card.                                             *)

\* Steps that act on no request, select nothing and resolve nothing.
LEMMA SelectionStays ==
  ASSUME IInv, executed' = executed,
         \A k \in 1 .. Len(executed) : requests'[executed[k]] = requests[executed[k]],
         failures' = 0 =>
           /\ failures = 0
           /\ ops' # "write" => ops # "write" /\ selected' = selected
           /\ ~BeforeRestart' /\ defender' \notin {"down", "resolve"}
                => ~BeforeRestart /\ defender \notin {"down", "resolve"} /\ backend' = backend
  PROVE  SelectionInForce'
<1>1. Len(executed) \in Nat
  BY SequenceFacts DEF IInv
<1>2. \A k \in 1 .. Len(executed) : Applies(k)' <=> Applies(k)
  BY DEF Applies
<1>3. ASSUME NEW k \in 1 .. Len(executed), LastApplied(k)' PROVE LastApplied(k)
  <2>1. \A j \in k + 1 .. Len(executed) : j \in 1 .. Len(executed)
    BY <1>1
  <2> QED
    BY <1>2, <1>3, <2>1 DEF LastApplied
<1> QED
  BY <1>3 DEF IInv, SelectionInForce

\* The write puts the backend of the newest request in force.
LEMMA WriteSelects ==
  ASSUME IInv, WriteSelection
  PROVE  SelectionInForce'
<1>1. /\ batch # << >> /\ executed # << >> /\ TypeOK /\ executed[Len(executed)] = Head(batch)
      /\ Current.action = "apply_backend"
  BY DEF WriteSelection, IInv, BatchIsNext, Handling, InHand
<1>2. Len(executed) \in Nat /\ Len(executed) >= 1
  BY <1>1, SequenceFacts
<1>3. Applies(Len(executed)) /\ UNCHANGED <<executed, requests, batch, failures>>
  BY <1>1 DEF Applies, Current, WriteSelection
<1>4. ASSUME NEW k \in 1 .. Len(executed), LastApplied(k) PROVE k = Len(executed)
  BY <1>2, <1>3, <1>4 DEF LastApplied
<1>5. ops' = "stop" /\ Current' = Current /\ BeforeRestart'
  BY <1>1, <1>3 DEF WriteSelection, Current, BeforeRestart
<1>6. ASSUME NEW k \in 1 .. Len(executed), LastApplied(k)
      PROVE  selected' = requests[executed[k]].backend
  BY <1>1, <1>4, <1>6 DEF WriteSelection, Current
<1> QED
  BY <1>3, <1>5, <1>6 DEF SelectionInForce, LastApplied, Applies

\* Acting on another request leaves the selection of the last applied backend.
LEMMA HandleSelects ==
  ASSUME IInv, HandleRequest
  PROVE  SelectionInForce'
<1>1. TypeOK /\ batch # << >> /\ ops = "loop" /\ UNCHANGED <<requests, batch, failures, defender, backend>>
  BY DEF HandleRequest, IInv, scorer
<1>2. /\ Len(executed) \in Nat /\ Len(executed') = Len(executed) + 1
      /\ \A k \in 1 .. Len(executed) : executed'[k] = executed[k]
      /\ executed'[Len(executed) + 1] = Head(batch)
  BY <1>1, HandleEffect, SequenceFacts
<1>3. CASE Current.action = "apply_backend"
  BY <1>3 DEF HandleRequest, SelectionInForce, BeforeRestart
<1>4. CASE Current.action # "apply_backend"
  <2>1. ops' = "stop" /\ selected' = selected /\ ~BeforeRestart' /\ ~BeforeRestart
    BY <1>1, <1>4 DEF HandleRequest, BeforeRestart, Current
  <2>2. ASSUME NEW k \in 1 .. Len(executed'), LastApplied(k)'
        PROVE  k \in 1 .. Len(executed) /\ LastApplied(k) /\ executed'[k] = executed[k]
    <3>1. k # Len(executed) + 1
      BY <1>1, <1>2, <1>4, <2>2 DEF LastApplied, Applies, Current
    <3>2. k \in 1 .. Len(executed)
      BY <1>2, <3>1
    <3>3. \A j \in k + 1 .. Len(executed) :
            j \in 1 .. Len(executed) /\ j \in k + 1 .. Len(executed')
      BY <1>2, <3>2
    <3>4. \A j \in 1 .. Len(executed) : Applies(j)' <=> Applies(j)
      BY <1>1, <1>2 DEF Applies
    <3> QED
      BY <1>2, <2>2, <3>2, <3>3, <3>4 DEF LastApplied
  <2> QED
    BY <1>1, <2>1, <2>2 DEF IInv, SelectionInForce
<1> QED
  BY <1>3, <1>4

\* A start that follows the write resolves the backend written.
LEMMA ResolveUsesSelection ==
  ASSUME IInv, Resolve
  PROVE  SelectionInForce'
<1>1. TypeOK /\ UNCHANGED <<requests, selected, opsagent, failures>>
  BY DEF Resolve, IInv
<1>2. UNCHANGED <<ops, batch, executed>> /\ BeforeRestart' = BeforeRestart
  BY <1>1 DEF opsagent, BeforeRestart, Current
<1>3. ASSUME NEW k \in 1 .. Len(executed), LastApplied(k), ops # "write", failures = 0
      PROVE  selected = requests[executed[k]].backend /\ backend' = selected
  <2>1. selected = requests[executed[k]].backend
    BY <1>3 DEF IInv, SelectionInForce
  <2>2. requests[executed[k]] \in Request
    BY <1>1, SequenceFacts
  <2>3. selected \in Backends
    BY <1>3, <2>1, <2>2, ApplyNamesBackend DEF LastApplied, Applies
  <2> QED
    BY <2>1, <2>3 DEF Resolve, Resolved
<1>4. \A k \in 1 .. Len(executed) : LastApplied(k)' <=> LastApplied(k)
  BY <1>1, <1>2 DEF LastApplied, Applies
<1> QED
  BY <1>1, <1>2, <1>3, <1>4 DEF SelectionInForce, BeforeRestart

\* Every step keeps the applied backend selected, and in use once its restart is over.
LEMMA SelectionKept ==
  ASSUME IInv, [Next]_vars
  PROVE  SelectionInForce'
<1>1. TypeOK /\ failures \in Nat
  BY DEF IInv, TypeOK
<1>2. ASSUME NEW req \in Request, PostRequest(req) PROVE SelectionInForce'
  <2>1. UNCHANGED <<selected, opsagent, scorer, failures>>
    BY <1>2 DEF PostRequest
  <2>2. \A k \in 1 .. Len(executed) : requests'[executed[k]] = requests[executed[k]]
    BY <1>1, <1>2, PostEffect, SequenceFacts
  <2>3. batch # << >> => requests'[Head(batch)] = requests[Head(batch)]
    BY <1>1, <1>2, PostEffect, BatchFacts
  <2>4. BeforeRestart' <=> BeforeRestart
    BY <2>1, <2>3 DEF BeforeRestart, Current, opsagent, IInv, BatchIsNext, Handling
  <2> QED
    BY <2>1, <2>2, <2>4, SelectionStays DEF opsagent, scorer
<1>3. CASE OpsStart \/ OpsPoll
  BY <1>3, SelectionStays DEF OpsStart, OpsPoll, BeforeRestart, scorer
<1>4. CASE StopTarget
  <2>1. Current \in Request
    BY <1>1, <1>4, BatchFacts DEF StopTarget, IInv, BatchIsNext, Handling
  <2>2. Current.target # "soc-defender" => ~BeforeRestart
    BY <1>4, <2>1, ApplyNamesBackend DEF StopTarget, BeforeRestart
  <2> QED
    BY <1>4, <2>2, SelectionStays DEF StopTarget
<1>5. CASE StartTarget
  BY <1>5, SelectionStays DEF StartTarget, BeforeRestart
<1>6. CASE DockerError \/ OpsError \/ OpsDie \/ CardError
  <2>1. failures' # 0
    BY <1>1, <1>6 DEF DockerError, OpsError, OpsDie, CardError
  <2> QED
    BY <2>1 DEF SelectionInForce
<1>7. CASE DefenderStart \/ DefenderStop \/ Load \/ TruncateCard \/ WriteCard \/ BrowserConnects
           \/ PollerTick \/ UNCHANGED vars
  <2>1. /\ UNCHANGED <<requests, selected, opsagent, backend, failures>>
        /\ defender' \notin {"down", "resolve"} => defender \notin {"down", "resolve"}
    BY <1>7 DEF DefenderStart, DefenderStop, Load, TruncateCard, WriteCard, BrowserConnects,
                PollerTick, vars, scorer
  <2> QED
    BY <2>1, SelectionStays DEF opsagent, BeforeRestart, Current
<1> QED
  BY <1>2, <1>3, <1>4, <1>5, <1>6, <1>7, HandleSelects, WriteSelects, ResolveUsesSelection DEF Next

CardInv == CardNamesScorer /\ DetectorHasItsCard

\* Every step keeps the card that of the scorer.
LEMMA CardKept ==
  ASSUME IInv, [Next]_vars
  PROVE  CardInv'
<1>1. failures \in Nat /\ CardInv
  BY DEF IInv, TypeOK, CardInv
<1> USE <1>1 DEF CardInv, CardNamesScorer, DetectorHasItsCard
<1>2. CASE (\E req \in Request : PostRequest(req)) \/ OpsStart \/ OpsPoll \/ HandleRequest
           \/ WriteSelection \/ StopTarget \/ StartTarget
  BY <1>2 DEF PostRequest, OpsStart, OpsPoll, HandleRequest, WriteSelection, StopTarget, StartTarget,
              scorer
<1>3. CASE DockerError \/ OpsError \/ OpsDie \/ CardError
  BY <1>3 DEF DockerError, OpsError, OpsDie, CardError, scorer
<1>4. CASE DefenderStart \/ DefenderStop \/ Resolve \/ Load \/ TruncateCard
  BY <1>4 DEF DefenderStart, DefenderStop, Resolve, Load, TruncateCard
<1>5. CASE WriteCard
  BY <1>5 DEF WriteCard
<1>6. CASE BrowserConnects \/ PollerTick \/ UNCHANGED vars
  BY <1>6 DEF BrowserConnects, PollerTick, vars, scorer
<1> QED
  BY <1>2, <1>3, <1>4, <1>5, <1>6 DEF Next

-----------------------------------------------------------------------------

\* Nothing is asked for at first.
LEMMA InitInv == Init => IInv
<1> SUFFICES ASSUME Init PROVE IInv
  OBVIOUS
<1>1. /\ requests = << >> /\ batch = << >> /\ executed = << >> /\ offset = 0 /\ ops = "down"
      /\ defender = "down" /\ scoring = "none"
  BY DEF Init
<1>2. TypeOK
  <2>1. Len(requests) = 0 /\ requests \in Seq(Request) /\ offset \in 0 .. Len(requests)
    BY <1>1
  <2>2. batch \in Seq(1 .. Len(requests)) /\ executed \in Seq(1 .. Len(requests))
    BY <1>1
  <2>3. failures \in 0 .. MaxFailures /\ stops \in 0 .. MaxStops
    BY BoundsAssumption DEF Init
  <2> QED
    BY <2>1, <2>2, <2>3 DEF Init, TypeOK
<1>3. BatchIsNext /\ InHand
  BY <1>1 DEF BatchIsNext, InHand, Handling
<1>4. ActedOnOnceInOrder /\ SelectionInForce /\ CardNamesScorer /\ DetectorHasItsCard
  BY <1>1 DEF ActedOnOnceInOrder, SelectionInForce, CardNamesScorer, DetectorHasItsCard
<1> QED
  BY <1>2, <1>3, <1>4 DEF IInv

\* Every step keeps the invariant.
LEMMA NextInv == IInv /\ [Next]_vars => IInv'
  BY TypesKept, OrderKept, SelectionKept, CardKept DEF IInv, OrderInv, CardInv

\* The inductive invariant holds in every reachable state of the control plane.
THEOREM Invariance == Spec => []IInv
  BY InitInv, NextInv, PTL DEF Spec

\* Every variable of the control plane keeps its type.
THEOREM TypeCorrect == Spec => []TypeOK
<1>1. IInv => TypeOK
  BY DEF IInv
<1> QED
  BY <1>1, Invariance, PTL

\* The ops-agent acts on no request twice, or after a later one.
THEOREM RequestsActedOnOnce == Spec => []ActedOnOnceInOrder
<1>1. IInv => ActedOnOnceInOrder
  BY DEF IInv
<1> QED
  BY <1>1, Invariance, PTL

\* The backend applied last is the one a running defender resolved.
THEOREM AppliedBackendIsUsed == Spec => []AppliedIsInUse
<1>1. IInv => AppliedIsInUse
  <2> SUFFICES ASSUME IInv, NEW k \in DOMAIN executed,
                      ops = "loop", failures = 0, defender \notin {"down", "resolve"},
                      requests[executed[k]].action = "apply_backend",
                      \A j \in k + 1 .. Len(executed) : requests[executed[j]].action # "apply_backend"
               PROVE  backend = requests[executed[k]].backend
    BY DEF AppliedIsInUse
  <2>1. k \in 1 .. Len(executed)
    BY SequenceFacts DEF IInv
  <2>2. LastApplied(k) /\ ~BeforeRestart
    BY DEF LastApplied, Applies, BeforeRestart
  <2> QED
    BY <2>1, <2>2 DEF IInv, SelectionInForce
<1> QED
  BY <1>1, Invariance, PTL

\* A defender that scores has published the card that says with what.
THEOREM ScorerHasItsCard == Spec => []DetectorHasItsCard
<1>1. IInv => DetectorHasItsCard
  BY DEF IInv
<1> QED
  BY <1>1, Invariance, PTL
=============================================================================
