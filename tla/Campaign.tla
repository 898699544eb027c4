------------------------------ MODULE Campaign ------------------------------
(***************************************************************************)
(* The traffic generator (containers/attacker): the benign DNS thread and  *)
(* the attack injectors ATTACK_MODE selects, each of which alternates      *)
(* waves of bursts and quiet gaps until the stop event is set              *)
(* (attacks/_campaign.py).  Times are left out: a wave may end after any   *)
(* burst, and a wait at any moment.                                        *)
(***************************************************************************)
EXTENDS Integers, FiniteSets

VARIABLES
  mode,    \* ATTACK_MODE: "benign", or the attacks it lists
  stop,    \* the stop event
  pc,      \* where each thread stands
  intensity, \* of its wave
  left,    \* queries left of its burst
  begun    \* bursts begun since the event was set

campaignVars == <<mode, stop, pc, intensity, left, begun>>

REGISTRY == {"dns_tunnel", "dns_exfil", "dns_c2"}
Threads == REGISTRY \cup {"dns"}

\* queries of a burst
BurstSize ==
  [dns_tunnel |-> [loud |-> 10 .. 18, slow |-> 2 .. 4],
   dns_exfil  |-> [loud |-> 3 .. 6,   slow |-> 1 .. 2],
   dns_c2     |-> [loud |-> 5 .. 9,   slow |-> 3 .. 5]]

Selected(m) == IF m = {"all"} THEN REGISTRY ELSE m \cap REGISTRY

CampaignInit ==
  /\ mode \in {{"all"}, {"benign"}} \cup {{a} : a \in REGISTRY}
  /\ stop = FALSE
  /\ pc = [t \in Threads |-> IF t \in Selected(mode) THEN "stagger"
                             ELSE IF t = "dns" THEN "wait" ELSE "off"]
  /\ intensity = [t \in REGISTRY |-> "slow"]
  /\ left = [t \in REGISTRY |-> 0]
  /\ begun = [t \in REGISTRY |-> 0]

Goto(t, where) == pc' = [pc EXCEPT ![t] = where]

-----------------------------------------------------------------------------
(* dns_loop() *)

QueryBenign ==
  /\ pc["dns"] = "query"
  /\ Goto("dns", "wait")
  /\ UNCHANGED <<mode, stop, intensity, left, begun>>

WaitBenign ==
  /\ pc["dns"] = "wait"
  /\ Goto("dns", IF stop THEN "done" ELSE "query")
  /\ UNCHANGED <<mode, stop, intensity, left, begun>>

-----------------------------------------------------------------------------
(* run_campaign() *)

\* The first wait, or a quiet gap, is over; the event is looked at.
NextWave(t, i) ==
  /\ pc[t] \in {"stagger", "quiet"}
  /\ Goto(t, IF stop THEN "done" ELSE "wave")
  /\ intensity' = [intensity EXCEPT ![t] = i]
  /\ UNCHANGED <<mode, stop, left, begun>>

EnterUnchecked(t) == pc[t] = "wave"
\* Within a wave the event is looked at before each burst.
Enter(t) == pc[t] = "wave" /\ ~stop

EnterBurst(t) ==
  /\ Enter(t)
  /\ Goto(t, "enter")
  /\ UNCHANGED <<mode, stop, intensity, left, begun>>

\* The deadline has passed or the event is set.
EndWave(t) ==
  /\ pc[t] = "wave"
  /\ Goto(t, "quiet")
  /\ UNCHANGED <<mode, stop, intensity, left, begun>>

\* do_burst(): n is drawn, and no query of a burst looks at the event.
DoBurst(t, n) ==
  /\ pc[t] = "enter"
  /\ left' = [left EXCEPT ![t] = n]
  /\ begun' = [begun EXCEPT ![t] = @ + (IF stop THEN 1 ELSE 0)]
  /\ Goto(t, "burst")
  /\ UNCHANGED <<mode, stop, intensity>>

Query(t) ==
  /\ pc[t] = "burst" /\ left[t] > 0
  /\ left' = [left EXCEPT ![t] = @ - 1]
  /\ UNCHANGED <<mode, stop, pc, intensity, begun>>

\* The gap after a burst, which the event cuts short.
Gap(t) ==
  /\ pc[t] = "burst" /\ left[t] = 0
  /\ Goto(t, "wave")
  /\ UNCHANGED <<mode, stop, intensity, left, begun>>

-----------------------------------------------------------------------------
(* main() *)

Interrupt ==
  /\ ~stop
  /\ stop' = TRUE
  /\ UNCHANGED <<mode, pc, intensity, left, begun>>

\* main() returns; its daemon threads end where they are.
Exit ==
  /\ stop
  /\ pc' = [t \in Threads |-> IF pc[t] = "off" THEN "off" ELSE "done"]
  /\ UNCHANGED <<mode, stop, intensity, left, begun>>

CampaignNext ==
  \/ QueryBenign \/ WaitBenign
  \/ \E t \in REGISTRY :
       \/ EnterBurst(t) \/ EndWave(t) \/ Query(t) \/ Gap(t)
       \/ \E i \in {"loud", "slow"} : NextWave(t, i)
       \/ \E n \in BurstSize[t][intensity[t]] : DoBurst(t, n)
  \/ Interrupt \/ Exit

CampaignSpec == CampaignInit /\ [][CampaignNext]_campaignVars

-----------------------------------------------------------------------------
(* Properties. *)

\* Once the stop event is set each injector begins one burst at most, the one
\* for which it had looked at the event before, and none begins a wave.
AtMostOneBurstAfterStop == \A t \in REGISTRY : begun[t] <= 1
=============================================================================
