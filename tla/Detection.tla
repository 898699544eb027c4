----------------------------- MODULE Detection -----------------------------
(***************************************************************************)
(* From the packets of a host in a window to an alert: the features        *)
(* (containers/defender/features/dns.py), the character autoencoder and    *)
(* its attribution (detect/char_ae.py), the candidate techniques (enrich/  *)
(* mitre_map.py) and the decision of DetectSink.handle().                  *)
(*                                                                         *)
(* A name is a record of what the code measures on it: id, length, label   *)
(* (length of its longest label), entropy (tenths of bits, the higher of   *)
(* that label's and of the whole subdomain's), domain, and score (the loss *)
(* the model gives it).  Prominences are in units of 1/3000, in which the  *)
(* reference scales of char_ae.py divide exactly.                          *)
(***************************************************************************)
EXTENDS Integers, Sequences, FiniteSets, FiniteSetsExt, Functions

CONSTANTS
  Names,       \* the names packets of an arbitrary window ask for
  QNAMES_MAX,  \* unique names kept of a window (256)
  Threshold,   \* of the loaded model
  Entropies,   \* the entropies an encoded label can have
  NoName,
  MaxEvents    \* bound

VARIABLES
  window,  \* the events of the window
  attack,  \* the scenario they come from, "none" for an arbitrary window
  alert    \* what was decided when the window closed, << >> before

vars == <<window, attack, alert>>

Query(name, qtype) == [is_response |-> FALSE, qname |-> name, qtype |-> qtype]
Response == [is_response |-> TRUE, qname |-> NoName, qtype |-> "A"]

-----------------------------------------------------------------------------
(* Features. *)

\* positions of the queries, and of those that have a name
Queries(w) == {i \in DOMAIN w : ~w[i].is_response}
Named(w) == {i \in Queries(w) : w[i].qname # NoName}
QNames(w) == {w[i].qname : i \in Named(w)}

TxtCount(w) == Cardinality({i \in Queries(w) : w[i].qtype = "TXT"})
MaxEntropy(w) == Max({q.entropy : q \in QNames(w)} \cup {0})

\* unique_subdomains_per_domain, times 1000
SubdomainsPerDomain(w) ==
  LET domains == {q.domain : q \in QNames(w)}
  IN  IF domains = {} THEN 0 ELSE (1000 * Cardinality(QNames(w))) \div Cardinality(domains)

\* meta["qnames"]: the first unique names, at the positions they were asked at
UniqueAmong(w, I) == Cardinality({w[i].qname : i \in Named(w) \cap I})
KeptOfLast(w) ==
  [i \in {i \in Named(w) : UniqueAmong(w, i .. Len(w)) <= QNAMES_MAX} |-> w[i].qname]
Kept(w) ==
  [i \in {i \in Named(w) : UniqueAmong(w, 1 .. i) <= QNAMES_MAX} |-> w[i].qname]

\* response_fraction >= RESPONSE_ALERT_THRESHOLD (one half)
MostlyResponses(w) == w # << >> /\ 2 * (Len(w) - Cardinality(Queries(w))) >= Len(w)

-----------------------------------------------------------------------------
(* Score and attribution. *)

\* the first of the names with the highest loss
Worst(w) ==
  LET names == Kept(w)
      highest == Max({names[i].score : i \in DOMAIN names})
  IN  names[Min({i \in DOMAIN names : names[i].score = highest})]

IsAnomaly(w) == DOMAIN Kept(w) # {} /\ Worst(w).score > Threshold

Prominence(scaled) == Min({scaled, 8 * 3000})

AllKeys(q, w) ==
  [query_name_length            |-> Prominence(q.length * 120),
   subdomain_entropy            |-> Prominence(Max({MaxEntropy(w), q.entropy}) * 100),
   encoded_labels               |-> Prominence(q.label * 250),
   txt_record_count             |-> Prominence(TxtCount(w) * 1500),
   unique_subdomains_per_domain |-> Prominence(SubdomainsPerDomain(w)),
   qname_reconstruction_error   |-> q.score]

Attribution(w) ==
  LET all == AllKeys(Worst(w), w)
      shown == {k \in DOMAIN all : all[k] > 0}
                 \cup {"query_name_length", "qname_reconstruction_error"}
  IN  [k \in shown |-> all[k]]

-----------------------------------------------------------------------------
(* Candidate techniques. *)

\* dns_techniques.json, in its order
Techniques == <<"T1071.004", "T1572", "T1048.003">>

\* _tokens() of the indicators
IndicatorTokens(t) ==
  CASE t = "T1071.004" -> {"txt", "record", "regular", "beacon", "cadence", "query", "name", "length"}
    [] t = "T1572"     -> {"subdomain", "entropy", "unique", "domain", "qtype"}
    [] t = "T1048.003" -> {"encoded", "label", "query", "long", "data"}

\* _tokens() of a feature's name
Tokens ==
  [query_name_length            |-> {"query", "name", "length"},
   subdomain_entropy            |-> {"subdomain", "entropy"},
   encoded_labels               |-> {"encoded", "label"},
   txt_record_count             |-> {"txt", "record"},
   unique_subdomains_per_domain |-> {"unique", "subdomain", "domain"},
   qname_reconstruction_error   |-> {"qname", "reconstruction", "error"}]

\* An attribution has at most top_k_features keys: none is cut off.
Supporting(t, attribution) ==
  {k \in DOMAIN attribution : attribution[k] > 0 /\ Tokens[k] \cap IndicatorTokens(t) # {}}
SupportUnweighted(t, attribution) == Cardinality(Supporting(t, attribution))
Support(t, attribution) ==
  LET value(k) == IF k \in Supporting(t, attribution) THEN attribution[k] ELSE 0
  IN  value("query_name_length") + value("subdomain_entropy") + value("encoded_labels")
        + value("txt_record_count") + value("unique_subdomains_per_domain")
        + value("qname_reconstruction_error")

\* Best supported first, in the order of the file among equals
CandidateTechniques(attribution) ==
  LET position(t) == CHOOSE i \in DOMAIN Techniques : Techniques[i] = t
      before(s, t) == \/ Support(s, attribution) > Support(t, attribution)
                      \/ /\ Support(s, attribution) = Support(t, attribution)
                         /\ position(s) < position(t)
      supported == {t \in Range(Techniques) : Support(t, attribution) > 0}
  IN  [i \in 1 .. Cardinality(supported) |->
         CHOOSE t \in supported : Cardinality({s \in supported : before(s, t)}) = i - 1]

\* DetectSink.handle() of one record
Verdict(w) ==
  IF MostlyResponses(w) THEN [outcome |-> "suppressed"]
  ELSE IF ~IsAnomaly(w) THEN [outcome |-> "quiet"]
  ELSE [outcome |-> "alert", score |-> Worst(w).score,
        candidate_techniques |-> CandidateTechniques(Attribution(w))]

Alerts(w) == Verdict(w).outcome = "alert"

-----------------------------------------------------------------------------
(* Windows: arbitrary ones, packet by packet, and those of eval/scenarios.py *)

Init == window = << >> /\ attack = "none" /\ alert = << >>

Observe(e) ==
  /\ alert = << >> /\ attack = "none" /\ Len(window) < MaxEvents
  /\ window' = Append(window, e)
  /\ UNCHANGED <<attack, alert>>

\* n queries for encoded names, each asked once, of one length
Encoded(n, label, entropy, suffix, qtype) ==
  [i \in 1 .. n |->
     Query([id |-> i, label |-> label, length |-> label + suffix, entropy |-> entropy,
            domain |-> "example.local", score |-> Threshold + 1], qtype)]

\* loud tunnel_dns(), exfil_dns() and c2_dns(): queries, label, rest of the name
Loud == [dns_tunnel |-> [n |-> 15 .. 30, label |-> 12 .. 18, suffix |-> 23, qtype |-> "A"],
         dns_exfil  |-> [n |-> 2 .. 5,   label |-> 40 .. 52, suffix |-> 20, qtype |-> "A"],
         dns_c2     |-> [n |-> 5 .. 9,   label |-> 18 .. 26, suffix |-> 21, qtype |-> "TXT"]]

Replay(class, n, label, entropy) ==
  /\ window = << >> /\ alert = << >>
  /\ attack' = class
  /\ window' = Encoded(n, label, entropy, Loud[class].suffix, Loud[class].qtype)
  /\ UNCHANGED alert

Close ==
  /\ window # << >> /\ alert = << >>
  /\ alert' = <<Verdict(window)>>
  /\ UNCHANGED <<window, attack>>

Next ==
  \/ \E q \in Names \cup {NoName}, t \in {"A", "TXT"} : Observe(Query(q, t))
  \/ Observe(Response)
  \/ \E class \in DOMAIN Loud : \E n \in Loud[class].n, label \in Loud[class].label :
       \E e \in Entropies : Replay(class, n, label, e)
  \/ Close

Spec == Init /\ [][Next]_vars

-----------------------------------------------------------------------------
(* Properties. *)

\* A query more never takes an alert back, though it changes the entropy, the
\* fan-out, the response fraction and the names that are scored: nothing seen
\* later hides what was anomalous, and nothing kept is pushed out by the limit.
MoreQueriesKeepTheAlert ==
  [][\A q \in Names \cup {NoName}, t \in {"A", "TXT"} :
       window' = Append(window, Query(q, t)) /\ Alerts(window) => Alerts(window')]_vars

\* cti_eval.py's ground truth
Primary == [dns_tunnel |-> "T1572", dns_exfil |-> "T1048.003", dns_c2 |-> "T1071.004"]

\* evaluate(): the detected window counts for its class's top1_acc
TopOne(class, verdict) ==
  verdict.candidate_techniques # << >> /\ verdict.candidate_techniques[1] = Primary[class]

\* The references, caps and tokens of three files lead each loud attack of the
\* scenarios, whatever its volume, label and entropy, to its own technique
\* first: the dashboard counts only the first.
LoudAttackIsNamedFirst ==
  attack # "none" /\ alert # << >> =>
    /\ alert[1].outcome = "alert"
    /\ TopOne(attack, alert[1])
=============================================================================
