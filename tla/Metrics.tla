------------------------------ MODULE Metrics ------------------------------
(***************************************************************************)
(* MetricsRegistry of src/src/zeython/metrics.py: an application's         *)
(* handlers ask it for a metric by name whenever they have something to    *)
(* record, as docs/metrics.md allows, and /metrics renders what it holds.  *)
(* No method awaits: each call is one step of the event loop.              *)
(***************************************************************************)
EXTENDS Integers, Sequences, FiniteSets

CONSTANTS Names,
          Labels,    \* the values of the one label that a metric may have
          Bounds,    \* the sets of bounds that a histogram may be given
          Amounts,   \* integers, and NotFinite
          NotFinite, \* the float inf, or NaN
          MaxCalls

Unlabelled == ""
NotThere == [kind |-> "none"]

VARIABLES
  metric,  \* _by_name: the kind, the labels and the bounds of each
  values,  \* of each metric and key: the sum, the count and the buckets
  calls,   \* the calls that did not raise
  scraped  \* how the last scrape ended

vars == <<metric, values, calls, scraped>>

Asked == [kind : {"counter", "gauge"}, labelled : BOOLEAN, bounds : {{}}] \cup
         [kind : {"histogram"}, labelled : BOOLEAN, bounds : Bounds]
Methods(kind) == CASE kind = "counter" -> {"inc"}
                   [] kind = "gauge" -> {"inc", "dec", "set"}
                   [] kind = "histogram" -> {"observe"}
Keys == Labels \cup {Unlabelled}
SamplesOf(m) == [sum : Int \cup {NotFinite}, count : Nat, buckets : [m.bounds -> Nat]]

TypeOK ==
  /\ metric \in [Names -> Asked \cup {NotThere}]
  /\ \A n \in Names : /\ DOMAIN values[n] \subseteq Keys
                      /\ \A k \in DOMAIN values[n] : values[n][k] \in SamplesOf(metric[n])
  /\ Len(calls) <= MaxCalls /\ \A i \in DOMAIN calls : calls[i].name \in Names
  /\ scraped \in {"never", "answered", "crashed"}

Init ==
  /\ metric = [n \in Names |-> NotThere]
  /\ values = [n \in Names |-> <<>>]
  /\ calls = <<>> /\ scraped = "never"

(***************************************************************************)
(* counter(), gauge() and histogram()                                      *)
(***************************************************************************)

(* Mutant: each call makes a new metric.                                   *)
AlwaysNew(n, a) == [found |-> a, samples |-> <<>>]

(* _get_or_create(): the first to ask has decided on kind, labels, bounds. *)
GetOrCreate(n, a) ==
  IF metric[n] = NotThere THEN [found |-> a, samples |-> <<>>]
                          ELSE [found |-> metric[n], samples |-> values[n]]

(***************************************************************************)
(* inc(), dec(), set() and observe()                                       *)
(***************************************************************************)

Plus(x, y) == IF NotFinite \in {x, y} THEN NotFinite ELSE x + y
Minus(x, y) == IF NotFinite \in {x, y} THEN NotFinite ELSE x - y
Negative(x) == x # NotFinite /\ x < 0

(* The "+Inf" bucket is the count: they differ for NaN alone, which no      *)
(* scrape survives.                                                        *)
Zero(m) == [sum |-> 0, count |-> 0, buckets |-> [b \in m.bounds |-> 0]]

(* _key(): a label that the metric was made without is dropped.            *)
KeyOf(m, label) == IF m.labelled THEN label ELSE Unlabelled
SampleOf(samples, k, m) == IF k \in DOMAIN samples THEN samples[k] ELSE Zero(m)

Changed(s, method, x) ==
  CASE method = "inc" -> [s EXCEPT !.sum = Plus(@, x)]
    [] method = "dec" -> [s EXCEPT !.sum = Minus(@, x)]
    [] method = "set" -> [s EXCEPT !.sum = x]
    [] method = "observe" ->
         [sum |-> Plus(s.sum, x), count |-> s.count + 1,
          buckets |-> [b \in DOMAIN s.buckets |->
            IF x # NotFinite /\ x <= b THEN s.buckets[b] + 1 ELSE s.buckets[b]]]

(* registry.<kind>(n, ...).<method>(x, label=label).  A name that has      *)
(* another kind raises, and so does what would make a counter drop.        *)
Record(n, a, method, x, label) ==
  LET m == GetOrCreate(n, a).found
      s == GetOrCreate(n, a).samples
      k == KeyOf(m, label)
      raises == m.kind # a.kind \/ (method = "inc" /\ m.kind = "counter" /\ Negative(x))
  IN /\ Len(calls) < MaxCalls /\ method \in Methods(a.kind)
     /\ metric' = [metric EXCEPT ![n] = m]
     /\ IF raises THEN values' = [values EXCEPT ![n] = s] /\ UNCHANGED calls
        ELSE /\ values' = [values EXCEPT ![n] =
                  [j \in DOMAIN s \cup {k} |->
                     IF j = k THEN Changed(SampleOf(s, k, m), method, x) ELSE s[j]]]
             /\ calls' = Append(calls, [name |-> n, method |-> method, amount |-> x, label |-> label])
     /\ UNCHANGED scraped

(***************************************************************************)
(* /metrics                                                                *)
(***************************************************************************)

(* _format_value() raises for a float that int() has no integer for.       *)
Renders == \A n \in Names : \A k \in DOMAIN values[n] : values[n][k].sum # NotFinite

Scrape ==
  /\ scraped' = IF Renders THEN "answered" ELSE "crashed"
  /\ UNCHANGED <<metric, values, calls>>

Next ==
  \/ \E n \in Names, a \in Asked, x \in Amounts, label \in Labels :
       \E method \in Methods(a.kind) : Record(n, a, method, x, label)
  \/ Scrape

Spec == Init /\ [][Next]_vars

(***************************************************************************)
(* Properties                                                              *)
(***************************************************************************)

(* The calls that count for a sample, but for those before the last set(). *)
CountFor(n, k) ==
  LET of == {i \in DOMAIN calls : calls[i].name = n /\ KeyOf(metric[n], calls[i].label) = k}
  IN  {i \in of : \A j \in of : calls[j].method = "set" => j <= i}
Amount(i) == IF calls[i].method = "dec" THEN -calls[i].amount ELSE calls[i].amount
Total(counted) ==
  LET upTo[i \in 0 .. Len(calls)] ==
        IF i = 0 THEN 0 ELSE upTo[i - 1] + IF i \in counted THEN Amount(i) ELSE 0
  IN  upTo[Len(calls)]

(* A metric is the same for all who ask for its name, also with other      *)
(* labels or bounds, and none of their calls is lost or counted twice: the *)
(* samples tell what the calls amount to, and each bucket how many of the  *)
(* values lay below its bound (metrics.py:82-185, docs/metrics.md:88-91).  *)
SamplesTellCalls ==
  \A n \in Names : \A k \in DOMAIN values[n] :
    LET counted == CountFor(n, k)
        s == values[n][k]
        finite == \A i \in counted : calls[i].amount # NotFinite
    IN  /\ counted # {}
        /\ s.sum = IF finite THEN Total(counted) ELSE NotFinite
        /\ metric[n].kind = "histogram" =>
             /\ s.count = Cardinality(counted)
             /\ \A b \in metric[n].bounds : s.buckets[b] =
                  Cardinality({i \in counted : calls[i].amount # NotFinite /\ calls[i].amount <= b})

(* A scrape only fails when the application has recorded a float that is   *)
(* not finite (metrics.py:56-57).                                          *)
ScrapesFailForAReason ==
  scraped = "crashed" => \E i \in DOMAIN calls : calls[i].amount = NotFinite
=============================================================================
