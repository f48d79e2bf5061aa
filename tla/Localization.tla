---------------------------- MODULE Localization ----------------------------
(***************************************************************************)
(* src/src/zeython/localization.py: LocaleMiddleware chooses the locale of *)
(* a request by the files that are on disk at that moment, the Translator  *)
(* reads a locale's file once and keeps what it found, and deployments     *)
(* add, replace and remove files in between.                               *)
(***************************************************************************)
EXTENDS Naturals, Sequences, FiniteSets

CONSTANTS Tags,         \* of languages; a locale is the tag of its file
          BaseOf(_),    \* tag.split("-")[0]
          Headers,      \* Accept-Language: sequences of [tag, q]
          Texts,        \* editions of a file, each a set of the keys it has
          Key,          \* the key that is translated
          Default, Fallback,
          MaxDeploys

Unset == "unset"
NoFile == "no file"

(* t() answers with the text of a locale's file in one of its editions, or *)
(* with the key itself.                                                    *)
TheKey == [locale |-> Unset, edition |-> Unset]

VARIABLES
  files,      \* of each locale: the edition on disk
  cache,      \* Translator._cache: the edition that was read, or none
  inRequest,
  asked,      \* the request's ?lang= and Accept-Language
  current,    \* _current_locale
  available,  \* what was on disk when the locale was resolved
  told,       \* of each locale: what t() answered in it first
  constant,   \* every later answer was the same
  deploys

vars == <<files, cache, inRequest, asked, current, available, told, constant,
          deploys>>

Editions == DOMAIN Texts
Available == {l \in Tags : files[l] # NoFile}
NotAsked == [lang |-> Unset, header |-> <<>>]
Asked == [lang : Tags \cup {Unset}, header : Headers]

TypeOK ==
  /\ files \in [Tags -> Editions \cup {NoFile}]
  /\ cache \in [Tags -> Editions \cup {NoFile, Unset}]
  /\ inRequest \in BOOLEAN
  /\ asked \in Asked
  /\ current \in Tags \cup {Unset}
  /\ available \in SUBSET Tags
  /\ told \in [Tags -> [locale : Tags \cup {Unset},
                        edition : Editions \cup {Unset}] \cup {<<>>}]
  /\ constant \in BOOLEAN
  /\ deploys \in 0 .. MaxDeploys
  /\ inRequest = (current # Unset)

Init ==
  /\ files \in [Tags -> {NoFile} \cup Editions]
  /\ cache = [l \in Tags |-> Unset]
  /\ inRequest = FALSE
  /\ asked = NotAsked
  /\ current = Unset
  /\ available = {}
  /\ told = [l \in Tags |-> <<>>]
  /\ constant = TRUE
  /\ deploys = 0

(* A file is added, replaced or removed under the running process.         *)
Deploy(l, e) ==
  /\ deploys < MaxDeploys
  /\ files[l] # e
  /\ files' = [files EXCEPT ![l] = e]
  /\ deploys' = deploys + 1
  /\ UNCHANGED <<cache, inRequest, asked, current, available, told, constant>>

(***************************************************************************)
(* LocaleMiddleware                                                        *)
(***************************************************************************)

(* entries.sort(): by quality, in the header's order where it is the same. *)
Before(h, i, k) == h[i].q > h[k].q \/ (h[i].q = h[k].q /\ i < k)
Place(h, i) == 1 + Cardinality({k \in DOMAIN h : Before(h, k, i)})

(* Mutant: in the header's order.                                          *)
Unsorted(h) == h

Sorted(h) ==
  [n \in DOMAIN h |-> h[CHOOSE i \in DOMAIN h : Place(h, i) = n]]

(* _parse_accept_language(): of each entry the tag, then its base.  `seen` *)
(* drops what has been a candidate before, which cannot be chosen later.   *)
Candidates(h) ==
  [n \in 1 .. 2 * Len(h) |->
     LET entry == Sorted(h)[(n + 1) \div 2]
     IN  IF n % 2 = 1 THEN entry.tag ELSE BaseOf(entry.tag)]

FirstOf(h, locales) ==
  LET fit == {n \in DOMAIN Candidates(h) : Candidates(h)[n] \in locales}
  IN  IF fit = {} THEN Default
                  ELSE Candidates(h)[CHOOSE n \in fit : \A k \in fit : n <= k]

Resolve(a, locales) ==
  IF a.lang \in locales THEN a.lang ELSE FirstOf(a.header, locales)

Enter(a) ==
  /\ ~inRequest
  /\ inRequest' = TRUE
  /\ asked' = a /\ available' = Available
  /\ current' = Resolve(a, Available)
  /\ UNCHANGED <<files, cache, told, constant, deploys>>

(* The handler returned or raised.                                         *)
Reset ==
  /\ inRequest
  /\ inRequest' = FALSE /\ current' = Unset
  /\ asked' = NotAsked /\ available' = {}
  /\ UNCHANGED <<files, cache, told, constant, deploys>>

(***************************************************************************)
(* Translator                                                              *)
(***************************************************************************)

(* Mutant: a missing file is looked for again.                             *)
ReadUnlessFound(held, l) ==
  IF held[l] \in {Unset, NoFile} THEN [held EXCEPT ![l] = files[l]] ELSE held

(* _translations_for(): a file that is missing counts as an empty one.     *)
Read(held, l) ==
  IF held[l] = Unset THEN [held EXCEPT ![l] = files[l]] ELSE held

Has(held, l) == held[l] \in Editions /\ Key \in Texts[held[l]]
TextIn(held, l) ==
  IF Has(held, l) THEN [locale |-> l, edition |-> held[l]] ELSE TheKey

(* t(): the locale's file, then the fallback's, which is only read when    *)
(* it is needed.                                                           *)
Translate(l) ==
  LET own  == Read(cache, l)
      both == IF Has(own, l) \/ l = Fallback THEN own ELSE Read(own, Fallback)
      text == IF Has(own, l) THEN TextIn(own, l) ELSE TextIn(both, Fallback)
  IN  /\ cache' = both
      /\ told' = [told EXCEPT ![l] = IF @ = <<>> THEN text ELSE @]
      /\ constant' = (constant /\ told[l] \in {<<>>, text})
      /\ UNCHANGED <<files, inRequest, asked, current, available, deploys>>

(* In a request's locale, in that of the argument, or in the default one.  *)
TranslateInRequest == inRequest /\ Translate(current)
TranslateWithout == \E l \in Tags : Translate(l)

Next ==
  \/ \E l \in Tags, e \in Editions \cup {NoFile} : Deploy(l, e)
  \/ \E a \in Asked : Enter(a)
  \/ Reset
  \/ TranslateInRequest \/ TranslateWithout

Spec == Init /\ [][Next]_vars

(***************************************************************************)
(* Properties                                                              *)
(***************************************************************************)

(* How much the client wants a locale: the best quality of the tags that   *)
(* are the locale or have it as their base.                                *)
Wanted(h, l) ==
  {h[i].q : i \in {k \in DOMAIN h : l \in {h[k].tag, BaseOf(h[k].tag)}}}
AtLeast(p, q) == \A n \in q : \E m \in p : m >= n

(* The locale of a request had a file, and the client wanted no other that *)
(* had one more; the default stands in only if it wanted none of them      *)
(* (localization.py:37-68, 163-182).                                       *)
BestAvailable ==
  inRequest =>
    LET wanted == {l \in available : Wanted(asked.header, l) # {}}
    IN  IF asked.lang \in available THEN current = asked.lang
        ELSE IF wanted = {} THEN current = Default
        ELSE /\ current \in wanted
             /\ \A l \in wanted : AtLeast(Wanted(asked.header, current),
                                          Wanted(asked.header, l))

(* A process answers with one text for a key in a locale, whatever is      *)
(* deployed meanwhile, and whether the locale has a file or has none       *)
(* (localization.py:97-101, 116-124).                                      *)
TextsAreConstant == constant

=============================================================================
