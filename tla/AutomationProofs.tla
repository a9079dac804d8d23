-------------------------- MODULE AutomationProofs --------------------------
(***************************************************************************)
(* Proofs about Automation, for every value of its constants: a rule is    *)
(* never commanded twice for one edge, whatever routes, failures and       *)
(* restarts do meanwhile.                                                  *)
(*                                                                         *)
(* The invariant says that the dicts in use exist (Shape, Alive) and that  *)
(* a rule whose edge has been acted on says so itself (Remembered): the    *)
(* pass decides on last_state alone.                                       *)
(*                                                                         *)
(* AutomationInv needs three more: list and file have one rule per id      *)
(* (IdInv), since a restart loads the one from the other; what the pass    *)
(* and the rescue carry has its type (PassInv); and an incident that has   *)
(* been acted on keeps its latch (IncidentInv).                            *)
(***************************************************************************)
EXTENDS Automation, SequenceTheorems, TLAPS

\* Sequences and functions of the right kind, and the fields of the pass that
\* matter here.
Shape ==
    /\ rules \in Seq(Objects) /\ rule \in [Objects -> Records \cup {NoRule}]
    /\ file \in Seq(Records) /\ served \subseteq Objects
    /\ DOMAIN walk = {"pc", "list", "shared", "at", "on", "dirty", "snap"}
    /\ walk.list \in Seq(Objects) /\ walk.on \subseteq Objects
    /\ walk.at \in Nat \ {0}

Remembered == \A o \in served : rule[o] \in Records /\ rule[o].last = TRUE

EdgeInv == Shape /\ Alive /\ Remembered /\ OneFirePerEdge

-----------------------------------------------------------------------------
\* The elements of a sequence are the values it takes.
LEMMA Elements ==
    ASSUME NEW S, NEW s \in Seq(S), NEW i \in 1 .. Len(s)
    PROVE  s[i] \in S /\ s[i] \in ToSet(s) /\ ToSet(s) \subseteq S
BY DEF ToSet

\* Records keep their kind when the edge state or the switch is written.
LEMMA WriteRecord ==
    ASSUME NEW r \in Records, NEW last \in BOOLEAN \cup {Unset}
    PROVE  /\ [r EXCEPT !.last = last] \in Records
           /\ [r EXCEPT !.last = last].last = last
           /\ Disabled(r) \in Records
<1>1. [r EXCEPT !.last = last] \in Records /\ [r EXCEPT !.last = last].last = last
  BY DEF Records
<1>2. [[r EXCEPT !.enabled = FALSE] EXCEPT !.last = Unset] \in Records
  BY DEF Records
<1>3. Disabled(r) = [[r EXCEPT !.enabled = FALSE] EXCEPT !.last = Unset]
  BY DEF Disabled, Records
<1> QED
  BY <1>1, <1>2, <1>3

\* What a save writes is a sequence of records.
LEMMA ContentsType ==
    ASSUME NEW list \in Seq(Objects), NEW r,
           \A o \in ToSet(list) : r[o] \in Records
    PROVE  Contents(list, r) \in Seq(Records)
BY DEF Contents, ToSet

\* Loading the file gives every listed identity one of its records.
LEMMA Loading ==
    ASSUME NEW records \in Seq(Records), Fits(Len(records))
    PROVE  /\ Loaded(Len(records)) \in Seq(Objects)
           /\ \A o \in ToSet(Loaded(Len(records))) :
                Dicts(Loaded(Len(records)), records)[o] \in Records
           /\ Dicts(Loaded(Len(records)), records)
                \in [Objects -> Records \cup {NoRule}]
<1> DEFINE n == Len(records)
           list == Loaded(n)
<1>1. list \in [1 .. n -> Objects]
  BY DEF Fits, Loaded
<1>2. n \in Nat /\ list \in Seq(Objects) /\ DOMAIN list = 1 .. n
  BY <1>1
<1>3. \A o \in ToSet(list) : (CHOOSE i \in DOMAIN list : list[i] = o) \in 1 .. n
  BY <1>2 DEF ToSet
<1>4. \A o \in ToSet(list) :
        records[CHOOSE i \in DOMAIN list : list[i] = o] \in Records
  <2> TAKE o \in ToSet(list)
  <2> DEFINE i == CHOOSE i \in DOMAIN list : list[i] = o
  <2>1. i \in 1 .. Len(records)
    BY <1>3
  <2> HIDE DEF i
  <2>2. records[i] \in Records
    BY <2>1
  <2> QED
    BY <2>2 DEF i
<1>5. ToSet(list) \subseteq Objects
  BY <1>1 DEF ToSet
<1> HIDE DEF list
<1> QED
  BY <1>2, <1>4, <1>5 DEF Dicts, list

\* What Collect keeps of the dicts.
LEMMA Collected ==
    ASSUME NEW r \in [Objects -> Records \cup {NoRule}], NEW list, NEW w
    PROVE  /\ Collect(r, list, w) \in [Objects -> Records \cup {NoRule}]
           /\ \A o \in Objects :
                /\ o \in ToSet(list) \cup ToSet(w.list) \cup w.on
                     => Collect(r, list, w)[o] = r[o]
                /\ Collect(r, list, w)[o] # NoRule => Collect(r, list, w)[o] = r[o]
BY DEF Collect

-----------------------------------------------------------------------------
LEMMA InitEdge == Init => EdgeInv
<1> SUFFICES ASSUME Init PROVE EdgeInv
  OBVIOUS
<1>1. file \in Seq(Records) /\ Fits(Len(file))
  BY AutomationAssumption DEF Init, AutomationAssumption
<1>2. /\ rules = Loaded(Len(file)) /\ rule = Dicts(rules, file)
      /\ walk = Idle /\ served = {o \in ToSet(rules) : rule[o].last = TRUE}
  BY DEF Init
<1>3. /\ rules \in Seq(Objects) /\ rule \in [Objects -> Records \cup {NoRule}]
      /\ \A o \in ToSet(rules) : rule[o] \in Records
  BY <1>1, <1>2, Loading
<1>4. ToSet(rules) \subseteq Objects /\ served \subseteq ToSet(rules)
  BY <1>2, <1>3 DEF ToSet
<1>5. walk.list = <<>> /\ walk.on = {} /\ ToSet(walk.list) = {}
  BY <1>2 DEF Idle, ToSet
<1>6. Shape
  BY <1>1, <1>2, <1>3, <1>4 DEF Shape, Idle
<1>7. Alive /\ Remembered /\ OneFirePerEdge
  BY <1>2, <1>3, <1>4, <1>5 DEF Alive, Remembered, OneFirePerEdge
<1> QED
  BY <1>6, <1>7 DEF EdgeInv

\* Steps that leave the rules alone and the pass with the list it has.
LEMMA Elsewhere ==
    ASSUME EdgeInv, UNCHANGED <<rules, rule, file, served>>,
           DOMAIN walk' = DOMAIN walk, walk'.at \in Nat \ {0},
           walk'.list = walk.list \/ walk'.list = <<>>,
           walk'.on = walk.on \/ walk'.on = {}
    PROVE  EdgeInv'
<1>0. <<>> \in Seq(Objects) /\ ToSet(<<>>) = {}
  BY DEF ToSet
<1>1. ToSet(walk'.list) \subseteq ToSet(walk.list) /\ walk'.list \in Seq(Objects)
  BY <1>0 DEF EdgeInv, Shape
<1>2. walk'.on \subseteq walk.on
  OBVIOUS
<1> QED
  BY <1>1, <1>2 DEF EdgeInv, Shape, Alive, Remembered, OneFirePerEdge

\* The rule the pass is at is a dict in use.
LEMMA AtRule ==
    ASSUME EdgeInv, NEW o \in Objects, At(o)
    PROVE  rule[o] \in Records
<1>1. WalkList \in Seq(Objects) /\ ToSet(WalkList) \subseteq ToSet(rules) \cup ToSet(walk.list)
  BY DEF EdgeInv, Shape, WalkList
<1>2. walk.at \in 1 .. Len(WalkList) /\ o = WalkList[walk.at]
  BY <1>1 DEF At, EdgeInv, Shape
<1>3. o \in ToSet(WalkList)
  BY <1>1, <1>2, Elements
<1> QED
  BY <1>1, <1>3 DEF EdgeInv, Alive

\* A step of the walk that writes one rule's edge state.
LEMMA WriteEdge ==
    ASSUME EdgeInv, NEW o \in Objects, rule[o] \in Records,
           NEW last \in BOOLEAN \cup {Unset},
           rule' = [rule EXCEPT ![o].last = last],
           served' \subseteq served, o \in served' => last = TRUE,
           UNCHANGED <<rules, file>>,
           DOMAIN walk' = DOMAIN walk, walk'.at = walk.at + 1,
           walk'.list = walk.list, walk'.on = walk.on
    PROVE  EdgeInv'
<1>1. /\ rule' = [rule EXCEPT ![o] = [rule[o] EXCEPT !.last = last]]
      /\ rule'[o] = [rule[o] EXCEPT !.last = last]
      /\ \A p \in Objects \ {o} : rule'[p] = rule[p]
  BY DEF EdgeInv, Shape
<1> DEFINE r == [rule[o] EXCEPT !.last = last]
<1>0. r \in Records /\ r.last = last
  BY WriteRecord
<1> HIDE DEF r
<1>2. rule'[o] \in Records /\ rule'[o].last = last
  BY <1>0, <1>1 DEF r
<1>3. rule' \in [Objects -> Records \cup {NoRule}]
  BY <1>1, <1>2 DEF EdgeInv, Shape
<1>4. Shape'
  BY <1>3 DEF EdgeInv, Shape
<1>5. Alive'
  BY <1>1, <1>2, <1>4 DEF EdgeInv, Alive, Shape, ToSet
<1>6. Remembered'
  BY <1>1, <1>2 DEF EdgeInv, Remembered, Shape
<1>7. OneFirePerEdge'
  BY DEF EdgeInv, OneFirePerEdge
<1> QED
  BY <1>4, <1>5, <1>6, <1>7 DEF EdgeInv

-----------------------------------------------------------------------------
LEMMA ToggleEdge ==
    ASSUME EdgeInv, NEW o \in Objects, NEW ok \in BOOLEAN, ToggleReply(o, ok)
    PROVE  EdgeInv'
<1> DEFINE r == [rule EXCEPT ![o] = Consumed(@, ok)]
<1>1. rule[o] \in Records /\ o \in walk.on
  BY DEF ToggleReply, EdgeInv, Alive
<1>2. /\ Consumed(rule[o], ok) \in Records
      /\ ok => Consumed(rule[o], ok).last = TRUE
      /\ ~ok => Consumed(rule[o], ok) = rule[o]
  BY <1>1, WriteRecord DEF Consumed
<1>3. /\ r \in [Objects -> Records \cup {NoRule}]
      /\ r[o] = Consumed(rule[o], ok)
      /\ \A p \in Objects \ {o} : r[p] = rule[p]
  BY <1>2 DEF EdgeInv, Shape
<1>4. /\ DOMAIN walk' = DOMAIN walk /\ walk'.on = {} /\ walk'.list = walk.list
      /\ walk'.at = walk.at + 1
  BY DEF ToggleReply, EdgeInv, Shape
<1>5. /\ rules' = rules /\ file' = file /\ rule' = Collect(r, rules, walk')
      /\ served' = {p \in Objects : rule'[p] # NoRule
                                      /\ p \in served \cup (IF ok THEN {o} ELSE {})}
  BY DEF ToggleReply
<1> HIDE DEF r
<1>6. /\ rule' \in [Objects -> Records \cup {NoRule}]
      /\ \A p \in Objects : /\ p \in ToSet(rules) \cup ToSet(walk.list) => rule'[p] = r[p]
                            /\ rule'[p] # NoRule => rule'[p] = r[p]
  BY <1>3, <1>4, <1>5, Collected
<1>7. Shape'
  BY <1>4, <1>5, <1>6 DEF EdgeInv, Shape
<1>8. ToSet(rules) \subseteq Objects /\ ToSet(walk.list) \subseteq Objects
  BY DEF EdgeInv, Shape, ToSet
<1>9. Alive'
  BY <1>2, <1>3, <1>4, <1>5, <1>6, <1>8 DEF EdgeInv, Alive
<1>10. Remembered'
  BY <1>2, <1>3, <1>5, <1>6 DEF EdgeInv, Remembered, Shape
<1>11. OneFirePerEdge'
  BY <1>4 DEF OneFirePerEdge
<1> QED
  BY <1>7, <1>9, <1>10, <1>11 DEF EdgeInv

\* Collecting garbage: the rules stay, the references can only get fewer.
LEMMA Collecting ==
    ASSUME EdgeInv, rules' \in Seq(Objects), file' \in Seq(Records),
           ToSet(rules') \subseteq ToSet(rules),
           rule' = Collect(rule, rules', walk'),
           served' = {p \in served : rule'[p] # NoRule},
           DOMAIN walk' = DOMAIN walk, walk'.at \in Nat \ {0},
           walk'.list \in Seq(Objects),
           ToSet(walk'.list) \subseteq ToSet(rules) \cup ToSet(walk.list),
           walk'.on \subseteq walk.on
    PROVE  EdgeInv'
<1>0. rule \in [Objects -> Records \cup {NoRule}]
  BY DEF EdgeInv, Shape
<1>1. /\ rule' \in [Objects -> Records \cup {NoRule}]
      /\ \A p \in Objects :
           /\ p \in ToSet(rules') \cup ToSet(walk'.list) \cup walk'.on
                => rule'[p] = rule[p]
           /\ rule'[p] # NoRule => rule'[p] = rule[p]
  BY <1>0, Collected
<1>2. Shape'
  BY <1>1 DEF EdgeInv, Shape
<1>3. /\ ToSet(rules') \subseteq Objects /\ ToSet(walk'.list) \subseteq Objects
      /\ walk'.on \subseteq Objects
  BY <1>2 DEF Shape, ToSet
<1>4. Alive'
  BY <1>1, <1>3 DEF EdgeInv, Alive
<1>5. Remembered'
  BY <1>1 DEF EdgeInv, Remembered, Shape
<1>6. OneFirePerEdge'
  BY DEF EdgeInv, OneFirePerEdge
<1> QED
  BY <1>2, <1>4, <1>5, <1>6 DEF EdgeInv

LEMMA EndEdge == EdgeInv /\ EndWalk => EdgeInv'
<1> SUFFICES ASSUME EdgeInv, EndWalk PROVE EdgeInv'
  OBVIOUS
<1>1. /\ rules' = rules /\ rule' = Collect(rule, rules', walk')
      /\ served' = {p \in served : rule'[p] # NoRule}
      /\ file' = IF walk.dirty THEN Contents(rules, rule) ELSE file
  BY DEF EndWalk
<1>2. /\ DOMAIN walk' = DOMAIN walk /\ walk'.at = 1 /\ walk'.list = <<>>
      /\ walk'.on = {}
  BY DEF EndWalk, Idle, EdgeInv, Shape
<1>3. <<>> \in Seq(Objects) /\ ToSet(<<>>) = {}
  BY DEF ToSet
<1>4. Contents(rules, rule) \in Seq(Records)
  BY ContentsType DEF EdgeInv, Shape, Alive
<1>5. file' \in Seq(Records) /\ rules' \in Seq(Objects)
  BY <1>1, <1>4 DEF EdgeInv, Shape
<1> QED
  BY <1>1, <1>2, <1>3, <1>5, Collecting

LEMMA Removed ==
    ASSUME NEW S, NEW s \in Seq(S), NEW i \in 1 .. Len(s)
    PROVE  /\ RemoveAt(s, i) \in Seq(S) /\ Len(RemoveAt(s, i)) = Len(s) - 1
           /\ \A j \in 1 .. Len(RemoveAt(s, i)) :
                RemoveAt(s, i)[j] = IF j < i THEN s[j] ELSE s[j + 1]
<1> DEFINE a == SubSeq(s, 1, i - 1)
           b == SubSeq(s, i + 1, Len(s))
<1>0. Len(s) \in Nat
  OBVIOUS
<1>1. /\ a \in Seq(S) /\ Len(a) = i - 1
      /\ \A j \in 1 .. Len(a) : a[j] = s[j]
  BY <1>0
<1>2. /\ b \in Seq(S) /\ Len(b) = Len(s) - i
      /\ \A j \in 1 .. Len(b) : b[j] = s[i + j]
  BY <1>0
<1>3. RemoveAt(s, i) = a \o b
  BY DEF RemoveAt
<1> HIDE DEF a, b
<1>4. /\ a \o b \in Seq(S) /\ Len(a \o b) = Len(a) + Len(b)
      /\ \A j \in 1 .. (Len(a) + Len(b)) :
           (a \o b)[j] = IF j <= Len(a) THEN a[j] ELSE b[j - Len(a)]
  BY <1>1, <1>2, ConcatProperties
<1>5. Len(a \o b) = Len(s) - 1
  BY <1>0, <1>1, <1>2, <1>4
<1>6. ASSUME NEW j \in 1 .. (Len(s) - 1)
      PROVE  (a \o b)[j] = IF j < i THEN s[j] ELSE s[j + 1]
  <2>1. CASE j < i
    BY <1>0, <1>1, <1>2, <1>4, <2>1
  <2>2. CASE j >= i
    <3>1. (a \o b)[j] = b[j - (i - 1)] /\ j - (i - 1) \in 1 .. Len(b)
      BY <1>0, <1>1, <1>2, <1>4, <2>2
    <3>2. b[j - (i - 1)] = s[i + (j - (i - 1))] /\ i + (j - (i - 1)) = j + 1
      BY <1>0, <1>2, <3>1
    <3> QED
      BY <2>2, <3>1, <3>2
  <2>3. j < i \/ j >= i
    BY <1>0
  <2> QED
    BY <2>1, <2>2, <2>3
<1> QED
  BY <1>3, <1>4, <1>5, <1>6

LEMMA DeleteEdge ==
    ASSUME EdgeInv, NEW i \in DOMAIN rules, Delete(i)
    PROVE  EdgeInv'
<1>1. rules \in Seq(Objects) /\ i \in 1 .. Len(rules) /\ Len(rules) \in Nat
  BY DEF EdgeInv, Shape
<1>2. rules' = RemoveAt(rules, i)
  BY DEF Delete
<1>3. rules' \in Seq(Objects) /\ ToSet(rules') \subseteq ToSet(rules)
  <2>3. /\ rules' \in Seq(Objects) /\ Len(rules') = Len(rules) - 1
        /\ \A j \in 1 .. Len(rules') :
             rules'[j] = IF j < i THEN rules[j] ELSE rules[j + 1]
    BY <1>1, <1>2, Removed
  <2>5. \A j \in 1 .. Len(rules') : rules'[j] \in ToSet(rules)
    <3> TAKE j \in 1 .. Len(rules')
    <3>1. /\ j \in 1 .. Len(rules) /\ j + 1 \in 1 .. Len(rules)
          /\ rules'[j] = rules[j] \/ rules'[j] = rules[j + 1]
      BY <1>1, <2>3
    <3> QED
      BY <1>1, <3>1, Elements
  <2> QED
    BY <2>3, <2>5 DEF ToSet
<1>4. /\ rule' = Collect(rule, rules', walk')
      /\ served' = {p \in served : rule'[p] # NoRule}
      /\ file' = Contents(rules', rule')
  BY DEF Delete
<1>5. /\ DOMAIN walk' = DOMAIN walk /\ walk'.at = walk.at /\ walk'.on = walk.on
      /\ walk'.list = rules \/ walk'.list = walk.list
  BY DEF Delete, EdgeInv, Shape
<1>6. /\ walk'.list \in Seq(Objects) /\ walk'.at \in Nat \ {0}
      /\ ToSet(walk'.list) \subseteq ToSet(rules) \cup ToSet(walk.list)
  BY <1>1, <1>5 DEF EdgeInv, Shape
<1>7. \A o \in ToSet(rules') : rule'[o] \in Records
  <2>1. ToSet(rules') \subseteq Objects
    BY <1>3 DEF ToSet
  <2> QED
    BY <1>3, <1>4, <2>1, Collected DEF EdgeInv, Shape, Alive
<1>8. file' \in Seq(Records)
  BY <1>3, <1>4, <1>7, ContentsType
<1> QED
  BY <1>3, <1>4, <1>5, <1>6, <1>8, Collecting

\* A free identity is in nobody's hands.
LEMMA NewIsFree ==
    ASSUME EdgeInv, \E o \in Objects : rule[o] = NoRule
    PROVE  /\ New \in Objects /\ rule[New] = NoRule /\ New \notin served
           /\ New \notin ToSet(rules) \cup ToSet(walk.list) \cup walk.on
<1>1. New \in Objects /\ rule[New] = NoRule
  BY DEF New
<1> QED
  BY <1>1, AutomationAssumption
  DEF AutomationAssumption, EdgeInv, Alive, Remembered

LEMMA PlacedType ==
    ASSUME EdgeInv, New \in Objects, NEW rec
    PROVE  /\ Placed(rec) \in Seq(Objects)
           /\ ToSet(Placed(rec)) \subseteq ToSet(rules) \cup {New}
<1> DEFINE old == {i \in DOMAIN rules : rule[rules[i]].id = rec.id}
<1>1. rules \in Seq(Objects) /\ DOMAIN rules = 1 .. Len(rules)
  BY DEF EdgeInv, Shape
<1>2. CASE old = {}
  <2>1. Placed(rec) = Append(rules, New)
    BY <1>2 DEF Placed
  <2>2. Append(rules, New) \in Seq(Objects)
    BY <1>1
  <2>3. ToSet(Append(rules, New)) \subseteq ToSet(rules) \cup {New}
    BY <1>1 DEF ToSet
  <2> QED
    BY <2>1, <2>2, <2>3
<1>3. CASE old # {}
  <2> DEFINE list == [i \in DOMAIN rules |-> IF i \in old THEN New ELSE rules[i]]
  <2>1. Placed(rec) = list
    BY <1>3 DEF Placed
  <2> HIDE DEF old
  <2>2. list \in Seq(Objects)
    BY <1>1
  <2>3. ToSet(list) \subseteq ToSet(rules) \cup {New}
    BY <1>1 DEF ToSet
  <2> QED
    BY <2>1, <2>2, <2>3
<1> QED
  BY <1>2, <1>3

LEMMA UpsertEdge ==
    ASSUME EdgeInv, NEW rec \in Posts, Upsert(rec)
    PROVE  EdgeInv'
<1> DEFINE r == [rule EXCEPT ![New] = rec]
<1>1. /\ New \in Objects /\ rule[New] = NoRule /\ New \notin served
      /\ New \notin ToSet(rules) \cup ToSet(walk.list) \cup walk.on
  BY NewIsFree DEF Upsert
<1>2. rec \in Records
  BY AutomationAssumption DEF AutomationAssumption
<1>3. /\ r \in [Objects -> Records \cup {NoRule}] /\ r[New] = rec
      /\ \A o \in Objects \ {New} : r[o] = rule[o]
  BY <1>1, <1>2 DEF EdgeInv, Shape
<1>4. /\ rule' = Collect(r, rules', walk) /\ file' = Contents(rules', rule')
      /\ served' = {o \in Objects : rule'[o] # NoRule
                                      /\ o \in served \cup (IF rec.last = TRUE
                                                            THEN {New} ELSE {})}
      /\ walk' = walk
  BY DEF Upsert
<1>5. rules' \in Seq(Objects) /\ ToSet(rules') \subseteq ToSet(rules) \cup {New}
  BY <1>1, PlacedType DEF Upsert
<1> HIDE DEF r
<1>6. /\ rule' \in [Objects -> Records \cup {NoRule}]
      /\ \A o \in Objects :
           /\ o \in ToSet(rules') \cup ToSet(walk.list) \cup walk.on => rule'[o] = r[o]
           /\ rule'[o] # NoRule => rule'[o] = r[o]
  BY <1>3, <1>4, Collected
<1>7. /\ ToSet(rules') \subseteq Objects /\ ToSet(walk.list) \subseteq Objects
      /\ walk.on \subseteq Objects
  BY <1>5 DEF EdgeInv, Shape, ToSet
<1>8. \A o \in ToSet(rules') \cup ToSet(walk.list) \cup walk.on : rule'[o] \in Records
  BY <1>1, <1>2, <1>3, <1>5, <1>6, <1>7 DEF EdgeInv, Alive
<1>9. file' \in Seq(Records)
  BY <1>4, <1>5, <1>8, ContentsType
<1>10. Shape'
  BY <1>4, <1>5, <1>6, <1>9 DEF EdgeInv, Shape
<1>11. Alive'
  BY <1>4, <1>8 DEF Alive
<1>12. Remembered'
  BY <1>1, <1>2, <1>3, <1>4, <1>6 DEF EdgeInv, Remembered, Shape
<1>13. OneFirePerEdge'
  BY <1>1, <1>4 DEF EdgeInv, OneFirePerEdge
<1> QED
  BY <1>10, <1>11, <1>12, <1>13 DEF EdgeInv

LEMMA DisableEdge ==
    ASSUME EdgeInv, NEW some \in SUBSET Objects, DisableMany(some)
    PROVE  EdgeInv'
<1>1. /\ some \subseteq ToSet(rules) /\ UNCHANGED <<rules, walk>>
      /\ rule' = [o \in Objects |-> IF o \in some THEN Disabled(rule[o]) ELSE rule[o]]
      /\ file' = Contents(rules, rule') /\ served' = served \ some
  BY DEF DisableMany
<1>2. \A o \in some : rule'[o] \in Records
  <2> TAKE o \in some
  <2>1. rule[o] \in Records
    BY <1>1 DEF EdgeInv, Alive
  <2>2. Disabled(rule[o]) \in Records
    BY <2>1, WriteRecord
  <2> QED
    BY <1>1, <2>2
<1>3. \A o \in Objects \ some : rule'[o] = rule[o]
  BY <1>1
<1>4. rule' \in [Objects -> Records \cup {NoRule}]
  BY <1>1, <1>2, <1>3 DEF EdgeInv, Shape
<1>5. /\ ToSet(rules) \subseteq Objects /\ ToSet(walk.list) \subseteq Objects
      /\ walk.on \subseteq Objects
  BY DEF EdgeInv, Shape, ToSet
<1>6. \A o \in ToSet(rules) \cup ToSet(walk.list) \cup walk.on : rule'[o] \in Records
  BY <1>2, <1>3, <1>5 DEF EdgeInv, Alive
<1>7. file' \in Seq(Records)
  BY <1>1, <1>6, ContentsType DEF EdgeInv, Shape
<1>8. Shape'
  BY <1>1, <1>4, <1>7 DEF EdgeInv, Shape
<1>9. Alive'
  BY <1>1, <1>6 DEF Alive
<1>10. Remembered' /\ OneFirePerEdge'
  BY <1>1, <1>3 DEF EdgeInv, Remembered, OneFirePerEdge, Shape
<1> QED
  BY <1>8, <1>9, <1>10 DEF EdgeInv

LEMMA RestartEdge == EdgeInv /\ ServerRestart => EdgeInv'
<1> SUFFICES ASSUME EdgeInv, ServerRestart PROVE EdgeInv'
  OBVIOUS
<1>1. /\ Fits(Len(file)) /\ file' = file /\ walk' = Idle
      /\ rules' = Loaded(Len(file)) /\ rule' = Dicts(rules', file)
      /\ served' = {o \in ToSet(rules') : rule'[o].last = TRUE}
  BY DEF ServerRestart
<1>2. file \in Seq(Records)
  BY DEF EdgeInv, Shape
<1>3. /\ rules' \in Seq(Objects) /\ rule' \in [Objects -> Records \cup {NoRule}]
      /\ \A o \in ToSet(rules') : rule'[o] \in Records
  BY <1>1, <1>2, Loading
<1>4. ToSet(rules') \subseteq Objects
  BY <1>3 DEF ToSet
<1>5. ToSet(<<>>) = {} /\ <<>> \in Seq(Objects)
  BY DEF ToSet
<1>6. Shape'
  BY <1>1, <1>2, <1>3, <1>4, <1>5 DEF Shape, Idle
<1>7. Alive' /\ Remembered' /\ OneFirePerEdge'
  BY <1>1, <1>3, <1>5 DEF Alive, Remembered, OneFirePerEdge, Idle
<1> QED
  BY <1>6, <1>7 DEF EdgeInv

\* The steps of the walk.
LEMMA WalkEdge ==
    ASSUME EdgeInv, NEW o \in Objects, SkipDisabled(o) \/ NoEdge(o) \/ Edge(o)
    PROVE  EdgeInv'
<1>1. rule[o] \in Records
  BY AtRule DEF SkipDisabled, NoEdge, Edge
<1>2. CASE SkipDisabled(o)
  <2>1. /\ rule' = [rule EXCEPT ![o].last = Unset] /\ served' = served \ {o}
        /\ UNCHANGED <<rules, file>>
    BY <1>2 DEF SkipDisabled
  <2>2. /\ DOMAIN walk' = DOMAIN walk /\ walk'.at = walk.at + 1
        /\ walk'.list = walk.list /\ walk'.on = walk.on
    BY <1>2 DEF SkipDisabled, EdgeInv, Shape
  <2> QED
    BY <1>1, <2>1, <2>2, WriteEdge
<1>3. CASE NoEdge(o)
  <2>1. /\ rule' = [rule EXCEPT ![o].last = InRange(o)]
        /\ served' = IF InRange(o) THEN served ELSE served \ {o}
        /\ UNCHANGED <<rules, file>>
    BY <1>3 DEF NoEdge
  <2>2. /\ DOMAIN walk' = DOMAIN walk /\ walk'.at = walk.at + 1
        /\ walk'.list = walk.list /\ walk'.on = walk.on
    BY <1>3 DEF NoEdge, EdgeInv, Shape
  <2>3. InRange(o) \in BOOLEAN /\ (o \in served' => InRange(o) = TRUE)
        /\ served' \subseteq served
    BY <2>1 DEF InRange, Matches
  <2> QED
    BY <1>1, <2>1, <2>2, <2>3, WriteEdge
<1>4. CASE Edge(o)
  <2>1. /\ DOMAIN walk' = DOMAIN walk /\ walk'.at = walk.at
        /\ walk'.list = walk.list /\ walk'.on = {o}
        /\ UNCHANGED <<rules, rule, file, served>> /\ rule[o].last # TRUE
    BY <1>4 DEF Edge, EdgeInv, Shape
  <2>2. o \notin served
    BY <2>1 DEF EdgeInv, Remembered
  <2> QED
    BY <1>1, <2>1, <2>2 DEF EdgeInv, Shape, Alive, Remembered, OneFirePerEdge
<1> QED
  BY <1>2, <1>3, <1>4

\* The invariant survives every step.
LEMMA NextEdge == EdgeInv /\ [Next]_vars => EdgeInv'
<1> SUFFICES ASSUME EdgeInv, [Next]_vars PROVE EdgeInv'
  OBVIOUS
<1>1. ASSUME NEW main, NEW system, Sense(main, system) PROVE EdgeInv'
  BY <1>1, Elsewhere DEF Sense, EdgeInv, Shape
<1>2. CASE BridgeRestart
  BY <1>2, Elsewhere DEF BridgeRestart, EdgeInv, Shape
<1>3. CASE Tick
  <2>1. /\ DOMAIN walk' = DOMAIN walk /\ walk'.at = walk.at
        /\ walk'.list = walk.list /\ walk'.on = walk.on
    BY <1>3 DEF Tick, EdgeInv, Shape
  <2> QED
    BY <1>3, <2>1, Elsewhere DEF Tick, EdgeInv, Shape
<1>4. CASE PollReply
  <2>1. /\ DOMAIN walk' = DOMAIN walk /\ walk'.at = 1
        /\ walk'.list = <<>> /\ walk'.on = {}
    BY <1>4 DEF PollReply, Idle, EdgeInv, Shape
  <2> QED
    BY <1>4, <2>1, Elsewhere DEF PollReply
<1>5. CASE RescueDecide
  <2>1. /\ DOMAIN walk' = DOMAIN walk /\ walk'.at \in Nat \ {0}
        /\ walk'.list = walk.list \/ walk'.list = <<>>
        /\ walk'.on = walk.on \/ walk'.on = {}
    BY <1>5 DEF RescueDecide, Idle, EdgeInv, Shape
  <2> QED
    BY <1>5, <2>1, Elsewhere DEF RescueDecide
<1>6. ASSUME NEW ok \in BOOLEAN, RescueReply(ok) PROVE EdgeInv'
  <2>1. /\ DOMAIN walk' = DOMAIN walk /\ walk'.at = 1
        /\ walk'.list = <<>> /\ walk'.on = {}
    BY <1>6 DEF RescueReply, Idle, EdgeInv, Shape
  <2> QED
    BY <1>6, <2>1, Elsewhere DEF RescueReply
<1>7. CASE UNCHANGED vars
  BY <1>7, Elsewhere DEF vars, EdgeInv, Shape
<1> QED
  BY <1>1, <1>2, <1>3, <1>4, <1>5, <1>6, <1>7, WalkEdge, ToggleEdge, EndEdge,
     DeleteEdge, UpsertEdge, DisableEdge, RestartEdge
  DEF Next, PassStep, Route

\* Whatever a browser, a failing plug or a restart does in between, a rule whose
\* edge has been acted on is not commanded again before the battery has left its
\* range or the rule was switched off.
THEOREM EdgeOnce == Spec => []OneFirePerEdge
<1>1. EdgeInv => OneFirePerEdge
  BY DEF EdgeInv
<1> QED
  BY <1>1, InitEdge, NextEdge, PTL DEF Spec
-----------------------------------------------------------------------------
(* One rule per id                                                         *)

Distinct(list, r) ==
    \A i, j \in DOMAIN list : r[list[i]].id = r[list[j]].id => i = j

DistinctFile(f) == \A i, j \in DOMAIN f : f[i].id = f[j].id => i = j

\* In the list and in the file alike, so that a restart loads no twins.
IdInv == Distinct(rules, rule) /\ DistinctFile(file)

LEMMA ContentsIds ==
    ASSUME NEW list \in Seq(Objects), NEW r, Distinct(list, r)
    PROVE  DistinctFile(Contents(list, r))
BY DEF Contents, Distinct, DistinctFile

LEMMA LoadingIds ==
    ASSUME NEW records \in Seq(Records), Fits(Len(records)), DistinctFile(records)
    PROVE  Distinct(Loaded(Len(records)), Dicts(Loaded(Len(records)), records))
<1> DEFINE n == Len(records)
           list == Loaded(n)
<1>1. list \in [1 .. n -> Objects] /\ IsInjective(list)
  BY DEF Fits, Loaded
<1>2. n \in Nat /\ DOMAIN list = 1 .. n /\ DOMAIN records = 1 .. n
  BY <1>1
<1>3. \A i \in 1 .. n : Dicts(list, records)[list[i]] = records[i]
  <2> TAKE i \in 1 .. n
  <2> DEFINE c == CHOOSE j \in DOMAIN list : list[j] = list[i]
  <2>1. c \in 1 .. n /\ list[c] = list[i]
    BY <1>2
  <2>2. c = i
    BY <1>1, <1>2, <2>1 DEF IsInjective
  <2>3. list[i] \in Objects /\ list[i] \in ToSet(list)
    BY <1>1, <1>2 DEF ToSet
  <2> HIDE DEF list
  <2> QED
    BY <2>2, <2>3 DEF Dicts
<1> HIDE DEF list
<1> QED
  BY <1>2, <1>3 DEF Distinct, DistinctFile, list

\* Steps that keep the list and the ids of the rules in it.
LEMMA IdsKept ==
    ASSUME EdgeInv, IdInv, rules' = rules,
           \A o \in ToSet(rules) : rule'[o].id = rule[o].id,
           \/ file' = file
           \/ file' = Contents(rules, rule)
           \/ file' = Contents(rules, rule')
    PROVE  IdInv'
<1>1. rules \in Seq(Objects) /\ DOMAIN rules = 1 .. Len(rules)
  BY DEF EdgeInv, Shape
<1>2. \A i \in DOMAIN rules : rules[i] \in ToSet(rules)
  BY <1>1 DEF ToSet
<1>3. Distinct(rules, rule')
  BY <1>2 DEF IdInv, Distinct
<1> QED
  BY <1>1, <1>3, ContentsIds DEF IdInv

LEMMA DeleteIds ==
    ASSUME EdgeInv, IdInv, NEW i \in DOMAIN rules, Delete(i)
    PROVE  IdInv'
<1>1. /\ rules \in Seq(Objects) /\ DOMAIN rules = 1 .. Len(rules) /\ i \in 1 .. Len(rules)
      /\ Len(rules) \in Nat
  BY DEF EdgeInv, Shape
<1>2. /\ rules' = RemoveAt(rules, i) /\ rule' = Collect(rule, rules', walk')
      /\ file' = Contents(rules', rule')
  BY DEF Delete
<1>3. /\ rules' \in Seq(Objects) /\ Len(rules') = Len(rules) - 1
      /\ DOMAIN rules' = 1 .. Len(rules')
      /\ \A j \in 1 .. Len(rules') : rules'[j] = IF j < i THEN rules[j] ELSE rules[j + 1]
  <2>1. /\ rules' \in Seq(Objects) /\ Len(rules') = Len(rules) - 1
        /\ \A j \in 1 .. Len(rules') : rules'[j] = IF j < i THEN rules[j] ELSE rules[j + 1]
    <3>1. rules \in Seq(Objects) /\ i \in 1 .. Len(rules)
      BY <1>1
    <3> QED
      BY <1>2, <3>1, Removed
  <2> QED
    BY <2>1
<1>4. \A j \in 1 .. Len(rules') : rule'[rules'[j]] = rule[rules'[j]]
  <2>1. \A o \in Objects : o \in ToSet(rules') => rule'[o] = rule[o]
    BY <1>2, Collected DEF EdgeInv, Shape
  <2>2. \A j \in 1 .. Len(rules') : rules'[j] \in Objects /\ rules'[j] \in ToSet(rules')
    BY <1>3, Elements
  <2> QED
    BY <2>1, <2>2
<1>5. Distinct(rules', rule')
  <2> SUFFICES ASSUME NEW j \in 1 .. Len(rules'), NEW k \in 1 .. Len(rules'),
                      rule[rules'[j]].id = rule[rules'[k]].id
               PROVE  j = k
    BY <1>3, <1>4 DEF Distinct
  <2> DEFINE at(x) == IF x < i THEN x ELSE x + 1
  <2>1. /\ at(j) \in 1 .. Len(rules) /\ at(k) \in 1 .. Len(rules)
        /\ rules'[j] = rules[at(j)] /\ rules'[k] = rules[at(k)]
    BY <1>1, <1>3
  <2>2. at(j) = at(k)
    BY <1>1, <2>1 DEF IdInv, Distinct
  <2> QED
    BY <1>1, <1>3, <2>2
<1> QED
  BY <1>2, <1>3, <1>5, ContentsIds DEF IdInv

LEMMA UpsertIds ==
    ASSUME EdgeInv, IdInv, NEW rec \in Posts, Upsert(rec)
    PROVE  IdInv'
<1> DEFINE r == [rule EXCEPT ![New] = rec]
           old == {i \in DOMAIN rules : rule[rules[i]].id = rec.id}
<1>1. /\ New \in Objects /\ New \notin ToSet(rules)
  BY NewIsFree DEF Upsert
<1>2. rec \in Records
  BY AutomationAssumption DEF AutomationAssumption
<1>3. /\ r \in [Objects -> Records \cup {NoRule}] /\ r[New] = rec
      /\ \A o \in Objects \ {New} : r[o] = rule[o]
  BY <1>1, <1>2 DEF EdgeInv, Shape
<1>4. /\ rules' = Placed(rec) /\ rule' = Collect(r, rules', walk)
      /\ file' = Contents(rules', rule')
  BY DEF Upsert
<1>5. /\ rules' \in Seq(Objects) /\ DOMAIN rules' = 1 .. Len(rules')
  BY <1>1, <1>4, PlacedType
<1>6. /\ rules \in Seq(Objects) /\ DOMAIN rules = 1 .. Len(rules) /\ Len(rules) \in Nat
  BY DEF EdgeInv, Shape
<1>7. \A i \in 1 .. Len(rules) : rules[i] \in Objects /\ rules[i] # New
                                  /\ r[rules[i]] = rule[rules[i]]
  BY <1>1, <1>3, <1>6 DEF ToSet
<1> HIDE DEF r
<1>8. \A i \in 1 .. Len(rules') : rule'[rules'[i]] = r[rules'[i]]
  <2>1. \A o \in Objects :
          o \in ToSet(rules') \cup ToSet(walk.list) \cup walk.on => rule'[o] = r[o]
    <3>1. r \in [Objects -> Records \cup {NoRule}]
      BY <1>3
    <3> QED
      BY <1>4, <3>1, Collected
  <2>2. \A i \in 1 .. Len(rules') : rules'[i] \in Objects /\ rules'[i] \in ToSet(rules')
    BY <1>5, Elements
  <2> QED
    BY <2>1, <2>2
<1>9. Distinct(rules', r)
  <2>1. CASE old = {}
    <3>1. rules' = Append(rules, New)
      BY <1>4, <2>1 DEF Placed
    <3>2. /\ Len(rules') = Len(rules) + 1 /\ rules'[Len(rules) + 1] = New
          /\ \A i \in 1 .. Len(rules) : rules'[i] = rules[i]
      BY <1>1, <1>6, <3>1
    <3>3. \A i \in 1 .. Len(rules) : r[rules'[i]].id # rec.id
      BY <1>6, <1>7, <2>1, <3>2
    <3>4. \A i \in 1 .. Len(rules') : i \in 1 .. Len(rules) \/ i = Len(rules) + 1
      BY <1>6, <3>2
    <3>5. \A i, j \in 1 .. Len(rules) : r[rules'[i]].id = r[rules'[j]].id => i = j
      BY <1>6, <1>7, <3>2 DEF IdInv, Distinct
    <3> QED
      BY <1>3, <1>5, <3>2, <3>3, <3>4, <3>5 DEF Distinct
  <2>2. CASE old # {}
    <3>1. rules' = [i \in DOMAIN rules |-> IF i \in old THEN New ELSE rules[i]]
      BY <1>4, <2>2 DEF Placed
    <3>2. DOMAIN rules' = 1 .. Len(rules)
          /\ \A i \in 1 .. Len(rules) : rules'[i] = IF i \in old THEN New ELSE rules[i]
      BY <1>6, <3>1
    <3>3. \A i \in 1 .. Len(rules) : r[rules'[i]].id = rule[rules[i]].id
      BY <1>3, <1>6, <1>7, <3>2
    <3> HIDE DEF old
    <3> QED
      BY <1>6, <3>2, <3>3 DEF IdInv, Distinct
  <2> QED
    BY <2>1, <2>2
<1>10. Distinct(rules', rule')
  BY <1>5, <1>8, <1>9 DEF Distinct
<1> QED
  BY <1>4, <1>5, <1>10, ContentsIds DEF IdInv

\* A written record keeps its id.
LEMMA WriteId ==
    ASSUME NEW r \in Records, NEW last, NEW on
    PROVE  /\ [r EXCEPT !.last = last].id = r.id
           /\ [r EXCEPT !.enabled = on, !.last = last].id = r.id
BY DEF Records

LEMMA NextIds == EdgeInv /\ IdInv /\ [Next]_vars => IdInv'
<1> SUFFICES ASSUME EdgeInv, IdInv, [Next]_vars PROVE IdInv'
  OBVIOUS
<1>0. ToSet(rules) \subseteq Objects /\ rule \in [Objects -> Records \cup {NoRule}]
  BY DEF EdgeInv, Shape, ToSet
<1>1. CASE UNCHANGED <<rules, rule, file>>
  BY <1>1 DEF IdInv
<1>2. ASSUME NEW o \in Objects, SkipDisabled(o) \/ NoEdge(o) PROVE IdInv'
  <2>1. rule[o] \in Records
    BY <1>2, AtRule DEF SkipDisabled, NoEdge
  <2>2. PICK last : rule' = [rule EXCEPT ![o].last = last]
    BY <1>2 DEF SkipDisabled, NoEdge
  <2>3. rule'[o] = [rule[o] EXCEPT !.last = last] /\ \A p \in Objects \ {o} : rule'[p] = rule[p]
    BY <1>0, <2>2
  <2>4. \A p \in ToSet(rules) : rule'[p].id = rule[p].id
    <3>1. rule'[o].id = rule[o].id
      BY <2>1, <2>3, WriteId
    <3> QED
      BY <1>0, <2>3, <3>1
  <2> QED
    BY <1>2, <2>4, IdsKept DEF SkipDisabled, NoEdge
<1>3. ASSUME NEW o \in Objects, NEW ok \in BOOLEAN, ToggleReply(o, ok) PROVE IdInv'
  <2> DEFINE r == [rule EXCEPT ![o] = Consumed(@, ok)]
  <2>1. rule[o] \in Records
    BY <1>3 DEF ToggleReply, EdgeInv, Alive
  <2>2. Consumed(rule[o], ok) \in Records /\ Consumed(rule[o], ok).id = rule[o].id
    BY <2>1, WriteRecord, WriteId DEF Consumed
  <2>3. /\ r \in [Objects -> Records \cup {NoRule}]
        /\ \A p \in Objects : r[p].id = rule[p].id
    BY <1>0, <2>2
  <2>4. rules' = rules /\ file' = file /\ rule' = Collect(r, rules, walk')
    BY <1>3 DEF ToggleReply
  <2> HIDE DEF r
  <2>5. \A p \in ToSet(rules) : rule'[p] = r[p]
    BY <1>0, <2>3, <2>4, Collected
  <2> QED
    BY <1>0, <2>3, <2>4, <2>5, IdsKept
<1>4. CASE EndWalk
  <2>1. /\ rules' = rules /\ rule' = Collect(rule, rules, walk')
        /\ file' = file \/ file' = Contents(rules, rule)
    BY <1>4 DEF EndWalk
  <2>2. \A p \in ToSet(rules) : rule'[p] = rule[p]
    BY <1>0, <2>1, Collected
  <2> QED
    BY <2>1, <2>2, IdsKept
<1>5. ASSUME NEW some \in SUBSET Objects, DisableMany(some) PROVE IdInv'
  <2>1. /\ some \subseteq ToSet(rules) /\ rules' = rules /\ file' = Contents(rules, rule')
        /\ rule' = [o \in Objects |-> IF o \in some THEN Disabled(rule[o]) ELSE rule[o]]
    BY <1>5 DEF DisableMany
  <2>2. \A p \in ToSet(rules) : rule[p] \in Records
    BY DEF EdgeInv, Alive
  <2>3. \A p \in ToSet(rules) : rule'[p].id = rule[p].id
    <3>1. \A r \in Records : Disabled(r).id = r.id
      BY WriteId DEF Disabled
    <3> QED
      BY <1>0, <2>1, <2>2, <3>1
  <2> QED
    BY <2>1, <2>3, IdsKept
<1>6. CASE ServerRestart
  <2>1. /\ Fits(Len(file)) /\ file' = file
        /\ rules' = Loaded(Len(file)) /\ rule' = Dicts(rules', file)
    BY <1>6 DEF ServerRestart
  <2> QED
    BY <2>1, LoadingIds DEF IdInv, EdgeInv, Shape
<1>7. ASSUME NEW o \in Objects, Edge(o) PROVE IdInv'
  BY <1>1, <1>7 DEF Edge
<1>8. ASSUME \/ \E main, system \in Levels : Sense(main, system)
             \/ BridgeRestart \/ Tick \/ PollReply \/ RescueDecide
             \/ (\E ok \in BOOLEAN : RescueReply(ok)) \/ UNCHANGED vars
      PROVE  IdInv'
  BY <1>1, <1>8 DEF Sense, BridgeRestart, Tick, PollReply, RescueDecide, RescueReply, vars
<1> QED
  BY <1>2, <1>3, <1>4, <1>5, <1>6, <1>7, <1>8, DeleteIds, UpsertIds DEF Next, PassStep, Route
-----------------------------------------------------------------------------
(* The pass, the telemetry and the incident                                *)

Walks == [pc : {"idle", "walk", "toggle", "rescue", "plug"},
          list : Seq(Objects), shared : BOOLEAN, at : Nat \ {0},
          on : SUBSET Objects, dirty : BOOLEAN, snap : Entries]

PassInv ==
    /\ walk \in Walks /\ entry \in Entries /\ st \in RescueState
    /\ rescued \in BOOLEAN /\ events \in 0 .. MaxEvents

\* While a rescue of this incident has fired, the latch is set and the reading
\* it looks at keeps it set; a reading that would end the incident has already
\* ended it.
IncidentInv ==
    /\ walk.pc # "idle" => walk.snap.known
    /\ rescued => st.fired /\ (st.main < CLEAR_SOC_PCT \/ st.age >= STALE_FIRE_S)
    /\ walk.pc \in {"walk", "toggle", "rescue"} /\ walk.snap.new
         /\ walk.snap.main >= CLEAR_SOC_PCT => ~rescued
    /\ walk.pc = "plug" => ~rescued /\ st.main <= ARM_MAIN_SOC_PCT

LEMMA AgeType == \A a \in Ages : Older(a) \in Ages /\ (a >= STALE_FIRE_S => Older(a) = a)
BY RescueAssumption DEF RescueAssumption, Ages, Older

LEMMA EntryType ==
    ASSUME NEW e \in Entries
    PROVE  /\ [e EXCEPT !.age = Older(@)] \in Entries
           /\ \A b \in BOOLEAN : [e EXCEPT !.new = b] \in Entries
           /\ [e EXCEPT !.known = FALSE, !.new = FALSE, !.age = STALE_FIRE_S] \in Entries
<1>1. Older(e.age) \in Ages /\ STALE_FIRE_S \in Ages
  BY AgeType, RescueAssumption DEF RescueAssumption, Entries, Ages
<1>2. [e EXCEPT !.age = Older(@)] \in Entries
  BY <1>1 DEF Entries
<1>3. \A b \in BOOLEAN : [e EXCEPT !.new = b] \in Entries
  BY DEF Entries
<1>4. [e EXCEPT !.known = FALSE, !.new = FALSE, !.age = STALE_FIRE_S] \in Entries
  BY <1>1 DEF Entries
<1> QED
  BY <1>2, <1>3, <1>4

LEMMA NoEntryType == Levels # {} => NoEntry \in Entries /\ NewRescueState \in RescueState
<1> SUFFICES ASSUME Levels # {}
             PROVE  NoEntry \in Entries /\ NewRescueState \in RescueState
  OBVIOUS
<1>1. (CHOOSE l \in Levels : TRUE) \in Levels
  OBVIOUS
<1>2. STALE_FIRE_S \in Ages
  BY RescueAssumption DEF RescueAssumption, Ages
<1> QED
  BY <1>1, <1>2 DEF NoEntry, Entries, NewRescueState, RescueState

\* The updates the pass makes on its way keep its shape, and the field they set
\* is all they set.
LEMMA WalkAt ==
    ASSUME NEW w \in Walks, NEW n \in Nat \ {0}
    PROVE  /\ [w EXCEPT !.at = n] \in Walks /\ [w EXCEPT !.at = n].at = n
           /\ [w EXCEPT !.at = n].pc = w.pc /\ [w EXCEPT !.at = n].snap = w.snap
BY DEF Walks

LEMMA WalkDirty ==
    ASSUME NEW w \in Walks, NEW d \in BOOLEAN
    PROVE  /\ [w EXCEPT !.dirty = d] \in Walks /\ [w EXCEPT !.dirty = d].dirty = d
           /\ [w EXCEPT !.dirty = d].pc = w.pc /\ [w EXCEPT !.dirty = d].snap = w.snap
BY DEF Walks

LEMMA WalkPc ==
    ASSUME NEW w \in Walks, NEW pc \in {"idle", "walk", "toggle", "rescue", "plug"}
    PROVE  /\ [w EXCEPT !.pc = pc] \in Walks /\ [w EXCEPT !.pc = pc].pc = pc
           /\ [w EXCEPT !.pc = pc].snap = w.snap
BY DEF Walks

LEMMA WalkOn ==
    ASSUME NEW w \in Walks, NEW on \in SUBSET Objects
    PROVE  /\ [w EXCEPT !.on = on] \in Walks /\ [w EXCEPT !.on = on].on = on
           /\ [w EXCEPT !.on = on].pc = w.pc /\ [w EXCEPT !.on = on].snap = w.snap
BY DEF Walks

LEMMA WalkOver ==
    ASSUME NEW w \in Walks, NEW list \in Seq(Objects)
    PROVE  /\ [w EXCEPT !.list = list] \in Walks /\ [w EXCEPT !.list = list].list = list
           /\ [w EXCEPT !.list = list].pc = w.pc /\ [w EXCEPT !.list = list].snap = w.snap
BY DEF Walks

LEMMA WalkShared ==
    ASSUME NEW w \in Walks, NEW b \in BOOLEAN
    PROVE  /\ [w EXCEPT !.shared = b] \in Walks /\ [w EXCEPT !.shared = b].shared = b
           /\ [w EXCEPT !.shared = b].pc = w.pc /\ [w EXCEPT !.shared = b].snap = w.snap
BY DEF Walks

LEMMA WalkSnap ==
    ASSUME NEW w \in Walks, NEW e \in Entries
    PROVE  /\ [w EXCEPT !.snap = e] \in Walks /\ [w EXCEPT !.snap = e].snap = e
           /\ [w EXCEPT !.snap = e].pc = w.pc
BY DEF Walks

\* An idle pass, one that starts with the telemetry of a poll, and one that goes
\* on to the rescue.
LEMMA IdleType == Levels # {} => Idle \in Walks
<1> SUFFICES ASSUME Levels # {} PROVE Idle \in Walks
  OBVIOUS
<1>1. NoEntry \in Entries
  BY NoEntryType
<1>2. /\ <<>> \in Seq(Objects) /\ {} \in SUBSET Objects /\ FALSE \in BOOLEAN /\ 1 \in Nat \ {0}
  OBVIOUS
<1> QED
  BY <1>1, <1>2 DEF Idle, Walks

LEMMA StartType ==
    ASSUME Levels # {}, NEW e \in Entries, NEW w, NEW pc,
           pc \in {"walk", "rescue"},
           \/ w = [Idle EXCEPT !.pc = pc, !.shared = TRUE, !.snap = e]
           \/ w = [Idle EXCEPT !.pc = pc, !.snap = e]
    PROVE  w \in Walks /\ w.pc = pc /\ w.snap = e
<1> DEFINE u == [Idle EXCEPT !.pc = pc]
           v == [u EXCEPT !.shared = TRUE]
<1>0. Idle \in Walks
  BY IdleType
<1>a. pc \in {"idle", "walk", "toggle", "rescue", "plug"} /\ TRUE \in BOOLEAN
  OBVIOUS
<1>1. u \in Walks /\ u.pc = pc
  BY <1>0, <1>a, WalkPc, Zenon
<1>2. w = [v EXCEPT !.snap = e] \/ w = [u EXCEPT !.snap = e]
  OBVIOUS
<1> HIDE DEF u
<1>3. v \in Walks /\ v.pc = u.pc
  BY <1>1, <1>a, WalkShared, Zenon
<1> HIDE DEF v
<1>4. /\ [v EXCEPT !.snap = e] \in Walks /\ [v EXCEPT !.snap = e].snap = e
      /\ [v EXCEPT !.snap = e].pc = v.pc
  BY <1>3, WalkSnap, Zenon
<1>5. /\ [u EXCEPT !.snap = e] \in Walks /\ [u EXCEPT !.snap = e].snap = e
      /\ [u EXCEPT !.snap = e].pc = u.pc
  BY <1>1, WalkSnap, Zenon
<1> QED
  BY <1>1, <1>2, <1>3, <1>4, <1>5, Zenon

LEMMA RescueType ==
    ASSUME NEW s \in RescueState, NEW e \in Entries
    PROVE  /\ Record(s, e) \in RescueState /\ Decided(s, e) \in RescueState
           /\ MarkFired(s) \in RescueState
           /\ [s EXCEPT !.age = Older(@)] \in RescueState
<1>1. Record(s, e) \in RescueState
  BY DEF Record, RescueState, Entries
<1>2. \A r \in RescueState : Rearm(r) \in RescueState
  BY DEF Rearm, RescueState
<1>3. MarkFired(s) \in RescueState
  BY DEF MarkFired, RescueState
<1>4. [s EXCEPT !.age = Older(@)] \in RescueState
  BY AgeType DEF RescueState
<1> QED
  BY <1>1, <1>2, <1>3, <1>4 DEF Decided

\* What deciding does to a latch that is set, and when the plug is asked for.
LEMMA LatchKept ==
    ASSUME NEW s \in RescueState, NEW e \in Entries, e.known
    PROVE  LET d == Decided(s, e)
           IN  /\ /\ s.fired /\ (s.main < CLEAR_SOC_PCT \/ s.age >= STALE_FIRE_S)
                  /\ e.new => e.main < CLEAR_SOC_PCT
                  => d.fired /\ (d.main < CLEAR_SOC_PCT \/ d.age >= STALE_FIRE_S)
               /\ Due(s, e) => ~d.fired /\ d.main <= ARM_MAIN_SOC_PCT
<1>1. Levels \subseteq Int /\ CLEAR_SOC_PCT \in Int /\ STALE_FIRE_S \in Int
  BY RescueAssumption DEF RescueAssumption
<1>2. Due(s, e) => ~Decided(s, e).fired /\ Decided(s, e).main <= ARM_MAIN_SOC_PCT
  BY DEF Due
<1>3. ASSUME s.fired, s.main < CLEAR_SOC_PCT \/ s.age >= STALE_FIRE_S,
             e.new => e.main < CLEAR_SOC_PCT
      PROVE  LET d == Decided(s, e)
             IN  d.fired /\ (d.main < CLEAR_SOC_PCT \/ d.age >= STALE_FIRE_S)
  <2> DEFINE r == Record(s, e)
  <2>1. r \in RescueState /\ r.fired /\ (r.main < CLEAR_SOC_PCT \/ r.age >= STALE_FIRE_S)
    <3>1. r \in RescueState
      BY RescueType
    <3>2. CASE e.new
      <4>1. r.fired = s.fired /\ r.main = e.main
        BY <3>2 DEF Record, RescueState
      <4> QED
        BY <1>3, <3>1, <3>2, <4>1
    <3>3. CASE ~e.new
      BY <1>3, <3>1, <3>3 DEF Record
    <3> QED
      BY <3>2, <3>3
  <2> HIDE DEF r
  <2>2. r.main \in Int /\ r.age \in Int
    <3>1. r.main \in Levels /\ r.age \in 0 .. STALE_FIRE_S
      BY <2>1 DEF RescueState, Ages
    <3>2. r.main \in Int
      BY <1>1, <3>1, Zenon
    <3>3. r.age \in Int
      BY <3>1
    <3> QED
      BY <3>2, <3>3
  <2>3. Rearm(r) = r
    BY <1>1, <2>1, <2>2 DEF Rearm
  <2> QED
    BY <2>1, <2>3 DEF Decided, r
<1> QED
  BY <1>2, <1>3
-----------------------------------------------------------------------------
LEMMA InitPass == Init => PassInv /\ IncidentInv
<1> SUFFICES ASSUME Init PROVE PassInv /\ IncidentInv
  OBVIOUS
<1>1. /\ walk = Idle /\ entry \in Entries /\ st = NewRescueState /\ rescued = FALSE
      /\ events = 0
  BY DEF Init
<1>2. Levels # {}
  BY <1>1 DEF Entries
<1>3. walk \in Walks
  BY <1>1, <1>2, IdleType, Zenon
<1>5. st \in RescueState
  BY <1>1, <1>2, NoEntryType, Zenon
<1>4. 0 \in 0 .. MaxEvents
  BY AutomationAssumption DEF AutomationAssumption
<1> QED
  BY <1>1, <1>3, <1>4, <1>5 DEF PassInv, IncidentInv, Idle

\* The walk moves on: only the place in the list, the plug command awaited and
\* what is to be saved change.
LEMMA WalksOn ==
    ASSUME PassInv, IncidentInv, UNCHANGED <<entry, st, rescued, events>>,
           walk' \in Walks, walk'.pc \in {"walk", "toggle"}, walk.pc \in {"walk", "toggle"},
           walk'.snap = walk.snap
    PROVE  PassInv' /\ IncidentInv'
BY DEF PassInv, IncidentInv

LEMMA PassWalk ==
    ASSUME EdgeInv, PassInv, IncidentInv, NEW o \in Objects,
           SkipDisabled(o) \/ NoEdge(o) \/ Edge(o)
    PROVE  PassInv' /\ IncidentInv'
<1>1. walk \in Walks /\ walk.at \in Nat \ {0} /\ walk.dirty \in BOOLEAN
  BY DEF PassInv, Walks
<1>2. CASE SkipDisabled(o)
  <2>1. walk' = [walk EXCEPT !.at = walk.at + 1] /\ walk.pc = "walk"
        /\ UNCHANGED <<entry, st, rescued, events>>
    BY <1>2 DEF SkipDisabled, At
  <2>2. walk.at + 1 \in Nat \ {0}
    BY <1>1
  <2>3. walk' \in Walks /\ walk'.snap = walk.snap /\ walk'.pc = walk.pc
    BY <1>1, <2>1, <2>2, WalkAt, Zenon
  <2> QED
    BY <2>1, <2>3, WalksOn
<1>3. CASE NoEdge(o)
  <2> DEFINE u == [walk EXCEPT !.at = walk.at + 1]
  <2>1. PICK d \in BOOLEAN : walk' = [u EXCEPT !.dirty = d]
    <3>1. (walk.dirty \/ rule[o].last # InRange(o)) \in BOOLEAN
      OBVIOUS
    <3>2. walk' = [u EXCEPT !.dirty = walk.dirty \/ rule[o].last # InRange(o)]
      BY <1>1, <1>3 DEF NoEdge, Walks
    <3> QED
      BY <3>1, <3>2, Zenon
  <2>2. u \in Walks /\ u.snap = walk.snap /\ u.pc = walk.pc
    <3>1. walk.at + 1 \in Nat \ {0}
      BY <1>1
    <3> QED
      BY <1>1, <3>1, WalkAt, Zenon
  <2> HIDE DEF u
  <2>3. walk' \in Walks /\ walk'.snap = walk.snap /\ walk'.pc = walk.pc
    BY <2>1, <2>2, WalkDirty, Zenon
  <2>5. walk.pc = "walk" /\ UNCHANGED <<entry, st, rescued, events>>
    BY <1>3 DEF NoEdge, At
  <2> QED
    BY <2>3, <2>5, WalksOn
<1>4. CASE Edge(o)
  <2> DEFINE u == [walk EXCEPT !.pc = "toggle"]
  <2>1. walk' = [u EXCEPT !.on = {o}] /\ walk.pc = "walk"
        /\ UNCHANGED <<entry, st, rescued, events>>
    BY <1>4 DEF Edge, At
  <2>2. u \in Walks /\ u.snap = walk.snap /\ u.pc = "toggle"
    BY <1>1, WalkPc
  <2> HIDE DEF u
  <2>3. walk' \in Walks /\ walk'.snap = walk.snap /\ walk'.pc = "toggle"
    BY <2>1, <2>2, WalkOn
  <2> QED
    BY <2>1, <2>3, WalksOn
<1> QED
  BY <1>2, <1>3, <1>4

LEMMA PassToggle ==
    ASSUME PassInv, IncidentInv, NEW o \in Objects, NEW ok \in BOOLEAN, ToggleReply(o, ok)
    PROVE  PassInv' /\ IncidentInv'
<1> DEFINE a == [walk EXCEPT !.pc = "walk"]
           b == [a EXCEPT !.at = walk.at + 1]
           c == [b EXCEPT !.on = {}]
<1>0. walk \in Walks /\ walk.at \in Nat \ {0}
  BY DEF PassInv, Walks
<1>1. walk' = [c EXCEPT !.dirty = TRUE] /\ walk.pc = "toggle"
      /\ UNCHANGED <<entry, st, rescued, events>>
  BY <1>0 DEF ToggleReply, Walks
<1>2. a \in Walks /\ a.snap = walk.snap /\ a.pc = "walk"
  BY <1>0, WalkPc
<1> HIDE DEF a
<1>3. b \in Walks /\ b.snap = a.snap /\ b.pc = a.pc
  BY <1>0, <1>2, WalkAt
<1> HIDE DEF b
<1>4. c \in Walks /\ c.snap = b.snap /\ c.pc = b.pc
  BY <1>3, WalkOn
<1> HIDE DEF c
<1>5. walk' \in Walks /\ walk'.snap = c.snap /\ walk'.pc = c.pc
  BY <1>1, <1>4, WalkDirty
<1> QED
  BY <1>1, <1>2, <1>3, <1>4, <1>5, WalksOn

LEMMA PassTick ==
    ASSUME PassInv, IncidentInv, Tick
    PROVE  PassInv' /\ IncidentInv'
<1> DEFINE snap == [walk.snap EXCEPT !.age = Older(@)]
<1>1. /\ walk \in Walks /\ walk.snap \in Entries /\ entry \in Entries /\ st \in RescueState
      /\ UNCHANGED <<rescued, events>>
  BY DEF PassInv, Walks, Tick
<1>2. entry' \in Entries /\ st' \in RescueState
  <2>1. entry' = [entry EXCEPT !.age = Older(@)] /\ st' = [st EXCEPT !.age = Older(@)]
    BY DEF Tick
  <2>2. [entry EXCEPT !.age = Older(@)] \in Entries
    BY <1>1, EntryType, Zenon
  <2>3. [st EXCEPT !.age = Older(@)] \in RescueState
    BY <1>1, RescueType, Zenon
  <2> QED
    BY <2>1, <2>2, <2>3, Zenon
<1>3. snap \in Entries /\ snap.known = walk.snap.known /\ snap.new = walk.snap.new
      /\ snap.main = walk.snap.main
  <2>1. snap \in Entries
    BY <1>1, EntryType, Zenon
  <2>2. snap.known = walk.snap.known /\ snap.new = walk.snap.new /\ snap.main = walk.snap.main
    BY <1>1 DEF Entries
  <2> QED
    BY <2>1, <2>2
<1>4. walk' = IF walk.pc = "idle" THEN walk ELSE [walk EXCEPT !.snap = snap]
  BY DEF Tick
<1> HIDE DEF snap
<1>5. /\ walk' \in Walks /\ walk'.pc = walk.pc
      /\ walk'.snap \in {walk.snap, snap}
  <2> DEFINE u == [walk EXCEPT !.snap = snap]
  <2>1. u \in Walks /\ u.snap = snap /\ u.pc = walk.pc
    BY <1>1, <1>3, WalkSnap, Zenon
  <2>2. walk' = walk \/ walk' = u
    BY <1>4
  <2> HIDE DEF u
  <2> QED
    BY <1>1, <2>1, <2>2
<1>6. st'.main = st.main /\ st'.fired = st.fired /\ st'.age = Older(st.age)
  BY <1>1 DEF Tick, RescueState
<1>7. st.age >= STALE_FIRE_S => st'.age >= STALE_FIRE_S
  BY <1>1, <1>6, AgeType DEF RescueState
<1> QED
  BY <1>1, <1>2, <1>3, <1>5, <1>6, <1>7 DEF PassInv, IncidentInv

LEMMA PassDecide ==
    ASSUME PassInv, IncidentInv, RescueDecide
    PROVE  PassInv' /\ IncidentInv'
<1>1. /\ walk \in Walks /\ walk.snap \in Entries /\ st \in RescueState
      /\ walk.pc = "rescue" /\ walk.snap.known
      /\ UNCHANGED <<entry, rescued, events>> /\ st' = Decided(st, walk.snap)
  BY DEF PassInv, IncidentInv, Walks, RescueDecide
<1>2. Levels # {} /\ walk.snap.main \in Int /\ CLEAR_SOC_PCT \in Int
  BY <1>1, RescueAssumption DEF Entries, RescueAssumption
<1>3. /\ st' \in RescueState
      /\ rescued => st'.fired /\ (st'.main < CLEAR_SOC_PCT \/ st'.age >= STALE_FIRE_S)
      /\ Due(st, walk.snap) => ~st'.fired /\ st'.main <= ARM_MAIN_SOC_PCT
  <2>1. st' \in RescueState
    BY <1>1, RescueType, Zenon
  <2>2. rescued => /\ st.fired /\ (st.main < CLEAR_SOC_PCT \/ st.age >= STALE_FIRE_S)
                   /\ walk.snap.new => walk.snap.main < CLEAR_SOC_PCT
    BY <1>1, <1>2 DEF IncidentInv
  <2>3. /\ (/\ st.fired /\ (st.main < CLEAR_SOC_PCT \/ st.age >= STALE_FIRE_S)
            /\ walk.snap.new => walk.snap.main < CLEAR_SOC_PCT)
           => st'.fired /\ (st'.main < CLEAR_SOC_PCT \/ st'.age >= STALE_FIRE_S)
        /\ Due(st, walk.snap) => ~st'.fired /\ st'.main <= ARM_MAIN_SOC_PCT
    BY <1>1, LatchKept, Zenon
  <2> QED
    BY <2>1, <2>2, <2>3, Zenon
<1>4. CASE walk' = Idle
  <2>1. Idle \in Walks
    BY <1>2, IdleType, Zenon
  <2> QED
    BY <1>1, <1>3, <1>4, <2>1 DEF PassInv, IncidentInv, Idle
<1>5. CASE Due(st, walk.snap) /\ walk' = [walk EXCEPT !.pc = "plug"]
  <2>1. walk' \in Walks /\ walk'.pc = "plug" /\ walk'.snap = walk.snap
    BY <1>1, <1>5, WalkPc
  <2> QED
    BY <1>1, <1>3, <1>5, <2>1 DEF PassInv, IncidentInv
<1> QED
  BY <1>4, <1>5 DEF RescueDecide

LEMMA PassReply ==
    ASSUME PassInv, IncidentInv, NEW ok \in BOOLEAN, RescueReply(ok)
    PROVE  PassInv' /\ IncidentInv'
<1>1. /\ walk.pc = "plug" /\ walk' = Idle /\ st' = IF ok THEN MarkFired(st) ELSE st
      /\ rescued' = (rescued \/ ok) /\ UNCHANGED <<entry, events>>
  BY DEF RescueReply
<1>2. /\ st \in RescueState /\ entry \in Entries /\ rescued \in BOOLEAN
      /\ ~rescued /\ st.main <= ARM_MAIN_SOC_PCT
  BY <1>1 DEF PassInv, IncidentInv
<1>3. Levels # {} /\ st.main \in Int /\ CLEAR_SOC_PCT \in Int /\ ARM_MAIN_SOC_PCT \in Int
      /\ ARM_MAIN_SOC_PCT < CLEAR_SOC_PCT
  BY <1>2, RescueAssumption DEF RescueState, Entries, RescueAssumption
<1>4. Idle \in Walks /\ st' \in RescueState
  <2>1. Idle \in Walks
    BY <1>3, IdleType, Zenon
  <2>2. MarkFired(st) \in RescueState
    BY <1>2, RescueType, Zenon
  <2> QED
    BY <1>1, <1>2, <2>1, <2>2, Zenon
<1>5. rescued' => st'.fired /\ st'.main < CLEAR_SOC_PCT
  BY <1>1, <1>2, <1>3 DEF MarkFired, RescueState
<1>6. rescued' \in BOOLEAN
  BY <1>1
<1> QED
  BY <1>1, <1>4, <1>5, <1>6 DEF PassInv, IncidentInv, Idle

LEMMA PassPoll ==
    ASSUME PassInv, IncidentInv, PollReply
    PROVE  PassInv' /\ IncidentInv'
<1>1. /\ entry \in Entries /\ entry.known /\ UNCHANGED <<st, events>>
      /\ walk' = [Idle EXCEPT !.pc = "walk", !.shared = TRUE, !.snap = entry]
      /\ entry' = [entry EXCEPT !.new = FALSE]
      /\ rescued' = (rescued /\ ~(entry.new /\ entry.main >= CLEAR_SOC_PCT))
  BY DEF PassInv, PollReply
<1>2. Levels # {}
  BY <1>1 DEF Entries
<1>3. entry' \in Entries
  BY <1>1, EntryType, Zenon
<1>4. walk' \in Walks /\ walk'.snap = entry /\ walk'.pc = "walk"
  <2>1. "walk" \in {"walk", "rescue"}
    OBVIOUS
  <2>2. walk' = [Idle EXCEPT !.pc = "walk", !.shared = TRUE, !.snap = entry] /\ entry \in Entries
    BY <1>1
  <2> QED
    BY <1>2, <2>1, <2>2, StartType, ZenonT(30)
<1> QED
  BY <1>1, <1>3, <1>4 DEF PassInv, IncidentInv

\* Steps of the unit, the bridge, the routes and the restart.
LEMMA PassElsewhere ==
    ASSUME EdgeInv, PassInv, IncidentInv,
           \/ \E main, system \in Levels : Sense(main, system)
           \/ BridgeRestart \/ EndWalk \/ Route \/ ServerRestart \/ UNCHANGED vars
    PROVE  PassInv' /\ IncidentInv'
<1>0. /\ walk \in Walks /\ entry \in Entries /\ walk.snap \in Entries /\ Levels # {}
      /\ events \in 0 .. MaxEvents
  BY DEF PassInv, Walks, Entries
<1>1. Event => events' \in 0 .. MaxEvents
  BY <1>0, AutomationAssumption DEF Event, AutomationAssumption
<1>2. ASSUME NEW main \in Levels, NEW system \in Levels, Sense(main, system)
      PROVE  PassInv' /\ IncidentInv'
  <2>1. entry' \in Entries
    <3>1. entry' = [known |-> TRUE, new |-> TRUE, main |-> main, system |-> system, age |-> 0]
      BY <1>2 DEF Sense
    <3>2. 0 \in Ages
      BY RescueAssumption DEF RescueAssumption, Ages
    <3> QED
      BY <3>1, <3>2 DEF Entries
  <2>2. UNCHANGED <<walk, st, rescued, events>>
    BY <1>2 DEF Sense
  <2> QED
    BY <2>1, <2>2 DEF PassInv, IncidentInv
<1>3. CASE BridgeRestart
  <2>1. entry' \in Entries /\ UNCHANGED <<walk, st, rescued>> /\ events' \in 0 .. MaxEvents
    <3>1. /\ entry' = [entry EXCEPT !.known = FALSE, !.new = FALSE, !.age = STALE_FIRE_S]
          /\ UNCHANGED <<walk, st, rescued>> /\ Event
      BY <1>3 DEF BridgeRestart
    <3>2. entry' \in Entries
      BY <1>0, <3>1, EntryType, Zenon
    <3> QED
      BY <1>1, <3>1, <3>2
  <2> QED
    BY <2>1 DEF PassInv, IncidentInv
<1>4. CASE EndWalk
  <2>1. walk' = [Idle EXCEPT !.pc = "rescue", !.snap = walk.snap] /\ walk.pc = "walk"
        /\ UNCHANGED <<entry, st, rescued, events>>
    BY <1>4 DEF EndWalk
  <2>2. walk' \in Walks /\ walk'.snap = walk.snap /\ walk'.pc = "rescue"
    <3>1. "rescue" \in {"walk", "rescue"}
      OBVIOUS
    <3>2. walk' = [Idle EXCEPT !.pc = "rescue", !.snap = walk.snap] /\ walk.snap \in Entries
      BY <1>0, <2>1
    <3> QED
      BY <1>0, <3>1, <3>2, StartType, ZenonT(30)
  <2> QED
    BY <2>1, <2>2 DEF PassInv, IncidentInv
<1>5. ASSUME NEW rec \in Posts, Upsert(rec) PROVE PassInv' /\ IncidentInv'
  <2>1. UNCHANGED <<walk, entry, st, rescued>> /\ events' \in 0 .. MaxEvents
    BY <1>1, <1>5 DEF Upsert
  <2> QED
    BY <2>1 DEF PassInv, IncidentInv
<1>6. ASSUME NEW some \in SUBSET Objects, DisableMany(some) PROVE PassInv' /\ IncidentInv'
  <2>1. UNCHANGED <<walk, entry, st, rescued>> /\ events' \in 0 .. MaxEvents
    BY <1>1, <1>6 DEF DisableMany
  <2> QED
    BY <2>1 DEF PassInv, IncidentInv
<1>7. ASSUME NEW i \in DOMAIN rules, Delete(i) PROVE PassInv' /\ IncidentInv'
  <2>1. UNCHANGED <<entry, st, rescued>> /\ events' \in 0 .. MaxEvents
    BY <1>1, <1>7 DEF Delete
  <2> DEFINE u == [walk EXCEPT !.shared = FALSE]
  <2>2. walk' = walk \/ walk' = [u EXCEPT !.list = rules]
    BY <1>7 DEF Delete
  <2>3. u \in Walks /\ u.snap = walk.snap /\ u.pc = walk.pc
    BY <1>0, WalkShared, Zenon
  <2> HIDE DEF u
  <2>4. rules \in Seq(Objects)
    BY DEF EdgeInv, Shape
  <2>5. /\ [u EXCEPT !.list = rules] \in Walks /\ [u EXCEPT !.list = rules].snap = u.snap
        /\ [u EXCEPT !.list = rules].pc = u.pc
    BY <2>3, <2>4, WalkOver, Zenon
  <2>6. walk' \in Walks /\ walk'.pc = walk.pc /\ walk'.snap = walk.snap
    BY <1>0, <2>2, <2>3, <2>5, Zenon
  <2> QED
    BY <2>1, <2>6 DEF PassInv, IncidentInv
<1>8. CASE ServerRestart
  <2>1. /\ walk' = Idle /\ st' = NewRescueState /\ rescued' = FALSE
        /\ entry' = [entry EXCEPT !.new = entry.known] /\ events' \in 0 .. MaxEvents
    BY <1>1, <1>8 DEF ServerRestart
  <2>2. entry.known \in BOOLEAN
    BY <1>0 DEF Entries
  <2>3. Idle \in Walks /\ NewRescueState \in RescueState
    BY <1>0, IdleType, NoEntryType, Zenon
  <2>4. entry' \in Entries
    BY <1>0, <2>1, <2>2, EntryType, Zenon
  <2> QED
    BY <2>1, <2>3, <2>4 DEF PassInv, IncidentInv, Idle
<1>9. CASE UNCHANGED vars
  BY <1>9 DEF vars, PassInv, IncidentInv
<1> QED
  BY <1>2, <1>3, <1>4, <1>5, <1>6, <1>7, <1>8, <1>9 DEF Route

LEMMA NextPass == EdgeInv /\ PassInv /\ IncidentInv /\ [Next]_vars => PassInv' /\ IncidentInv'
BY PassWalk, PassToggle, PassTick, PassDecide, PassReply, PassPoll, PassElsewhere
   DEF Next, PassStep

\* Through every route, failure and restart the list holds one rule per id, and
\* the rescue plug is not commanded again in an incident it has answered.
THEOREM RulesInOrder == Spec => []AutomationInv
<1>1. Init => IdInv
  <2> SUFFICES ASSUME Init PROVE IdInv
    OBVIOUS
  <2>1. file \in Seq(Records) /\ DistinctFile(file) /\ Fits(Len(file))
    BY AutomationAssumption DEF Init, AutomationAssumption, DistinctFile
  <2>2. rules = Loaded(Len(file)) /\ rule = Dicts(Loaded(Len(file)), file)
    BY DEF Init
  <2>3. Distinct(rules, rule)
    BY <2>1, <2>2, LoadingIds
  <2> QED
    BY <2>1, <2>3 DEF IdInv
<1>2. EdgeInv /\ IdInv /\ PassInv /\ IncidentInv => AutomationInv
  BY DEF EdgeInv, Shape, IdInv, Distinct, PassInv, Walks, IncidentInv, AutomationInv,
         AutomationTypeOK, OneRescuePerIncident
<1> QED
  BY <1>1, <1>2, InitEdge, InitPass, NextEdge, NextIds, NextPass, PTL DEF Spec
=============================================================================
