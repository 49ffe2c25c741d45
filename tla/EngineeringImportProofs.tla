----------------------- MODULE EngineeringImportProofs -----------------------
(***************************************************************************)
(* Proofs about EngineeringImport for bundles of any size over any         *)
(* identities, with any limits of the importer and of the service.         *)
(***************************************************************************)
EXTENDS EngineeringImport, FiniteSetTheorems, SequenceTheorems, WellFoundedInduction, TLAPS

-----------------------------------------------------------------------------
(* Induction over the natural numbers, from their well-founded order.      *)
Below == {p \in Nat \X Nat : p[1] < p[2]}

LEMMA BelowWellFounded == IsWellFoundedOn(Below, Nat)
BY NatLessThanWellFounded DEF OpToRel, Below

LEMMA LeastNumber ==
  ASSUME NEW T \in SUBSET Nat, T # {}
  PROVE  \E n \in T : \A m \in T : n <= m
<1>1. PICK n \in T : \A m \in T : ~(<<m, n>> \in Below)
  BY BelowWellFounded, WFMin, Zenon
<1>2. ASSUME NEW m \in T PROVE n <= m
  <2>1. m \in Nat /\ n \in Nat
    OBVIOUS
  <2>2. CASE m < n
    <3>1. <<m, n>> \in Nat \X Nat /\ <<m, n>>[1] < <<m, n>>[2]
      BY <2>1, <2>2
    <3>2. <<m, n>> \in Below
      BY <3>1, Zenon DEF Below
    <3> QED
      BY <3>2, <1>1
  <2> QED
    BY <2>1, <2>2
<1> QED
  BY <1>2

LEMMA Induction ==
  ASSUME NEW S, 0 \in S, \A n \in Nat : n \in S => n + 1 \in S
  PROVE  Nat \subseteq S
<1> SUFFICES ASSUME NEW k \in Nat, k \notin S PROVE FALSE
  OBVIOUS
<1>1. PICK n \in Nat \ S : \A m \in Nat \ S : n <= m
  <2> DEFINE T == Nat \ S
  <2>1. T \in SUBSET Nat /\ T # {}
    OBVIOUS
  <2> QED
    BY <2>1, LeastNumber
<1>2. n # 0 /\ n - 1 \in Nat
  BY <1>1
<1>3. n - 1 \in S
  BY <1>1, <1>2
<1> QED
  BY <1>1, <1>2, <1>3

(* A non-empty list of numbers has a greatest one.                         *)
LEMMA GreatestEntry ==
  ASSUME NEW n \in Nat, NEW f \in [1 .. n + 1 -> Nat]
  PROVE  \E m \in 1 .. n + 1 : \A i \in 1 .. n + 1 : f[i] <= f[m]
<1> DEFINE Has(k) == \A g \in [1 .. k + 1 -> Nat] :
                       \E m \in 1 .. k + 1 : \A i \in 1 .. k + 1 : g[i] <= g[m]
           S == {k \in Nat : Has(k)}
<1>1. 0 \in S
  <2> SUFFICES ASSUME NEW g \in [1 .. 0 + 1 -> Nat]
               PROVE  \E m \in 1 .. 0 + 1 : \A i \in 1 .. 0 + 1 : g[i] <= g[m]
    OBVIOUS
  <2>1. 1 \in 1 .. 0 + 1 /\ g[1] \in Nat /\ \A i \in 1 .. 0 + 1 : i = 1
    OBVIOUS
  <2> QED
    BY <2>1
<1>2. ASSUME NEW k \in Nat, k \in S PROVE k + 1 \in S
  <2>0. k + 1 \in Nat
    OBVIOUS
  <2> SUFFICES Has(k + 1)
    BY <2>0, Zenon
  <2> SUFFICES ASSUME NEW g \in [1 .. (k + 1) + 1 -> Nat]
               PROVE  \E m \in 1 .. (k + 1) + 1 : \A i \in 1 .. (k + 1) + 1 : g[i] <= g[m]
    OBVIOUS
  <2> DEFINE h == [i \in 1 .. k + 1 |-> g[i]]
  <2>1. h \in [1 .. k + 1 -> Nat]
    OBVIOUS
  <2>2. PICK m \in 1 .. k + 1 : \A i \in 1 .. k + 1 : h[i] <= h[m]
    BY <1>2, <2>1
  <2>3. \A i \in 1 .. k + 1 : g[i] <= g[m]
    BY <2>2
  <2>4. /\ m \in 1 .. (k + 1) + 1 /\ (k + 1) + 1 \in 1 .. (k + 1) + 1
        /\ \A i \in 1 .. (k + 1) + 1 : i \in 1 .. k + 1 \/ i = (k + 1) + 1
    OBVIOUS
  <2>7. \A i \in 1 .. (k + 1) + 1 : g[i] \in Nat
    OBVIOUS
  <2> HIDE DEF h
  <2>5. CASE g[m] <= g[(k + 1) + 1]
    <3>1. \A i \in 1 .. (k + 1) + 1 : g[i] <= g[(k + 1) + 1]
      <4> SUFFICES ASSUME NEW i \in 1 .. (k + 1) + 1 PROVE g[i] <= g[(k + 1) + 1]
        OBVIOUS
      <4>1. g[i] \in Nat /\ g[m] \in Nat /\ g[(k + 1) + 1] \in Nat
        BY <2>4, <2>7
      <4>2. i \in 1 .. k + 1 => g[i] <= g[m]
        BY <2>3
      <4> QED
        BY <4>1, <4>2, <2>4, <2>5
    <3> QED
      BY <3>1, <2>4
  <2>6. CASE g[(k + 1) + 1] <= g[m]
    BY <2>3, <2>4, <2>6, <2>7
  <2> QED
    BY <2>4, <2>5, <2>6, <2>7
<1>3. n \in S
  <2> HIDE DEF S
  <2> QED
    BY <1>1, <1>2, Induction
<1> QED
  BY <1>3

(* Numbers can be sorted: the greatest one goes to the end, and the one    *)
(* that stood there takes its place among the rest.                        *)
SortedBy(f, p, n) == \A i, j \in 1 .. n : i < j => f[p[i]] <= f[p[j]]

LEMMA Sortable ==
  \A n \in Nat : \A f \in [1 .. n -> Nat] : \E p \in Bijection(1 .. n, 1 .. n) : SortedBy(f, p, n)
<1> DEFINE Can(k) == \A f \in [1 .. k -> Nat] :
                       \E p \in Bijection(1 .. k, 1 .. k) : SortedBy(f, p, k)
           S == {k \in Nat : Can(k)}
<1>1. 0 \in S
  <2> SUFFICES ASSUME NEW f \in [1 .. 0 -> Nat]
               PROVE  \E p \in Bijection(1 .. 0, 1 .. 0) : SortedBy(f, p, 0)
    OBVIOUS
  <2> DEFINE p == [i \in 1 .. 0 |-> i]
  <2>1. p \in Bijection(1 .. 0, 1 .. 0)
    BY DEF Bijection, Injection, Surjection, IsInjective
  <2>2. SortedBy(f, p, 0)
    BY DEF SortedBy
  <2> QED
    BY <2>1, <2>2
<1>2. ASSUME NEW k \in Nat, k \in S PROVE k + 1 \in S
  <2> SUFFICES ASSUME NEW f \in [1 .. k + 1 -> Nat]
               PROVE  \E p \in Bijection(1 .. k + 1, 1 .. k + 1) : SortedBy(f, p, k + 1)
    OBVIOUS
  <2>1. PICK m \in 1 .. k + 1 : \A i \in 1 .. k + 1 : f[i] <= f[m]
    BY GreatestEntry
  <2> DEFINE g == [i \in 1 .. k |-> IF i = m THEN f[k + 1] ELSE f[i]]
  <2>2. g \in [1 .. k -> Nat]
    OBVIOUS
  <2>3. PICK q \in Bijection(1 .. k, 1 .. k) : SortedBy(g, q, k)
    BY <1>2, <2>2
  <2>4. /\ q \in [1 .. k -> 1 .. k]
        /\ \A i, j \in 1 .. k : q[i] = q[j] => i = j
        /\ \A v \in 1 .. k : \E i \in 1 .. k : q[i] = v
    BY <2>3 DEF Bijection, Injection, Surjection, IsInjective
  <2>9. \A i \in 1 .. k : q[i] \in 1 .. k /\ q[i] \in 1 .. k + 1 /\ q[i] # k + 1
    <3>1. ASSUME NEW i \in 1 .. k PROVE q[i] \in 1 .. k
      BY <2>4
    <3>2. \A v \in 1 .. k : v \in 1 .. k + 1 /\ v # k + 1
      OBVIOUS
    <3> HIDE DEF g
    <3> QED
      BY <3>1, <3>2
  <2> DEFINE p == [i \in 1 .. k + 1 |-> IF i = k + 1 THEN m
                                        ELSE IF q[i] = m THEN k + 1 ELSE q[i]]
  <2>5. p \in [1 .. k + 1 -> 1 .. k + 1]
    <3>1. ASSUME NEW i \in 1 .. k + 1
          PROVE  (IF i = k + 1 THEN m ELSE IF q[i] = m THEN k + 1 ELSE q[i]) \in 1 .. k + 1
      <4>1. i # k + 1 => i \in 1 .. k
        OBVIOUS
      <4>2. i # k + 1 => q[i] \in 1 .. k + 1
        BY <4>1, <2>9
      <4> QED
        BY <4>2
    <3> QED
      BY <3>1
  <2>6. \A i \in 1 .. k : /\ i \in 1 .. k + 1 /\ i # k + 1
                          /\ p[i] = IF q[i] = m THEN k + 1 ELSE q[i]
    OBVIOUS
  <2>7. k + 1 \in 1 .. k + 1 /\ p[k + 1] = m
    OBVIOUS
  <2>8. \A i \in 1 .. k + 1 : i \in 1 .. k \/ i = k + 1
    OBVIOUS
  <2> HIDE DEF p
  <2>10. \A i, j \in 1 .. k + 1 : p[i] = p[j] => i = j
    <3> SUFFICES ASSUME NEW i \in 1 .. k + 1, NEW j \in 1 .. k + 1, p[i] = p[j] PROVE i = j
      OBVIOUS
    <3>1. CASE i \in 1 .. k /\ j \in 1 .. k
      BY <3>1, <2>4, <2>6, <2>9
    <3>2. CASE i \in 1 .. k /\ j = k + 1
      BY <3>2, <2>6, <2>7, <2>9
    <3>3. CASE i = k + 1 /\ j \in 1 .. k
      BY <3>3, <2>6, <2>7, <2>9
    <3> QED
      BY <3>1, <3>2, <3>3, <2>8
  <2>11. \A v \in 1 .. k + 1 : \E i \in 1 .. k + 1 : p[i] = v
    <3> SUFFICES ASSUME NEW v \in 1 .. k + 1 PROVE \E i \in 1 .. k + 1 : p[i] = v
      OBVIOUS
    <3>1. CASE v = m
      BY <3>1, <2>7
    <3>2. CASE v # m /\ v \in 1 .. k
      BY <3>2, <2>4, <2>6
    <3>3. CASE v # m /\ v = k + 1
      <4>1. m \in 1 .. k
        BY <3>3, <2>8
      <4>2. PICK i \in 1 .. k : q[i] = m
        BY <4>1, <2>4
      <4> QED
        BY <4>2, <3>3, <2>6
    <3> QED
      BY <3>1, <3>2, <3>3, <2>8
  <2>12. p \in Bijection(1 .. k + 1, 1 .. k + 1)
    BY <2>5, <2>10, <2>11 DEF Bijection, Injection, Surjection, IsInjective
  <2>13. \A i \in 1 .. k : f[p[i]] = g[q[i]]
    BY <2>4, <2>6
  <2>14. SortedBy(f, p, k + 1)
    <3> SUFFICES ASSUME NEW i \in 1 .. k + 1, NEW j \in 1 .. k + 1, i < j
                 PROVE  f[p[i]] <= f[p[j]]
      BY DEF SortedBy
    <3>1. i \in 1 .. k
      OBVIOUS
    <3>2. CASE j = k + 1
      BY <3>2, <2>1, <2>5, <2>7
    <3>3. CASE j \in 1 .. k
      <4>1. g[q[i]] <= g[q[j]]
        BY <3>1, <3>3, <2>3 DEF SortedBy
      <4> QED
        BY <4>1, <3>1, <3>3, <2>13
    <3> QED
      BY <3>2, <3>3, <2>8
  <2> QED
    BY <2>12, <2>14
<1> HIDE DEF S
<1>3. Nat \subseteq S
  BY <1>1, <1>2, Induction
<1> QED
  BY <1>3 DEF S

(* A list whose entries have distinct identities.                          *)
Distinct(s) == \A i, j \in DOMAIN s : s[i].id = s[j].id => i = j
Ascending(s) == \A i, j \in DOMAIN s : i < j => s[i].id < s[j].id

(* sort_by_id keeps the entries and puts them in the order of their        *)
(* identities.                                                             *)
LEMMA SortByIdSorts ==
  ASSUME NEW R, NEW s \in Seq(R), \A r \in R : r.id \in Nat, Distinct(s)
  PROVE  /\ SortById(s) \in Seq(R) /\ Range(SortById(s)) = Range(s)
         /\ Ascending(SortById(s)) /\ Distinct(SortById(s))
<1> DEFINE D == 1 .. Len(s)
           Good(q) == \A i, j \in D : i < j => s[q[i]].id <= s[q[j]].id
           p == CHOOSE q \in Bijection(D, D) : Good(q)
           t == [i \in D |-> s[p[i]]]
<1>1. DOMAIN s = D /\ Len(s) \in Nat /\ \A i \in D : s[i] \in R /\ s[i].id \in Nat
  BY LenProperties, ElementOfSeq
<1>2. \E q \in Bijection(D, D) : Good(q)
  <2> DEFINE f == [i \in D |-> s[i].id]
  <2>1. f \in [D -> Nat]
    BY <1>1
  <2>2. PICK q \in Bijection(D, D) : SortedBy(f, q, Len(s))
    BY <2>1, <1>1, Sortable
  <2>3. \A i \in D : q[i] \in D
    BY <2>2 DEF Bijection, Injection
  <2>4. Good(q)
    BY <2>2, <2>3 DEF SortedBy
  <2> QED
    BY <2>2, <2>4
<1>3. p \in Bijection(D, D) /\ Good(p)
  BY <1>2, Zenon
<1>4. SortById(s) = t
  BY <1>1 DEF SortById
<1> HIDE DEF p
<1>5. /\ \A i \in D : p[i] \in D
      /\ \A i, j \in D : p[i] = p[j] => i = j
      /\ \A v \in D : \E i \in D : p[i] = v
  BY <1>3 DEF Bijection, Injection, Surjection, IsInjective
<1>6. DOMAIN t = D /\ \A i \in D : t[i] = s[p[i]] /\ t[i] \in R /\ t[i].id \in Nat
  BY <1>1, <1>5
<1>7. t \in Seq(R)
  BY <1>1, <1>6
<1>8. Range(t) = Range(s)
  BY <1>1, <1>5, <1>6, SMTT(30) DEF Range
<1> HIDE DEF t
<1>9. Distinct(t)
  <2> SUFFICES ASSUME NEW i \in D, NEW j \in D, t[i].id = t[j].id PROVE i = j
    BY <1>6 DEF Distinct
  <2>1. s[p[i]].id = s[p[j]].id /\ p[i] \in DOMAIN s /\ p[j] \in DOMAIN s
    BY <1>1, <1>5, <1>6
  <2>2. p[i] = p[j]
    BY <2>1 DEF Distinct
  <2> QED
    BY <2>2, <1>5
<1>10. Ascending(t)
  <2> SUFFICES ASSUME NEW i \in D, NEW j \in D, i < j PROVE t[i].id < t[j].id
    BY <1>6 DEF Ascending
  <2>1. t[i].id <= t[j].id
    BY <1>3, <1>6
  <2>2. t[i].id # t[j].id
    BY <1>6, <1>9, SMTT(30) DEF Distinct
  <2> QED
    BY <2>1, <2>2, <1>6
<1> QED
  BY <1>4, <1>7, <1>8, <1>9, <1>10
-----------------------------------------------------------------------------
(* The kinds, and what a row of each has.                                  *)
LEMMA KindsNamed ==
  /\ Kinds = {"assets", "relationships", "tags", "io", "alarms", "communications", "documents"}
  /\ Len(Order) = 7
  /\ Order[1] = "assets" /\ Order[2] = "relationships" /\ Order[3] = "tags" /\ Order[4] = "io"
  /\ Order[5] = "alarms" /\ Order[6] = "communications" /\ Order[7] = "documents"
<1>1. DOMAIN Order = 1 .. 7 /\ Len(Order) = 7
  BY DEF Order
<1>2. \A i \in 1 .. 7 : i = 1 \/ i = 2 \/ i = 3 \/ i = 4 \/ i = 5 \/ i = 6 \/ i = 7
  OBVIOUS
<1>3. /\ Order[1] = "assets" /\ Order[2] = "relationships" /\ Order[3] = "tags" /\ Order[4] = "io"
      /\ Order[5] = "alarms" /\ Order[6] = "communications" /\ Order[7] = "documents"
  BY DEF Order
<1>4. Kinds = {Order[i] : i \in 1 .. 7}
  BY <1>1, Zenon DEF Kinds, Range
<1> QED
  BY <1>1, <1>2, <1>3, <1>4

LEMMA RowsOf ==
  /\ Rows("relationships") =
       [id : Ids["relationships"] \cup {0}, from : Ids["assets"], to : Ids["assets"]]
  /\ Rows("tags") = [id : Ids["tags"] \cup {0}, asset_id : Ids["assets"],
                     type : {"number", "text", "level", "other"}]
  /\ Rows("io") = [id : Ids["io"] \cup {0}, tag_id : Ids["tags"]]
  /\ Rows("alarms") = [id : Ids["alarms"] \cup {0}, asset_id : Ids["assets"],
                       tag_id : Ids["tags"], details : {"ok", "malformed", "unsupported"}]
  /\ \A k \in {"assets", "communications", "documents"} : Rows(k) = [id : Ids[k] \cup {0}]
<1>1. Rows("assets") = [id : Ids["assets"] \cup {0}]
  BY Zenon DEF Rows
<1>2. Rows("communications") = [id : Ids["communications"] \cup {0}]
  BY Zenon DEF Rows
<1>3. Rows("documents") = [id : Ids["documents"] \cup {0}]
  BY Zenon DEF Rows
<1>4. Rows("relationships") =
       [id : Ids["relationships"] \cup {0}, from : Ids["assets"], to : Ids["assets"]]
  BY Zenon DEF Rows
<1>5. Rows("tags") = [id : Ids["tags"] \cup {0}, asset_id : Ids["assets"],
                     type : {"number", "text", "level", "other"}]
  BY Zenon DEF Rows
<1>6. Rows("io") = [id : Ids["io"] \cup {0}, tag_id : Ids["tags"]]
  BY Zenon DEF Rows
<1>7. Rows("alarms") = [id : Ids["alarms"] \cup {0}, asset_id : Ids["assets"],
                       tag_id : Ids["tags"], details : {"ok", "malformed", "unsupported"}]
  BY Zenon DEF Rows
<1> QED
  BY <1>1, <1>2, <1>3, <1>4, <1>5, <1>6, <1>7

LEMMA RowFields ==
  ASSUME NEW k \in Kinds, NEW row \in Rows(k)
  PROVE  /\ row.id \in Nat
         /\ k = "tags" => row.type \in {"number", "text", "level", "other"}
<1>1. \A j \in Kinds : \A x \in Ids[j] \cup {0} : x \in Nat
  BY ImportAssumption, KindsNamed
<1>2. CASE k = "relationships"
  <2>1. row \in [id : Ids["relationships"] \cup {0}, from : Ids["assets"], to : Ids["assets"]]
    BY <1>2, RowsOf
  <2> QED
    BY <2>1, <1>1, <1>2
<1>3. CASE k = "tags"
  <2>1. row \in [id : Ids["tags"] \cup {0}, asset_id : Ids["assets"],
                 type : {"number", "text", "level", "other"}]
    BY <1>3, RowsOf
  <2> QED
    BY <2>1, <1>1, <1>3
<1>4. CASE k = "io"
  <2>1. row \in [id : Ids["io"] \cup {0}, tag_id : Ids["tags"]]
    BY <1>4, RowsOf
  <2> QED
    BY <2>1, <1>1, <1>4
<1>5. CASE k = "alarms"
  <2>1. row \in [id : Ids["alarms"] \cup {0}, asset_id : Ids["assets"],
                 tag_id : Ids["tags"], details : {"ok", "malformed", "unsupported"}]
    BY <1>5, RowsOf
  <2> QED
    BY <2>1, <1>1, <1>5
<1>6. CASE k \in {"assets", "communications", "documents"}
  <2>1. row \in [id : Ids[k] \cup {0}]
    BY <1>6, RowsOf
  <2> QED
    BY <2>1, <1>1, <1>6
<1> QED
  BY <1>2, <1>3, <1>4, <1>5, <1>6, KindsNamed
-----------------------------------------------------------------------------
(* Carried, of the rows rs of a bundle.                                    *)
IdsOf(s) == {s[i].id : i \in DOMAIN s}
TagCarriedIn(rs, tag) == tag.type # "other" /\ tag.asset_id \in IdsOf(rs["assets"])

CarriedIn(rs, k, row) ==
  /\ k = "relationships" =>
       row.from # row.to /\ {row.from, row.to} \subseteq IdsOf(rs["assets"])
  /\ k = "tags" => TagCarriedIn(rs, row)
  /\ k = "io" => \E tag \in Range(rs["tags"]) : tag.id = row.tag_id /\ TagCarriedIn(rs, tag)
  /\ k = "alarms" =>
       /\ row.details = "ok"
       /\ \E tag \in Range(rs["tags"]) :
            tag.id = row.tag_id /\ tag.asset_id = row.asset_id /\ TagCarriedIn(rs, tag)

LEMMA CarriedIs ==
  ASSUME NEW k \in Kinds, NEW row
  PROVE  Carried(k, row) <=> CarriedIn(rows, k, row)
<1>1. Carried("relationships", row) <=> CarriedIn(rows, "relationships", row)
  BY Zenon DEF Carried, CarriedIn, Declared, IdsOf
<1>2. Carried("tags", row) <=> CarriedIn(rows, "tags", row)
  BY Zenon DEF Carried, CarriedIn, Declared, IdsOf, TagCarriedIn
<1>3. Carried("io", row) <=> CarriedIn(rows, "io", row)
  BY Zenon DEF Carried, CarriedIn, Declared, IdsOf, TagCarriedIn
<1>4. Carried("alarms", row) <=> CarriedIn(rows, "alarms", row)
  BY Zenon DEF Carried, CarriedIn, Declared, IdsOf, TagCarriedIn
<1>5. Carried("assets", row) /\ Carried("communications", row) /\ Carried("documents", row)
  BY Zenon DEF Carried
<1>6. /\ CarriedIn(rows, "assets", row) /\ CarriedIn(rows, "communications", row)
      /\ CarriedIn(rows, "documents", row)
  BY DEF CarriedIn
<1> QED
  BY <1>1, <1>2, <1>3, <1>4, <1>5, <1>6, KindsNamed

(* Reading a row of the artifact in work does not change what is carried   *)
(* of what has been read: what decides it was read before.                 *)
LEMMA CarriedStable ==
  ASSUME NEW rs, NEW rt, NEW k, DOMAIN rs = Kinds, DOMAIN rt = Kinds,
         \A j \in Kinds : j # k => rt[j] = rs[j],
         k = "assets" => \A j \in Kinds \ {"assets"} : rs[j] = <<>>,
         k = "tags" => rs["io"] = <<>> /\ rs["alarms"] = <<>>
  PROVE  \A j \in Kinds : \A r : j = k \/ rs[j] # <<>> =>
           (CarriedIn(rt, j, r) <=> CarriedIn(rs, j, r))
<1> SUFFICES ASSUME NEW j \in Kinds, NEW r, j = k \/ rs[j] # <<>>
             PROVE  CarriedIn(rt, j, r) <=> CarriedIn(rs, j, r)
  OBVIOUS
<1>1. CASE k = "assets"
  <2>1. j = "assets"
    BY <1>1
  <2> QED
    BY <2>1 DEF CarriedIn
<1>2. CASE k # "assets"
  <2>1. rt["assets"] = rs["assets"]
    BY <1>2, KindsNamed
  <2>2. \A tag : TagCarriedIn(rt, tag) <=> TagCarriedIn(rs, tag)
    BY <2>1, Zenon DEF TagCarriedIn
  <2>3. CASE j \in {"io", "alarms"}
    <3>1. rt["tags"] = rs["tags"]
      BY <2>3, KindsNamed
    <3> QED
      BY <2>3, <3>1, <2>2, Zenon DEF CarriedIn
  <2>4. CASE j \notin {"io", "alarms"}
    BY <2>1, <2>2, <2>4 DEF CarriedIn
  <2> QED
    BY <2>3, <2>4
<1> QED
  BY <1>1, <1>2
-----------------------------------------------------------------------------
(* The inductive invariant.                                                *)
UnfitIn(rs, k) == {<<k, i>> : i \in {j \in DOMAIN rs[k] : ~CarriedIn(rs, k, rs[k][j])}}
Ended == {"imported", "loaded", "refused"}

TypeOK ==
  /\ status \in {"manifest", "parsing", "failed"} \cup Ended
  /\ at \in 1 .. 8
  /\ DOMAIN rows = Kinds /\ \A k \in Kinds : rows[k] \in Seq(Rows(k))
  /\ DOMAIN model = Arrays /\ \A k \in Arrays : model[k] \in Seq(Rows(k))
  /\ DOMAIN seen = Kinds
  /\ unresolved \in Seq(Kinds \X Nat)

(* The artifacts are read in their order.                                  *)
InOrder == \A i \in 1 .. 7 : i > at => rows[Order[i]] = <<>>

(* But for I/O rows, which have no set, every identity is declared once.   *)
SeenOK ==
  \A k \in Kinds \ {"io"} : seen[k] = IdsOf(rows[k]) /\ Distinct(rows[k])

ModelOK ==
  \A k \in Arrays :
    /\ Range(model[k]) = {row \in Range(rows[k]) : CarriedIn(rows, k, row)}
    /\ Distinct(model[k])

EmittedOK == emitted = {tag.id : tag \in Range(model["tags"])}

ReportOK ==
  /\ \A e : e \in Range(unresolved) <=> \E k \in Kinds : e \in UnfitIn(rows, k)
  /\ IsInjective(unresolved)

SortedOK == status \in Ended => \A k \in Arrays : Ascending(model[k])

RowsInv == TypeOK /\ InOrder /\ SeenOK /\ ModelOK /\ EmittedOK /\ ReportOK
IInv == RowsInv /\ SortedOK /\ ImportedModelLoads

(* Nothing read yet, or an import that has failed.                         *)
Blank ==
  /\ status \in {"manifest", "parsing", "failed"}
  /\ at = 1
  /\ rows = [k \in Kinds |-> <<>>]
  /\ model = [k \in Arrays |-> <<>>]
  /\ seen = [k \in Kinds |-> {}]
  /\ emitted = {}
  /\ unresolved = <<>>

LEMMA BlankInvariant == Blank => RowsInv /\ SortedOK
<1> SUFFICES ASSUME Blank PROVE RowsInv /\ SortedOK
  OBVIOUS
<1>1. /\ \A k \in Kinds : rows[k] = <<>> /\ seen[k] = {}
      /\ \A k \in Arrays : model[k] = <<>>
      /\ DOMAIN rows = Kinds /\ DOMAIN seen = Kinds /\ DOMAIN model = Arrays
      /\ unresolved = <<>> /\ emitted = {} /\ at = 1
  BY DEF Blank
<1>2. /\ DOMAIN <<>> = {} /\ Range(<<>>) = {} /\ Distinct(<<>>)
      /\ IsInjective(<<>>) /\ IdsOf(<<>>) = {} /\ \A R : <<>> \in Seq(R)
  BY DEF Range, Distinct, IsInjective, IdsOf
<1>3. TypeOK
  BY <1>1, <1>2 DEF TypeOK, Blank
<1>4. InOrder
  BY <1>1, KindsNamed DEF InOrder
<1>5. SeenOK
  BY <1>1, <1>2 DEF SeenOK
<1>6. ModelOK
  BY <1>1, <1>2, KindsNamed DEF ModelOK, Arrays
<1>7. EmittedOK
  BY <1>1, <1>2 DEF EmittedOK, Arrays
<1>8. ReportOK
  BY <1>1, <1>2 DEF ReportOK, UnfitIn
<1>9. SortedOK
  BY DEF SortedOK, Blank, Ended
<1> QED
  BY <1>3, <1>4, <1>5, <1>6, <1>7, <1>8, <1>9 DEF RowsInv
-----------------------------------------------------------------------------
(* One row.                                                                *)
LEMMA AppendFacts ==
  ASSUME NEW R, NEW s \in Seq(R), NEW r \in R
  PROVE  /\ Append(s, r) \in Seq(R) /\ Append(s, r) # <<>>
         /\ DOMAIN Append(s, r) = DOMAIN s \cup {Len(s) + 1}
         /\ Len(s) + 1 \notin DOMAIN s /\ Len(s) + 1 \in Nat
         /\ \A i \in DOMAIN s : Append(s, r)[i] = s[i]
         /\ Append(s, r)[Len(s) + 1] = r
         /\ Range(Append(s, r)) = Range(s) \cup {r}
         /\ IdsOf(Append(s, r)) = IdsOf(s) \cup {r.id}
<1> DEFINE t == Append(s, r)
<1>1. /\ t \in Seq(R) /\ Len(s) \in Nat /\ DOMAIN s = 1 .. Len(s)
      /\ Len(t) = Len(s) + 1 /\ DOMAIN t = 1 .. Len(s) + 1
      /\ \A i \in 1 .. Len(s) : t[i] = s[i]
      /\ t[Len(s) + 1] = r
  BY AppendProperties, LenProperties
<1>2. t # <<>>
  BY <1>1
<1>3. DOMAIN t = DOMAIN s \cup {Len(s) + 1} /\ Len(s) + 1 \notin DOMAIN s
  BY <1>1
<1> HIDE DEF t
<1>4. Range(t) = Range(s) \cup {r}
  BY <1>1, <1>3 DEF Range
<1>5. IdsOf(t) = IdsOf(s) \cup {r.id}
  BY <1>1, <1>3 DEF IdsOf
<1> QED
  BY <1>1, <1>2, <1>3, <1>4, <1>5 DEF t

(* A row that is read: its artifact grows by it, the others stay, and what *)
(* is carried stays carried.                                               *)
LEMMA ReadFacts ==
  ASSUME RowsInv, NEW k \in Kinds, NEW row \in Rows(k), Read(k, row)
  PROVE  /\ DOMAIN rows' = Kinds /\ \A j \in Kinds : j # k => rows'[j] = rows[j]
         /\ rows'[k] = Append(rows[k], row) /\ rows[k] \in Seq(Rows(k))
         /\ at \in 1 .. 7 /\ Order[at] = k
         /\ \A j \in Kinds : \A r : j = k \/ rows[j] # <<>> =>
              (CarriedIn(rows', j, r) <=> CarriedIn(rows, j, r))
<1>1. DOMAIN rows = Kinds /\ rows[k] \in Seq(Rows(k)) /\ at \in 1 .. 8
  BY DEF RowsInv, TypeOK
<1>2. /\ DOMAIN rows' = Kinds /\ \A j \in Kinds : j # k => rows'[j] = rows[j]
      /\ rows'[k] = Append(rows[k], row)
  BY <1>1 DEF Read
<1>3. at \in 1 .. 7 /\ Order[at] = k
  BY <1>1, KindsNamed DEF Read, AtRow, Kind
<1>4. \A i \in 1 .. 7 : i > at => rows[Order[i]] = <<>>
  BY DEF RowsInv, InOrder
<1>5. k = "assets" => \A j \in Kinds \ {"assets"} : rows[j] = <<>>
  <2> SUFFICES ASSUME k = "assets" PROVE \A j \in Kinds \ {"assets"} : rows[j] = <<>>
    OBVIOUS
  <2>1. at = 1
    BY <1>3, KindsNamed
  <2>2. \A i \in 2 .. 7 : rows[Order[i]] = <<>>
    BY <2>1, <1>4
  <2> QED
    BY <2>2, KindsNamed
<1>6. k = "tags" => rows["io"] = <<>> /\ rows["alarms"] = <<>>
  <2> SUFFICES ASSUME k = "tags" PROVE rows["io"] = <<>> /\ rows["alarms"] = <<>>
    OBVIOUS
  <2>1. at = 3
    BY <1>3, KindsNamed
  <2>2. rows[Order[4]] = <<>> /\ rows[Order[5]] = <<>>
    BY <2>1, <1>4
  <2> QED
    BY <2>2, KindsNamed
<1>7. \A j \in Kinds : \A r : j = k \/ rows[j] # <<>> =>
        (CarriedIn(rows', j, r) <=> CarriedIn(rows, j, r))
  BY <1>1, <1>2, <1>5, <1>6, CarriedStable
<1> QED
  BY <1>1, <1>2, <1>3, <1>7

(* A row is judged by what the bundle declares.                            *)
Judged(k, row) ==
  /\ Read(k, row)
  /\ model' = IF k \in Arrays /\ CarriedIn(rows, k, row)
              THEN [model EXCEPT ![k] = Append(@, row)] ELSE model
  /\ unresolved' = IF CarriedIn(rows, k, row) THEN unresolved
                   ELSE Append(unresolved, <<k, Len(rows[k]) + 1>>)
  /\ emitted' = IF k = "tags" /\ CarriedIn(rows, k, row) THEN emitted \cup {row.id} ELSE emitted
  /\ k # "io" => /\ Fresh(k, row.id)
                 /\ seen' = [seen EXCEPT ![k] = @ \cup {row.id}]
  /\ k = "io" => UNCHANGED seen
  /\ UNCHANGED <<status, at, total, refusals>>

LEMMA JudgedSeen ==
  ASSUME RowsInv, NEW k \in Kinds, NEW row \in Rows(k), Judged(k, row)
  PROVE  DOMAIN seen' = Kinds /\ SeenOK'
<1>1. /\ \A j \in Kinds : j # k => rows'[j] = rows[j]
      /\ rows'[k] = Append(rows[k], row) /\ rows[k] \in Seq(Rows(k))
  BY ReadFacts DEF Judged
<1>2. DOMAIN seen = Kinds /\ \A j \in Kinds \ {"io"} : seen[j] = IdsOf(rows[j]) /\ Distinct(rows[j])
  BY DEF RowsInv, TypeOK, SeenOK
<1>3. DOMAIN seen' = Kinds /\ \A j \in Kinds : j # k => seen'[j] = seen[j]
  BY <1>2 DEF Judged
<1>4. ASSUME k # "io" PROVE seen'[k] = IdsOf(rows'[k]) /\ Distinct(rows'[k])
  <2>1. seen'[k] = seen[k] \cup {row.id} /\ row.id \notin seen[k]
    BY <1>2, <1>4 DEF Judged, Fresh
  <2>2. IdsOf(rows'[k]) = IdsOf(rows[k]) \cup {row.id}
    BY <1>1, AppendFacts
  <2>3. row.id \notin IdsOf(rows[k]) /\ Distinct(rows[k])
    BY <2>1, <1>2, <1>4
  <2> DEFINE s == rows[k]  t == Append(s, row)
  <2>4. /\ DOMAIN t = DOMAIN s \cup {Len(s) + 1} /\ Len(s) + 1 \notin DOMAIN s
        /\ \A i \in DOMAIN s : t[i] = s[i]
        /\ t[Len(s) + 1] = row
    BY <1>1, AppendFacts
  <2>5. \A i \in DOMAIN s : s[i].id # row.id
    BY <2>3 DEF IdsOf
  <2> HIDE DEF s, t
  <2>6. Distinct(s)
    BY <2>3 DEF s
  <2>7. Distinct(t)
    BY <2>4, <2>5, <2>6 DEF Distinct
  <2> QED
    BY <2>1, <2>2, <2>7, <1>1, <1>2, <1>4 DEF s, t
<1> QED
  BY <1>1, <1>2, <1>3, <1>4 DEF SeenOK

LEMMA JudgedModel ==
  ASSUME RowsInv, NEW k \in Kinds, NEW row \in Rows(k), Judged(k, row)
  PROVE  /\ DOMAIN model' = Arrays /\ \A j \in Arrays : model'[j] \in Seq(Rows(j))
         /\ ModelOK' /\ EmittedOK'
<1>1. /\ \A j \in Kinds : j # k => rows'[j] = rows[j]
      /\ rows'[k] = Append(rows[k], row) /\ rows[k] \in Seq(Rows(k))
      /\ \A j \in Kinds : \A r : j = k \/ rows[j] # <<>> =>
           (CarriedIn(rows', j, r) <=> CarriedIn(rows, j, r))
  BY ReadFacts DEF Judged
<1>2. /\ DOMAIN model = Arrays /\ \A j \in Arrays : model[j] \in Seq(Rows(j))
      /\ \A j \in Arrays : /\ Range(model[j]) = {r \in Range(rows[j]) : CarriedIn(rows, j, r)}
                           /\ Distinct(model[j])
      /\ emitted = {tag.id : tag \in Range(model["tags"])}
  BY DEF RowsInv, TypeOK, ModelOK, EmittedOK
<1>3. DOMAIN model' = Arrays /\ \A j \in Arrays : j # k => model'[j] = model[j]
  BY <1>2 DEF Judged
<1>4. Arrays \subseteq Kinds /\ "io" \notin Arrays /\ "tags" \in Arrays
  BY KindsNamed DEF Arrays
<1>5. ASSUME NEW j \in Arrays, j # k
      PROVE  Range(model'[j]) = {r \in Range(rows'[j]) : CarriedIn(rows', j, r)}
  <2>1. rows'[j] = rows[j] /\ model'[j] = model[j]
    BY <1>1, <1>3, <1>4, <1>5
  <2>2. CASE rows[j] = <<>>
    <3>1. Range(rows[j]) = {}
      BY <2>2 DEF Range
    <3> QED
      BY <3>1, <2>1, <1>2
  <2>3. CASE rows[j] # <<>>
    BY <2>1, <2>3, <1>1, <1>2, <1>4
  <2> QED
    BY <2>2, <2>3
<1>6. Range(rows'[k]) = Range(rows[k]) \cup {row}
  BY <1>1, AppendFacts
<1>7. CASE k \in Arrays /\ CarriedIn(rows, k, row)
  <2> DEFINE s == model[k]  t == Append(s, row)
  <2>1. model'[k] = t
    BY <1>2, <1>7 DEF Judged
  <2>2. s \in Seq(Rows(k))
    BY <1>2, <1>7
  <2>3. /\ t \in Seq(Rows(k))
        /\ DOMAIN t = DOMAIN s \cup {Len(s) + 1} /\ Len(s) + 1 \notin DOMAIN s
        /\ \A i \in DOMAIN s : t[i] = s[i]
        /\ t[Len(s) + 1] = row
        /\ Range(t) = Range(s) \cup {row}
    BY <2>2, AppendFacts
  <2>4. \A i \in DOMAIN s : s[i].id # row.id
    <3> SUFFICES ASSUME NEW i \in DOMAIN s, s[i].id = row.id PROVE FALSE
      OBVIOUS
    <3>1. s[i] \in Range(rows[k])
      <4>1. s[i] \in Range(s)
        BY DEF Range
      <4> QED
        BY <4>1, <1>2, <1>7
    <3>2. row.id \in IdsOf(rows[k])
      BY <3>1 DEF Range, IdsOf
    <3>3. row.id \notin seen[k] /\ seen[k] = IdsOf(rows[k])
      BY <1>4, <1>7 DEF Judged, Fresh, RowsInv, SeenOK
    <3> QED
      BY <3>2, <3>3
  <2>5. Range(t) = {r \in Range(rows'[k]) : CarriedIn(rows', k, r)}
    BY <2>3, <1>1, <1>2, <1>6, <1>7
  <2> HIDE DEF s, t
  <2>6. Distinct(s)
    BY <1>2, <1>7 DEF s
  <2>7. Distinct(t)
    BY <2>3, <2>4, <2>6 DEF Distinct
  <2>8. ModelOK'
    BY <2>1, <2>5, <2>7, <1>2, <1>3, <1>5 DEF ModelOK
  <2>9. \A j \in Arrays : model'[j] \in Seq(Rows(j))
    BY <2>1, <2>3, <1>2, <1>3
  <2>10. EmittedOK'
    <3>1. CASE k = "tags"
      <4>1. emitted' = emitted \cup {row.id}
        BY <3>1, <1>7 DEF Judged
      <4>2. Range(model'["tags"]) = Range(model["tags"]) \cup {row}
        BY <3>1, <2>1, <2>3 DEF s
      <4> QED
        BY <4>1, <4>2, <1>2 DEF EmittedOK
    <3>2. CASE k # "tags"
      <4>1. emitted' = emitted /\ model'["tags"] = model["tags"]
        BY <3>2, <1>3, <1>4 DEF Judged
      <4> QED
        BY <4>1, <1>2 DEF EmittedOK
    <3> QED
      BY <3>1, <3>2
  <2> QED
    BY <2>8, <2>9, <2>10, <1>3
<1>8. CASE ~(k \in Arrays /\ CarriedIn(rows, k, row))
  <2>1. model' = model /\ emitted' = emitted
    BY <1>4, <1>8 DEF Judged
  <2>2. ASSUME k \in Arrays
        PROVE  Range(model'[k]) = {r \in Range(rows'[k]) : CarriedIn(rows', k, r)}
    <3>1. ~CarriedIn(rows, k, row)
      BY <2>2, <1>8
    <3>2. {r \in Range(rows'[k]) : CarriedIn(rows', k, r)}
            = {r \in Range(rows[k]) : CarriedIn(rows, k, r)}
      BY <3>1, <1>1, <1>6
    <3> QED
      BY <3>2, <2>1, <2>2, <1>2
  <2>3. ModelOK'
    BY <2>1, <2>2, <1>2, <1>5 DEF ModelOK
  <2>4. EmittedOK'
    BY <2>1, <1>2 DEF EmittedOK
  <2> QED
    BY <2>1, <2>3, <2>4, <1>2
<1> QED
  BY <1>7, <1>8

LEMMA JudgedReport ==
  ASSUME RowsInv, NEW k \in Kinds, NEW row \in Rows(k), Judged(k, row)
  PROVE  unresolved' \in Seq(Kinds \X Nat) /\ ReportOK'
<1> DEFINE n == Len(rows[k]) + 1
           bad == ~CarriedIn(rows, k, row)
<1>1. /\ \A j \in Kinds : j # k => rows'[j] = rows[j]
      /\ rows'[k] = Append(rows[k], row) /\ rows[k] \in Seq(Rows(k))
      /\ \A j \in Kinds : \A r : j = k \/ rows[j] # <<>> =>
           (CarriedIn(rows', j, r) <=> CarriedIn(rows, j, r))
  BY ReadFacts DEF Judged
<1>2. /\ unresolved \in Seq(Kinds \X Nat)
      /\ \A e : e \in Range(unresolved) <=> \E j \in Kinds : e \in UnfitIn(rows, j)
      /\ IsInjective(unresolved)
  BY DEF RowsInv, TypeOK, ReportOK
<1>3. /\ DOMAIN rows'[k] = DOMAIN rows[k] \cup {n} /\ n \notin DOMAIN rows[k] /\ n \in Nat
      /\ \A i \in DOMAIN rows[k] : rows'[k][i] = rows[k][i]
      /\ rows'[k][n] = row
  BY <1>1, AppendFacts
<1> HIDE DEF n
<1>4. ASSUME NEW j \in Kinds, j # k PROVE UnfitIn(rows', j) = UnfitIn(rows, j)
  <2>1. rows'[j] = rows[j]
    BY <1>1, <1>4
  <2>2. CASE rows[j] = <<>>
    BY <2>1, <2>2 DEF UnfitIn
  <2>3. CASE rows[j] # <<>>
    BY <2>1, <2>3, <1>1 DEF UnfitIn
  <2> QED
    BY <2>2, <2>3
<1>5. \A e : e \in UnfitIn(rows', k) <=> e \in UnfitIn(rows, k) \/ (bad /\ e = <<k, n>>)
  BY <1>1, <1>3 DEF UnfitIn
<1>6. \A e : (\E j \in Kinds : e \in UnfitIn(rows', j))
              <=> e \in Range(unresolved) \/ (bad /\ e = <<k, n>>)
  BY <1>2, <1>4, <1>5
<1>7. CASE bad
  <2>1. unresolved' = Append(unresolved, <<k, n>>)
    BY <1>7 DEF Judged, n
  <2>2. <<k, n>> \in Kinds \X Nat
    BY <1>3
  <2>3. <<k, n>> \notin Range(unresolved)
    <3>1. ASSUME NEW j \in Kinds PROVE <<k, n>> \notin UnfitIn(rows, j)
      BY <1>3 DEF UnfitIn
    <3> QED
      BY <3>1, <1>2
  <2> DEFINE s == unresolved  t == Append(s, <<k, n>>)
  <2>4. /\ t \in Seq(Kinds \X Nat)
        /\ DOMAIN t = DOMAIN s \cup {Len(s) + 1} /\ Len(s) + 1 \notin DOMAIN s
        /\ \A i \in DOMAIN s : t[i] = s[i]
        /\ t[Len(s) + 1] = <<k, n>>
        /\ Range(t) = Range(s) \cup {<<k, n>>}
    <3> DEFINE R == Kinds \X Nat  e == <<k, n>>
    <3>1. e \in R /\ s \in Seq(R)
      BY <2>2, <1>2
    <3> HIDE DEF R, e, s
    <3>2. /\ Append(s, e) \in Seq(R)
          /\ DOMAIN Append(s, e) = DOMAIN s \cup {Len(s) + 1} /\ Len(s) + 1 \notin DOMAIN s
          /\ \A i \in DOMAIN s : Append(s, e)[i] = s[i]
          /\ Append(s, e)[Len(s) + 1] = e
          /\ Range(Append(s, e)) = Range(s) \cup {e}
      BY <3>1, AppendFacts
    <3> QED
      BY <3>2, Zenon DEF R, e, s
  <2>5. \A i \in DOMAIN s : s[i] # <<k, n>>
    BY <2>3 DEF Range
  <2> HIDE DEF t
  <2>6. IsInjective(t)
    BY <2>4, <2>5, <1>2 DEF IsInjective
  <2>7. \A e : e \in Range(t) <=> \E j \in Kinds : e \in UnfitIn(rows', j)
    BY <2>4, <1>6, <1>7
  <2> QED
    BY <2>1, <2>4, <2>6, <2>7 DEF ReportOK, t
<1>8. CASE ~bad
  <2>1. unresolved' = unresolved
    BY <1>8 DEF Judged
  <2> QED
    BY <2>1, <1>2, <1>6, <1>8 DEF ReportOK
<1> QED
  BY <1>7, <1>8

(* Whatever row is read, if it is judged so, the invariant is kept.        *)
LEMMA JudgedKeeps ==
  ASSUME IInv, NEW k \in Kinds, NEW row \in Rows(k), Judged(k, row)
  PROVE  IInv'
<1>1. RowsInv /\ status = "parsing" /\ UNCHANGED <<status, at, total, refusals>>
  BY DEF IInv, Judged, Read, AtRow
<1>2. /\ DOMAIN rows' = Kinds /\ \A j \in Kinds : j # k => rows'[j] = rows[j]
      /\ rows'[k] = Append(rows[k], row) /\ rows[k] \in Seq(Rows(k))
      /\ at \in 1 .. 7 /\ Order[at] = k
  BY <1>1, ReadFacts DEF Judged
<1>3. rows'[k] \in Seq(Rows(k))
  BY <1>2, AppendFacts
<1>4. TypeOK'
  <2>1. \A j \in Kinds : rows'[j] \in Seq(Rows(j))
    BY <1>1, <1>2, <1>3 DEF RowsInv, TypeOK
  <2> QED
    BY <2>1, <1>1, <1>2, JudgedSeen, JudgedModel, JudgedReport DEF RowsInv, TypeOK
<1>5. InOrder'
  <2> SUFFICES ASSUME NEW i \in 1 .. 7, i > at PROVE rows'[Order[i]] = <<>>
    BY <1>1 DEF InOrder
  <2>1. Order[i] \in Kinds /\ Order[i] # k
    BY <1>2, KindsNamed
  <2>2. rows[Order[i]] = <<>>
    BY <1>1 DEF RowsInv, InOrder
  <2> QED
    BY <2>1, <2>2, <1>2
<1>6. RowsInv'
  BY <1>1, <1>4, <1>5, JudgedSeen, JudgedModel, JudgedReport DEF RowsInv
<1>7. SortedOK' /\ ImportedModelLoads'
  BY <1>1 DEF IInv, SortedOK, ImportedModelLoads, Ended
<1> QED
  BY <1>6, <1>7 DEF IInv
-----------------------------------------------------------------------------
(* Each loop of the importer judges its rows so.                           *)
LEMMA SeenDeclared ==
  ASSUME RowsInv
  PROVE  seen["assets"] = IdsOf(rows["assets"])
BY KindsNamed DEF RowsInv, SeenOK

(* The tags of the model are those whose row is carried.                   *)
LEMMA TagsCarried ==
  ASSUME RowsInv
  PROVE  \A tag : tag \in Range(model["tags"]) <=>
           tag \in Range(rows["tags"]) /\ TagCarriedIn(rows, tag)
<1>1. "tags" \in Arrays
  BY DEF Arrays
<1>2. Range(model["tags"]) = {row \in Range(rows["tags"]) : CarriedIn(rows, "tags", row)}
  BY <1>1 DEF RowsInv, ModelOK
<1>3. \A tag : CarriedIn(rows, "tags", tag) <=> TagCarriedIn(rows, tag)
  BY DEF CarriedIn
<1> QED
  BY <1>2, <1>3

LEMMA AssetJudged ==
  ASSUME RowsInv, NEW row \in Rows("assets"), ParseAsset(row)
  PROVE  Judged("assets", row)
<1>1. CarriedIn(rows, "assets", row) /\ "assets" \in Arrays
  BY DEF CarriedIn, Arrays
<1> QED
  BY <1>1 DEF ParseAsset, Claim, Emit, Judged

LEMMA RelationshipJudged ==
  ASSUME RowsInv, NEW row \in Rows("relationships"), ParseRelationship(row)
  PROVE  Judged("relationships", row)
<1>1. "relationships" \in Arrays /\ (EndpointsKnown(row) <=> CarriedIn(rows, "relationships", row))
  BY SeenDeclared DEF EndpointsKnown, CarriedIn, Arrays
<1>2. CASE EndpointsKnown(row)
  BY <1>1, <1>2 DEF ParseRelationship, Claim, Emit, Judged
<1>3. CASE ~EndpointsKnown(row)
  BY <1>1, <1>3 DEF ParseRelationship, Claim, AddUnresolved, Judged
<1> QED
  BY <1>2, <1>3

LEMMA TagJudged ==
  ASSUME RowsInv, NEW row \in Rows("tags"), ParseTag(row)
  PROVE  Judged("tags", row)
<1>1. row.type \in {"number", "text", "level", "other"}
  BY RowFields, KindsNamed
<1>2. "tags" \in Arrays /\ (TagSupported(row) <=> CarriedIn(rows, "tags", row))
  BY <1>1, SeenDeclared DEF TagSupported, SupportedTypes, CarriedIn, TagCarriedIn, Arrays
<1>3. CASE TagSupported(row)
  BY <1>2, <1>3 DEF ParseTag, Claim, Emit, Judged
<1>4. CASE ~TagSupported(row)
  BY <1>2, <1>4 DEF ParseTag, Claim, AddUnresolved, Judged
<1> QED
  BY <1>3, <1>4

LEMMA IoJudged ==
  ASSUME RowsInv, NEW row \in Rows("io"), ParseIo(row)
  PROVE  Judged("io", row)
<1>1. emitted = {tag.id : tag \in Range(model["tags"])}
  BY DEF RowsInv, EmittedOK
<1>2. "io" \notin Arrays /\ (IoTagKnown(row) <=> CarriedIn(rows, "io", row))
  BY <1>1, TagsCarried DEF IoTagKnown, CarriedIn, Arrays
<1>3. CASE IoTagKnown(row)
  BY <1>2, <1>3 DEF ParseIo, Judged
<1>4. CASE ~IoTagKnown(row)
  BY <1>2, <1>4 DEF ParseIo, AddUnresolved, Judged
<1> QED
  BY <1>3, <1>4

LEMMA AlarmJudged ==
  ASSUME RowsInv, NEW row \in Rows("alarms"), ParseAlarm(row)
  PROVE  Judged("alarms", row)
<1>1. AlarmReferencesKnown(row) <=>
        \E tag \in Range(rows["tags"]) :
          tag.id = row.tag_id /\ tag.asset_id = row.asset_id /\ TagCarriedIn(rows, tag)
  BY SeenDeclared, TagsCarried DEF AlarmReferencesKnown, TagCarriedIn
<1>2. /\ "alarms" \in Arrays
      /\ CarriedIn(rows, "alarms", row) <=> row.details = "ok" /\ AlarmReferencesKnown(row)
  BY <1>1 DEF CarriedIn, Arrays
<1>3. CASE CarriedIn(rows, "alarms", row)
  BY <1>2, <1>3 DEF ParseAlarm, Claim, Emit, Judged
<1>4. CASE ~CarriedIn(rows, "alarms", row)
  BY <1>2, <1>4 DEF ParseAlarm, Claim, AddUnresolved, Judged
<1> QED
  BY <1>3, <1>4

LEMMA MetadataJudged ==
  ASSUME RowsInv, NEW k \in Kinds, NEW row \in Rows(k), ParseMetadata(k, row)
  PROVE  Judged(k, row)
<1>1. CarriedIn(rows, k, row) /\ k \notin Arrays /\ k # "tags" /\ k # "io"
  BY DEF ParseMetadata, CarriedIn, Arrays
<1> QED
  BY <1>1 DEF ParseMetadata, Claim, Judged
-----------------------------------------------------------------------------
(* The other steps.                                                        *)
LEMMA InitInvariant == Init => IInv
<1> SUFFICES ASSUME Init PROVE IInv
  OBVIOUS
<1>1. Blank /\ ImportedModelLoads
  BY DEF Init, Blank, ImportedModelLoads
<1> QED
  BY <1>1, BlankInvariant DEF IInv

LEMMA FailKeeps ==
  IInv /\ Fail => IInv'
<1>1. Fail => Blank'
  BY DEF Fail, Blank
<1>2. Blank' => RowsInv' /\ SortedOK'
  BY BlankInvariant, PTL
<1>3. IInv /\ Fail => ImportedModelLoads'
  BY DEF Fail, IInv, ImportedModelLoads
<1> QED
  BY <1>1, <1>2, <1>3 DEF IInv

(* The end of an artifact: nothing of a later one has been read.           *)
LEMMA AdvanceKeeps ==
  ASSUME IInv, status = "parsing", at <= Len(Order), at' = at + 1,
         UNCHANGED <<status, rows, model, seen, emitted, unresolved, refusals>>
  PROVE  IInv'
<1>1. at \in 1 .. 7
  BY KindsNamed DEF IInv, RowsInv, TypeOK
<1>2. TypeOK'
  BY <1>1 DEF IInv, RowsInv, TypeOK
<1>3. InOrder'
  BY <1>1 DEF IInv, RowsInv, InOrder
<1>4. SeenOK' /\ ModelOK' /\ EmittedOK' /\ ReportOK'
  BY DEF IInv, RowsInv, SeenOK, ModelOK, EmittedOK, ReportOK
<1>5. SortedOK' /\ ImportedModelLoads'
  BY DEF IInv, SortedOK, ImportedModelLoads
<1> QED
  BY <1>2, <1>3, <1>4, <1>5 DEF IInv, RowsInv

LEMMA FinishKeeps ==
  ASSUME IInv, Finish
  PROVE  IInv'
<1>1. Arrays \subseteq Kinds /\ "tags" \in Arrays
  BY KindsNamed DEF Arrays
<1>2. ASSUME NEW k \in Arrays
      PROVE  /\ model'[k] \in Seq(Rows(k)) /\ Range(model'[k]) = Range(model[k])
             /\ Ascending(model'[k]) /\ Distinct(model'[k])
  <2>1. model'[k] = SortById(model[k])
    BY DEF Finish
  <2>2. model[k] \in Seq(Rows(k)) /\ Distinct(model[k])
    BY DEF IInv, RowsInv, TypeOK, ModelOK
  <2>3. \A r \in Rows(k) : r.id \in Nat
    BY <1>1, RowFields
  <2> QED
    BY <2>1, <2>2, <2>3, SortByIdSorts
<1>3. /\ UNCHANGED <<at, rows, seen, emitted, unresolved, refusals>>
      /\ status' = "imported" /\ DOMAIN model' = Arrays
  BY DEF Finish
<1>4. TypeOK'
  BY <1>2, <1>3 DEF IInv, RowsInv, TypeOK, Ended
<1>5. ModelOK'
  BY <1>2, <1>3 DEF IInv, RowsInv, ModelOK
<1>6. EmittedOK'
  BY <1>1, <1>2, <1>3 DEF IInv, RowsInv, EmittedOK
<1>7. InOrder' /\ SeenOK' /\ ReportOK' /\ ImportedModelLoads'
  BY <1>3 DEF IInv, RowsInv, InOrder, SeenOK, ReportOK, ImportedModelLoads
<1>8. SortedOK'
  BY <1>2 DEF SortedOK
<1> QED
  BY <1>4, <1>5, <1>6, <1>7, <1>8 DEF IInv, RowsInv

(* What index_model can object to in a model that the importer has made.   *)
LEMMA RefusalsOfImport ==
  ASSUME RowsInv
  PROVE  Refusals(model) \subseteq {"limit", "role", "alarm_type"}
<1>1. /\ "assets" \in Arrays /\ "relationships" \in Arrays /\ "tags" \in Arrays /\ "alarms" \in Arrays
      /\ Arrays \subseteq Kinds
  BY KindsNamed DEF Arrays
<1>2. \A k \in Arrays : \A row : row \in Range(model[k]) =>
        row \in Range(rows[k]) /\ CarriedIn(rows, k, row)
  BY DEF RowsInv, ModelOK
<1>3. Identities(model, "assets") = IdsOf(rows["assets"])
  <2>1. Range(model["assets"]) = Range(rows["assets"])
    <3>1. \A row : CarriedIn(rows, "assets", row)
      BY DEF CarriedIn
    <3> QED
      BY <3>1, <1>1 DEF RowsInv, ModelOK
  <2>2. Identities(model, "assets") = {r.id : r \in Range(model["assets"])}
    BY DEF Identities, Range
  <2>3. IdsOf(rows["assets"]) = {r.id : r \in Range(rows["assets"])}
    BY DEF IdsOf, Range
  <2> QED
    BY <2>1, <2>2, <2>3
<1>4. \A t \in Range(model["tags"]) :
        t.type \in SupportedTypes /\ t.asset_id \in Identities(model, "assets")
  <2> SUFFICES ASSUME NEW t \in Range(model["tags"])
               PROVE  t.type \in SupportedTypes /\ t.asset_id \in Identities(model, "assets")
    OBVIOUS
  <2>1. t \in Range(rows["tags"]) /\ TagCarriedIn(rows, t)
    BY TagsCarried
  <2>2. t \in Rows("tags")
    <3>1. rows["tags"] \in Seq(Rows("tags"))
      BY <1>1 DEF RowsInv, TypeOK
    <3> QED
      BY <2>1, <3>1, ElementOfSeq, LenProperties DEF Range
  <2>3. t.type \in {"number", "text", "level", "other"}
    BY <2>2, <1>1, RowFields
  <2> QED
    BY <2>1, <2>3, <1>3 DEF TagCarriedIn, SupportedTypes
<1>5. \A r \in Range(model["relationships"]) :
        r.from # r.to /\ {r.from, r.to} \subseteq Identities(model, "assets")
  BY <1>1, <1>2, <1>3 DEF CarriedIn
<1>6. \A a \in Range(model["alarms"]) :
        /\ a.details = "ok" /\ a.asset_id \in Identities(model, "assets")
        /\ \E t \in Range(model["tags"]) : t.id = a.tag_id /\ t.asset_id = a.asset_id
  <2> SUFFICES ASSUME NEW a \in Range(model["alarms"])
               PROVE  /\ a.details = "ok" /\ a.asset_id \in Identities(model, "assets")
                      /\ \E t \in Range(model["tags"]) : t.id = a.tag_id /\ t.asset_id = a.asset_id
    OBVIOUS
  <2>1. CarriedIn(rows, "alarms", a)
    BY <1>1, <1>2
  <2>2. a.details = "ok"
    BY <2>1 DEF CarriedIn
  <2>3. PICK t \in Range(rows["tags"]) :
          t.id = a.tag_id /\ t.asset_id = a.asset_id /\ TagCarriedIn(rows, t)
    BY <2>1 DEF CarriedIn
  <2>4. t \in Range(model["tags"])
    BY <2>3, TagsCarried
  <2> QED
    BY <2>2, <2>3, <2>4, <1>4
<1>7. \A k \in Arrays : ~(Cardinality(Identities(model, k)) < Len(model[k]))
  <2> SUFFICES ASSUME NEW k \in Arrays PROVE Cardinality(Identities(model, k)) = Len(model[k])
    <3>1. \A k \in Arrays : Len(model[k]) \in Nat
      BY LenProperties DEF RowsInv, TypeOK
    <3> QED
      BY <3>1
  <2> DEFINE s == model[k]  f == [i \in 1 .. Len(s) |-> s[i].id]
  <2>1. s \in Seq(Rows(k)) /\ Distinct(s)
    BY DEF RowsInv, TypeOK, ModelOK
  <2> HIDE DEF s
  <2>2. DOMAIN s = 1 .. Len(s) /\ Len(s) \in Nat
    BY <2>1, LenProperties
  <2>3. IdsOf(s) = {f[i] : i \in 1 .. Len(s)}
    BY <2>2 DEF IdsOf
  <2>4. \A i, j \in 1 .. Len(s) : f[i] = f[j] => i = j
    BY <2>1, <2>2 DEF Distinct
  <2>5. f \in Bijection(1 .. Len(s), IdsOf(s))
    <3>1. f \in [1 .. Len(s) -> IdsOf(s)]
      BY <2>3
    <3>2. \A v \in IdsOf(s) : \E i \in 1 .. Len(s) : f[i] = v
      BY <2>3
    <3> HIDE DEF f
    <3> QED
      BY <3>1, <3>2, <2>4 DEF Bijection, Injection, Surjection, IsInjective
  <2>6. Cardinality(1 .. Len(s)) = Len(s) /\ IsFiniteSet(1 .. Len(s))
    <3> DEFINE n == Len(s)
    <3>1. n \in Nat /\ n \in Int /\ 1 \in Int
      BY <2>2
    <3> HIDE DEF n
    <3>2. IsFiniteSet(1 .. n) /\ Cardinality(1 .. n) = IF 1 > n THEN 0 ELSE n - 1 + 1
      BY <3>1, FS_Interval
    <3>3. Cardinality(1 .. n) = n
      BY <3>1, <3>2
    <3> QED
      BY <3>2, <3>3 DEF n
  <2>7. Cardinality(IdsOf(s)) = Len(s)
    BY <2>5, <2>6, FS_Bijection DEF ExistsBijection
  <2> QED
    BY <2>7 DEF Identities, IdsOf, s
<1>8. ~("duplicate" \in Refusals(model))
  BY <1>7, Zenon DEF Refusals
<1>9. ~("relationship" \in Refusals(model))
  BY <1>5, Zenon DEF Refusals
<1>10. ~("tag" \in Refusals(model))
  BY <1>4, Zenon DEF Refusals
<1>11. ~("alarm" \in Refusals(model))
  BY <1>6, Zenon DEF Refusals
<1>12. Refusals(model) \subseteq
         {"limit", "duplicate", "relationship", "tag", "role", "alarm", "alarm_type"}
  BY Zenon DEF Refusals
<1> QED
  BY <1>8, <1>9, <1>10, <1>11, <1>12

LEMMA LoadModelKeeps ==
  ASSUME IInv, LoadModel
  PROVE  IInv'
<1>1. UNCHANGED <<at, rows, model, seen, emitted, unresolved, total>>
  BY DEF LoadModel
<1>2. RowsInv'
  <2>1. status' \in Ended
    BY DEF LoadModel, Ended
  <2>2. TypeOK'
    BY <1>1, <2>1 DEF IInv, RowsInv, TypeOK
  <2>3. InOrder' /\ SeenOK' /\ ModelOK' /\ EmittedOK' /\ ReportOK'
    BY <1>1 DEF IInv, RowsInv, InOrder, SeenOK, ModelOK, EmittedOK, ReportOK
  <2> QED
    BY <2>2, <2>3 DEF RowsInv
<1>3. SortedOK'
  BY <1>1 DEF IInv, SortedOK, LoadModel, Ended
<1>4. ImportedModelLoads'
  BY RefusalsOfImport DEF IInv, LoadModel, ImportedModelLoads
<1> QED
  BY <1>2, <1>3, <1>4 DEF IInv

LEMMA NextInvariant == IInv /\ [Next]_vars => IInv'
<1> SUFFICES ASSUME IInv, [Next]_vars PROVE IInv'
  OBVIOUS
<1>r. RowsInv /\ Kinds = {"assets", "relationships", "tags", "io", "alarms", "communications", "documents"}
  BY KindsNamed DEF IInv
<1>1. CASE ReadManifest
  BY <1>1 DEF ReadManifest, IInv, RowsInv, TypeOK, InOrder, SeenOK, ModelOK, EmittedOK, ReportOK,
     SortedOK, ImportedModelLoads, Ended
<1>2. CASE Fail
  BY <1>2, FailKeeps
<1>3. CASE SkipArtifact \/ RecordSource
  BY <1>3, AdvanceKeeps DEF SkipArtifact, RecordSource
<1>4. ASSUME NEW row \in Rows("assets"), ParseAsset(row) PROVE IInv'
  BY <1>4, <1>r, AssetJudged, JudgedKeeps
<1>5. ASSUME NEW row \in Rows("relationships"), ParseRelationship(row) PROVE IInv'
  BY <1>5, <1>r, RelationshipJudged, JudgedKeeps
<1>6. ASSUME NEW row \in Rows("tags"), ParseTag(row) PROVE IInv'
  BY <1>6, <1>r, TagJudged, JudgedKeeps
<1>7. ASSUME NEW row \in Rows("io"), ParseIo(row) PROVE IInv'
  BY <1>7, <1>r, IoJudged, JudgedKeeps
<1>8. ASSUME NEW row \in Rows("alarms"), ParseAlarm(row) PROVE IInv'
  BY <1>8, <1>r, AlarmJudged, JudgedKeeps
<1>9. ASSUME NEW k \in Kinds, NEW row \in Rows(k), ParseMetadata(k, row) PROVE IInv'
  BY <1>9, <1>r, MetadataJudged, JudgedKeeps
<1>10. CASE Finish
  BY <1>10, FinishKeeps
<1>11. CASE LoadModel
  BY <1>11, LoadModelKeeps
<1>12. CASE UNCHANGED vars
  BY <1>12 DEF vars, IInv, RowsInv, TypeOK, InOrder, SeenOK, ModelOK, EmittedOK, ReportOK,
     SortedOK, ImportedModelLoads
<1>13. CASE \/ ManifestInvalid \/ ArtifactInvalid \/ MissingArtifact \/ CsvInvalid \/ JsonInvalid
            \/ TooManyRecords \/ TotalExceeded
            \/ \E k \in Kinds : \E row \in Rows(k) : IdentityInvalid(k, row)
            \/ \E row \in Rows("alarms") : AlarmInvalid(row)
  <2>1. Fail
    BY <1>13 DEF ManifestInvalid, ArtifactInvalid, MissingArtifact, CsvInvalid, JsonInvalid,
       TooManyRecords, TotalExceeded, IdentityInvalid, AlarmInvalid
  <2> QED
    BY <2>1, <1>2
<1> QED
  BY <1>1, <1>3, <1>4, <1>5, <1>6, <1>7, <1>8, <1>9, <1>10, <1>11, <1>12, <1>13 DEF Next
-----------------------------------------------------------------------------
(* A finished import is exact by what the invariant says of its rows.      *)
LEMMA InvariantExact == IInv => ImportIsExact
<1> SUFFICES ASSUME IInv, status \in {"imported", "loaded", "refused"}
             PROVE  /\ \A k \in Arrays :
                         /\ Range(model[k]) = {row \in Range(rows[k]) : Carried(k, row)}
                         /\ \A i, j \in DOMAIN model[k] : i < j => model[k][i].id < model[k][j].id
                    /\ Range(unresolved) = UNION {Unfit(k) : k \in Kinds}
                    /\ IsInjective(unresolved)
                    /\ (ReportStatus = "ok") = (\A k \in Kinds : Unfit(k) = {})
  BY Zenon DEF ImportIsExact
<1>1. Arrays \subseteq Kinds
  BY KindsNamed DEF Arrays
<1>2. ASSUME NEW k \in Arrays
      PROVE  /\ Range(model[k]) = {row \in Range(rows[k]) : Carried(k, row)}
             /\ \A i, j \in DOMAIN model[k] : i < j => model[k][i].id < model[k][j].id
  <2>1. \A row : Carried(k, row) <=> CarriedIn(rows, k, row)
    BY <1>1, CarriedIs
  <2>2. Range(model[k]) = {row \in Range(rows[k]) : CarriedIn(rows, k, row)}
    BY DEF IInv, RowsInv, ModelOK
  <2>3. Ascending(model[k])
    BY DEF IInv, SortedOK, Ended
  <2> QED
    BY <2>1, <2>2, <2>3 DEF Ascending
<1>3. \A k \in Kinds : Unfit(k) = UnfitIn(rows, k)
  <2> SUFFICES ASSUME NEW k \in Kinds PROVE Unfit(k) = UnfitIn(rows, k)
    OBVIOUS
  <2>1. \A row : Carried(k, row) <=> CarriedIn(rows, k, row)
    BY CarriedIs
  <2> QED
    BY <2>1 DEF Unfit, UnfitIn
<1>4. /\ \A e : e \in Range(unresolved) <=> \E k \in Kinds : e \in Unfit(k)
      /\ IsInjective(unresolved)
  BY <1>3 DEF IInv, RowsInv, ReportOK
<1>5. Range(unresolved) = UNION {Unfit(k) : k \in Kinds}
  BY <1>4
<1>6. unresolved = <<>> <=> \A k \in Kinds : Unfit(k) = {}
  <2>1. unresolved \in Seq(Kinds \X Nat)
    BY DEF IInv, RowsInv, TypeOK
  <2>2. unresolved = <<>> <=> Range(unresolved) = {}
    <3>1. DOMAIN unresolved = 1 .. Len(unresolved) /\ Len(unresolved) \in Nat
      BY <2>1, LenProperties
    <3>2. ASSUME unresolved # <<>> PROVE unresolved[1] \in Range(unresolved)
      <4>1. 1 \in DOMAIN unresolved
        BY <2>1, <3>1, <3>2, EmptySeq
      <4> QED
        BY <4>1 DEF Range
    <3>3. unresolved = <<>> => Range(unresolved) = {}
      BY DEF Range
    <3> QED
      BY <3>2, <3>3
  <2> QED
    BY <2>2, <1>4
<1>7. (ReportStatus = "ok") = (\A k \in Kinds : Unfit(k) = {})
  BY <1>6 DEF ReportStatus
<1> QED
  BY <1>2, <1>4, <1>5, <1>7

(* Importing any bundle: a finished import has put every row whose         *)
(* references the bundle declares into the model, in order, has reported   *)
(* every other row once, and calls itself "ok" exactly if there are none.  *)
THEOREM ImportExact == Spec => []ImportIsExact
<1>1. Spec => []IInv
  BY InitInvariant, NextInvariant, PTL DEF Spec
<1> QED
  BY <1>1, InvariantExact, PTL

(* Whatever the bundle, index_model refuses the model only for its size or *)
(* for a type that the importer does not look at.                          *)
THEOREM ImportLoads == Spec => []ImportedModelLoads
<1>1. Spec => []IInv
  BY InitInvariant, NextInvariant, PTL DEF Spec
<1>2. IInv => ImportedModelLoads
  BY DEF IInv
<1> QED
  BY <1>1, <1>2, PTL
=============================================================================
