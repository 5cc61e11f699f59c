---------------------------- MODULE SdQueryProofs ----------------------------
(***************************************************************************)
(* Proofs about SdQuery, for every set of containers and of requests.      *)
(***************************************************************************)
EXTENDS SdQuery, FiniteSetTheorems, SequenceTheorems, TLAPS

-----------------------------------------------------------------------------
(* Induction without an induction theorem: a set of finite sets has a      *)
(* smallest one, and a set of numbers a least one.                         *)

LEMMA SmallestSubset ==
  ASSUME NEW D, IsFiniteSet(D), NEW T \in SUBSET SUBSET D, T # {}
  PROVE  \E m \in T : \A s \in T : s \subseteq m => s = m
<1>1. IsWellFoundedOn(StrictSubsetOrdering(D), FiniteSubsetsOf(D))
  BY FS_StrictSubsetOrderingWellFounded
<1>2. T \subseteq FiniteSubsetsOf(D)
  BY FS_FiniteSubsetsOfFinite
<1>3. \E m \in T : \A s \in T : ~(<<s, m>> \in StrictSubsetOrdering(D))
  BY <1>1, <1>2, WFMin
<1> QED BY <1>3 DEF StrictSubsetOrdering

LEMMA LeastNumber ==
  ASSUME NEW T \in SUBSET Nat, T # {}
  PROVE  \E m \in T : \A n \in T : m <= n
<1>1. PICK k \in T : TRUE
  OBVIOUS
<1> DEFINE S == {1..m : m \in {i \in T : i <= k}}
<1>2. IsFiniteSet(1..k)
  BY FS_Interval
<1>3. S \in SUBSET SUBSET (1..k) /\ S # {}
  OBVIOUS
<1>4. PICK s \in S : \A r \in S : r \subseteq s => r = s
  <2> DEFINE D == 1..k
  <2>1. IsFiniteSet(D) /\ S \in SUBSET SUBSET D /\ S # {}
    BY <1>2, <1>3
  <2> HIDE DEF S, D
  <2>2. \E m \in S : \A r \in S : r \subseteq m => r = m
    BY <2>1, SmallestSubset
  <2> QED BY <2>2
<1>5. PICK m \in T : m <= k /\ s = 1..m
  OBVIOUS
<1>6. ASSUME NEW n \in T, n < m PROVE FALSE
  <2>1. 1..n \in S
    BY <1>5, <1>6
  <2>2. 1..n \subseteq 1..m
    BY <1>6
  <2>3. m \in 1..m /\ m \notin 1..n
    BY <1>6
  <2> QED BY <1>4, <1>5, <2>1, <2>2, <2>3
<1>7. \A n \in T : m <= n
  BY <1>6
<1> QED BY <1>7

(* The last index of a set of indices. *)
LEMMA LastIndex ==
  ASSUME NEW n \in Nat, NEW s \in SUBSET (1..n), s # {}
  PROVE  Max(s) \in s
<1> DEFINE T == {n - i : i \in s}
<1>1. T \in SUBSET Nat /\ T # {}
  <2>1. \A i \in s : n - i \in Nat
    OBVIOUS
  <2>2. T \subseteq Nat
    BY <2>1
  <2>3. \E i \in s : n - i \in T
    OBVIOUS
  <2> QED BY <2>2, <2>3
<1>2. PICK m \in T : \A k \in T : m <= k
  <2> HIDE DEF T
  <2> QED BY <1>1, LeastNumber
<1>3. PICK x \in s : m = n - x
  OBVIOUS
<1>4. ASSUME NEW y \in s PROVE x >= y
  <2>1. n - y \in T
    OBVIOUS
  <2>2. n - x <= n - y
    BY <1>2, <1>3, <2>1
  <2>3. n \in Int /\ x \in Int /\ y \in Int
    OBVIOUS
  <2> HIDE DEF T
  <2> QED BY <2>2, <2>3
<1>5. \E z \in s : \A y \in s : z >= y
  BY <1>3, <1>4
<1> QED BY <1>5 DEF Max

-----------------------------------------------------------------------------
(* What the grouping of the tag filters computes, for every query: each    *)
(* name with all of its values, wherever they stand.                       *)

Grouped(tags, s) ==
  [n \in {tags[i][1] : i \in s} |-> {tags[i][2] : i \in {j \in s : tags[j][1] = n}}]

WithTag(groups, t) ==
  [n \in DOMAIN groups \cup {t[1]} |->
     (IF n \in DOMAIN groups THEN groups[n] ELSE {}) \cup (IF n = t[1] THEN {t[2]} ELSE {})]

LEMMA GroupedStep ==
  ASSUME NEW tags, NEW s, NEW x \in s
  PROVE  Grouped(tags, s) = WithTag(Grouped(tags, s \ {x}), tags[x])
<1> DEFINE r == s \ {x}
           G == Grouped(tags, r)
           H == Grouped(tags, s)
           names(u) == {tags[i][1] : i \in u}
           values(u, n) == {tags[i][2] : i \in {j \in u : tags[j][1] = n}}
<1>1. DOMAIN G = names(r) /\ \A n \in names(r) : G[n] = values(r, n)
  BY DEF Grouped
<1>2. H = [n \in names(s) |-> values(s, n)]
  BY DEF Grouped
<1>3. names(s) = names(r) \cup {tags[x][1]}
  OBVIOUS
<1>4. ASSUME NEW n
      PROVE  values(s, n) = (IF n \in names(r) THEN values(r, n) ELSE {})
                              \cup (IF n = tags[x][1] THEN {tags[x][2]} ELSE {})
  <2>1. n \notin names(r) => values(r, n) = {}
    OBVIOUS
  <2>2. CASE n = tags[x][1]
    <3>1. values(s, n) = values(r, n) \cup {tags[x][2]}
      BY <2>2
    <3> QED BY <2>1, <2>2, <3>1
  <2>3. CASE n # tags[x][1]
    <3>1. {j \in s : tags[j][1] = n} = {j \in r : tags[j][1] = n}
      BY <2>3
    <3> QED BY <2>1, <2>3, <3>1
  <2> QED BY <2>2, <2>3
<1> HIDE DEF names, values, G, H
<1>5. H = [n \in DOMAIN G \cup {tags[x][1]} |->
             (IF n \in DOMAIN G THEN G[n] ELSE {})
               \cup (IF n = tags[x][1] THEN {tags[x][2]} ELSE {})]
  BY <1>1, <1>2, <1>3, <1>4
<1> QED BY <1>5 DEF WithTag, H, G

LEMMA TagGroupsMeaning ==
  ASSUME NEW S, NEW tags \in Seq(S)
  PROVE  TagGroups(tags) = Grouped(tags, DOMAIN tags)
<1> DEFINE D == DOMAIN tags
           Def(g) == [s \in SUBSET D |->
                        IF s = {} THEN << >> ELSE WithTag(g[s \ {Max(s)}], tags[Max(s)])]
           closed == [s \in SUBSET D |-> Grouped(tags, s)]
           f == CHOOSE g : g = Def(g)
<1>1. PICK n \in Nat : D = 1..n
  BY DEF D
<1>2. \A s \in SUBSET D : s # {} => Max(s) \in s
  BY <1>1, LastIndex
<1>3. TagGroups(tags) = f[D]
  BY Zenon DEF TagGroups, FoldLeft, MapThenFoldSet, WithTag
<1>4. closed = Def(closed)
  <2>1. ASSUME NEW s \in SUBSET D, s # {}
        PROVE  closed[s] = WithTag(closed[s \ {Max(s)}], tags[Max(s)])
    <3>1. Max(s) \in s
      BY <1>2, <2>1
    <3>2. Grouped(tags, s) = WithTag(Grouped(tags, s \ {Max(s)}), tags[Max(s)])
      BY <3>1, GroupedStep
    <3> QED BY <3>2
  <2>2. closed[{}] = << >>
    BY DEF Grouped
  <2>3. \A s \in SUBSET D : closed[s] = Def(closed)[s]
    BY <2>1, <2>2
  <2> QED BY <2>3
<1>5. f = Def(f)
  <2> HIDE DEF Def, closed
  <2> QED BY <1>4
<1>6. ASSUME NEW s \in SUBSET D, f[s] # closed[s] PROVE FALSE
  <2> DEFINE T == {u \in SUBSET D : f[u] # closed[u]}
  <2>1. IsFiniteSet(D)
    BY <1>1, FS_Interval
  <2>2. T \in SUBSET SUBSET D /\ T # {}
    BY <1>6
  <2>3. PICK m \in T : \A u \in T : u \subseteq m => u = m
    <3>1. \E m \in T : \A u \in T : u \subseteq m => u = m
      <4> HIDE DEF T, D
      <4> QED BY <2>1, <2>2, SmallestSubset
    <3> QED BY <3>1
  <2>4. m # {}
    <3>1. f[{}] = Def(f)[{}] /\ closed[{}] = Def(closed)[{}]
      <4> HIDE DEF Def, closed, f
      <4> QED BY <1>4, <1>5
    <3>2. Def(f)[{}] = << >> /\ Def(closed)[{}] = << >>
      OBVIOUS
    <3> HIDE DEF Def, closed, f
    <3> QED BY <2>3, <3>1, <3>2
  <2> DEFINE r == m \ {Max(m)}
  <2>5. r \in SUBSET D /\ r \subseteq m /\ r # m
    BY <1>2, <2>4
  <2>6. f[r] = closed[r]
    <3> HIDE DEF f, closed, r
    <3> QED BY <2>3, <2>5
  <2>7. /\ Def(f)[m] = WithTag(f[r], tags[Max(m)])
        /\ Def(closed)[m] = WithTag(closed[r], tags[Max(m)])
    <3> HIDE DEF f, closed
    <3> QED BY <2>4
  <2>8. f[m] = closed[m]
    <3> HIDE DEF f, closed, Def, r
    <3>1. f[m] = Def(f)[m] /\ closed[m] = Def(closed)[m]
      BY <1>4, <1>5
    <3> QED BY <2>6, <2>7, <3>1
  <2> QED
    <3> HIDE DEF f, closed
    <3> QED BY <2>3, <2>8
<1>7. f[D] = closed[D]
  <2> HIDE DEF f, closed
  <2> QED BY <1>6
<1>8. closed[D] = Grouped(tags, D)
  OBVIOUS
<1> HIDE DEF f, closed
<1> QED BY <1>3, <1>7, <1>8

-----------------------------------------------------------------------------
(* The labels of a discovered container *)

FixedLabels ==
  ContainerLabels \cup TaskLabels \cup ServiceLabels \cup ClusterLabels
    \cup {<<"region">>, <<"availability", "zone">>, <<"container", "instance", "arn">>,
          <<"host", "port">>}

LEMMA LabelsOf ==
  ASSUME NEW c
  PROVE  /\ ContainerLabels \cup TaskLabels \cup ServiceLabels \cup ClusterLabels
              \subseteq DOMAIN AllLabels(c)
         /\ {TagLabel(TagName(t)) : t \in c.tags} \subseteq DOMAIN AllLabels(c)
         /\ DOMAIN AllLabels(c) \subseteq
              FixedLabels \cup {TagLabel(TagName(t)) : t \in c.tags}
         /\ \A k \in DOMAIN AllLabels(c) : AllLabels(c)[k] = ValueOf(c, k)
BY Zenon DEF AllLabels, FixedLabels, AwsLabels

(* The labels of tags are apart from the others and from each other. *)
LEMMA TagLabels ==
  ASSUME NEW U, NEW a \in Seq(U)
  PROVE  /\ TagLabel(a)[1] = "tag" /\ Len(TagLabel(a)) = 1 + Len(a)
         /\ \A b \in Seq(U) : TagLabel(a) = TagLabel(b) => a = b
<1> DEFINE T == U \cup {"tag"}
           h == <<"tag">>
<1>1. a \in Seq(T) /\ h \in Seq(T) /\ Len(h) = 1 /\ h[1] = "tag"
  OBVIOUS
<1>2. ASSUME NEW x \in Seq(T)
      PROVE  /\ (h \o x)[1] = h[1] /\ Len(h \o x) = 1 + Len(x)
             /\ \A i \in 1..Len(x) : (h \o x)[i + 1] = x[i]
  <2>1. Len(x) \in Nat
    BY <1>2
  <2> HIDE DEF h, T
  <2>2. /\ Len(h \o x) = 1 + Len(x)
        /\ \A i \in 1..1 + Len(x) : (h \o x)[i] = IF i <= 1 THEN h[i] ELSE x[i - 1]
    <3>1. /\ Len(h \o x) = Len(h) + Len(x)
          /\ \A i \in 1..Len(h) + Len(x) :
               (h \o x)[i] = IF i <= Len(h) THEN h[i] ELSE x[i - Len(h)]
      BY <1>1, <1>2, ConcatProperties, Zenon
    <3> QED BY <1>1, <3>1
  <2>3. \A i \in 1..Len(x) : i + 1 \in 1..1 + Len(x) /\ ~(i + 1 <= 1) /\ (i + 1) - 1 = i
    BY <2>1
  <2> QED BY <2>1, <2>2, <2>3
<1>3. ASSUME NEW b \in Seq(U), h \o a = h \o b PROVE a = b
  <2>1. b \in Seq(T)
    OBVIOUS
  <2>2. Len(a) = Len(b)
    <3>1. Len(a) \in Nat /\ Len(b) \in Nat
      OBVIOUS
    <3> HIDE DEF h, T
    <3> QED BY <1>1, <1>2, <1>3, <2>1, <3>1
  <2>3. \A i \in 1..Len(a) : a[i] = b[i]
    <3> HIDE DEF h, T
    <3> QED BY <1>1, <1>2, <1>3, <2>1, <2>2
  <2> QED BY <2>2, <2>3
<1> QED BY <1>1, <1>2, <1>3 DEF TagLabel

LEMMA FixedAreNoTags == \A k \in FixedLabels : k[1] # "tag"
BY DEF FixedLabels, ContainerLabels, TaskLabels, ServiceLabels, ClusterLabels

(* A discovered container carries the canonical labels and none of the     *)
(* legacy ones that a filter would fall back to.                           *)
LEMMA CanonicalLabels ==
  ASSUME NEW c
  PROVE  /\ <<"cluster">> \notin DOMAIN AllLabels(c)
         /\ <<"service">> \notin DOMAIN AllLabels(c)
<1>1. ASSUME NEW t \in c.tags PROVE Len(TagLabel(TagName(t))) = 3
  <2> DEFINE U == {t[1], Sanitize[t[2]]}
  <2>1. TagName(t) \in Seq(U) /\ Len(TagName(t)) = 2
    BY DEF TagName
  <2> HIDE DEF U
  <2>2. Len(TagLabel(TagName(t))) = 1 + Len(TagName(t))
    BY <2>1, TagLabels
  <2> QED BY <2>1, <2>2
<1>2. /\ <<"cluster">> \notin FixedLabels
      /\ <<"service">> \notin FixedLabels
  BY DEF FixedLabels, ContainerLabels, TaskLabels, ServiceLabels, ClusterLabels
<1>3. Len(<<"cluster">>) = 1 /\ Len(<<"service">>) = 1
  OBVIOUS
<1>4. /\ <<"cluster">> \notin {TagLabel(TagName(t)) : t \in c.tags}
      /\ <<"service">> \notin {TagLabel(TagName(t)) : t \in c.tags}
  BY <1>1, <1>3
<1> QED BY <1>2, <1>4, LabelsOf

(* The label of a tag name is there when a tag has the name, and holds     *)
(* the tag's value.                                                        *)
LEMMA TagValues ==
  ASSUME NEW c \in Containers, NEW n \in Seq(STRING)
  PROVE  /\ TagLabel(n) \in DOMAIN AllLabels(c) <=> \E t \in c.tags : TagName(t) = n
         /\ \A t \in c.tags : TagName(t) = n => AllLabels(c)[TagLabel(n)] = t[3]
<1>1. ASSUME NEW t \in c.tags, TagLabel(TagName(t)) = TagLabel(n)
      PROVE  TagName(t) = n
  <2> DEFINE U == STRING \cup {t[1], Sanitize[t[2]]}
  <2>1. TagName(t) \in Seq(U) /\ n \in Seq(U)
    BY DEF TagName
  <2> QED BY <1>1, <2>1, TagLabels
<1>2. TagLabel(n)[1] = "tag" /\ TagLabel(n) \notin FixedLabels
  BY TagLabels, FixedAreNoTags
<1>3. TagLabel(n) \in DOMAIN AllLabels(c) <=> \E t \in c.tags : TagName(t) = n
  <2>1. TagLabel(n) \in {TagLabel(TagName(t)) : t \in c.tags}
          <=> \E t \in c.tags : TagName(t) = n
    BY <1>1
  <2> QED BY <1>2, <2>1, LabelsOf
<1>4. ASSUME NEW t \in c.tags, TagName(t) = n
      PROVE  AllLabels(c)[TagLabel(n)] = t[3]
  <2> DEFINE k == TagLabel(n)
             x == CHOOSE u \in c.tags : TagLabel(TagName(u)) = k
  <2>1. x \in c.tags /\ TagLabel(TagName(x)) = k
    BY <1>4
  <2>2. TagName(x) = n
    BY <1>1, <2>1
  <2>3. \A u, v \in c.tags : u[1] = v[1] /\ Sanitize[u[2]] = Sanitize[v[2]] => u = v
    BY ConstantsAssumption
  <2>4. x = t
    <3>1. TagName(x)[1] = x[1] /\ TagName(x)[2] = Sanitize[x[2]]
      BY DEF TagName
    <3>2. TagName(t)[1] = t[1] /\ TagName(t)[2] = Sanitize[t[2]]
      BY DEF TagName
    <3> HIDE DEF x
    <3> QED BY <1>4, <2>1, <2>2, <2>3, <3>1, <3>2
  <2>5. ValueOf(c, k) = x[3]
    <3>1. k[1] = "tag"
      BY <1>2
    <3>2. /\ k # <<"cluster", "name">> /\ k # <<"service", "name">>
          /\ k # <<"task", "family">> /\ k # <<"task", "arn">>
          /\ k # <<"task", "definition">> /\ k # <<"container", "name">>
      BY <3>1
    <3> HIDE DEF k
    <3> QED BY <3>1, <3>2, Zenon DEF ValueOf
  <2>6. AllLabels(c)[k] = ValueOf(c, k)
    BY <1>3, <1>4, LabelsOf
  <2> QED BY <2>4, <2>5, <2>6
<1> QED BY <1>3, <1>4

(* What identifies a container is what its route is made of. *)
LEMMA RouteOf ==
  ASSUME NEW c
  PROVE  RouteId(Target(c)) = <<c.arn, c.name, c.family>>
<1>1. /\ <<"task", "arn">> \in DOMAIN AllLabels(c)
      /\ <<"container", "name">> \in DOMAIN AllLabels(c)
      /\ <<"task", "definition">> \in DOMAIN AllLabels(c)
  BY LabelsOf DEF TaskLabels, ContainerLabels
<1>2. /\ ValueOf(c, <<"task", "arn">>) = c.arn
      /\ ValueOf(c, <<"container", "name">>) = c.name
      /\ ValueOf(c, <<"task", "definition">>) = c.family
  BY DEF ValueOf
<1> QED BY <1>1, <1>2, LabelsOf DEF RouteId, Target

-----------------------------------------------------------------------------
(* The filter decides as the containers are asked for. *)

(* What a target shows of a container: its labels of the level, but for    *)
(* the two that a proxy puts in.                                           *)
Shows(t, c, l) ==
  /\ DOMAIN t.labels = {k \in DOMAIN AllLabels(c) : LevelOf(k) \in Included[l]}
  /\ \A k \in DOMAIN t.labels :
       k \notin {<<"__scheme__">>, <<"__metrics_path__">>} =>
         t.labels[k] = AllLabels(c)[k]

(* The two tables of the code show a field where TellingLevels has it. *)
LEMMA LevelsTell ==
  ASSUME NEW l \in Levels
  PROVE  /\ LevelOf(<<"cluster", "name">>) \in Included[l] <=> l \in TellingLevels.cluster
         /\ LevelOf(<<"service", "name">>) \in Included[l] <=> l \in TellingLevels.service
         /\ LevelOf(<<"task", "family">>) \in Included[l] <=> l \in TellingLevels.family
         /\ \A k : k[1] = "tag" =>
              (LevelOf(k) \in Included[l] <=> l \in TellingLevels.tag)
<1>1. /\ LevelOf(<<"cluster", "name">>) = "cluster"
      /\ LevelOf(<<"service", "name">>) = "service"
      /\ LevelOf(<<"task", "family">>) = "task"
  BY DEF LevelOf
<1>2. ASSUME NEW k, k[1] = "tag" PROVE LevelOf(k) = "aws"
  <2>1. k # <<"metrics", "port">>
    BY <1>2
  <2> QED BY <1>2, <2>1 DEF LevelOf
<1>3. /\ "cluster" \in Included[l] <=> l \in TellingLevels.cluster
      /\ "service" \in Included[l] <=> l \in TellingLevels.service
      /\ "task" \in Included[l] <=> l \in TellingLevels.family
      /\ "aws" \in Included[l] <=> l \in TellingLevels.tag
  BY DEF Levels, Included, TellingLevels
<1> QED BY <1>1, <1>2, <1>3

LEMMA FieldChecks ==
  ASSUME NEW c, NEW t, NEW q \in Queries, Shows(t, c, LevelFor(q))
  PROVE  /\ HasEither(t, <<"cluster", "name">>, <<"cluster">>, q.clusters)
              <=> Meets(c, q, "cluster")
         /\ HasEither(t, <<"service", "name">>, <<"service">>, q.services)
              <=> Meets(c, q, "service")
         /\ Has(t, <<"task", "family">>, q.families) <=> Meets(c, q, "family")
<1> DEFINE l == LevelFor(q)
<1>1. l \in Levels
  BY ConstantsAssumption DEF LevelFor
<1>2. ASSUME NEW k, NEW legacy, legacy \notin DOMAIN AllLabels(c), NEW values
      PROVE  HasEither(t, k, legacy, values) <=> Has(t, k, values)
  BY <1>2 DEF HasEither, Has, Shows
<1>3. ASSUME NEW k \in {<<"cluster", "name">>, <<"service", "name">>, <<"task", "family">>},
             NEW values
      PROVE  Has(t, k, values) <=> LevelOf(k) \in Included[l] /\ ValueOf(c, k) \in values
  <2>1. k \in DOMAIN AllLabels(c) /\ AllLabels(c)[k] = ValueOf(c, k)
    BY LabelsOf DEF ClusterLabels, ServiceLabels, TaskLabels
  <2>2. k \notin {<<"__scheme__">>, <<"__metrics_path__">>}
    OBVIOUS
  <2>3. k \in DOMAIN t.labels <=> LevelOf(k) \in Included[l]
    BY <2>1 DEF Shows
  <2>4. k \in DOMAIN t.labels => t.labels[k] = ValueOf(c, k)
    BY <2>1, <2>2 DEF Shows
  <2> HIDE DEF l
  <2> QED BY <2>3, <2>4 DEF Has
<1>4. /\ ValueOf(c, <<"cluster", "name">>) = c.cluster
      /\ ValueOf(c, <<"service", "name">>) = c.service
      /\ ValueOf(c, <<"task", "family">>) = c.family
  BY DEF ValueOf
<1>5. /\ Meets(c, q, "cluster") <=> l \in TellingLevels.cluster /\ c.cluster \in q.clusters
      /\ Meets(c, q, "service") <=> l \in TellingLevels.service /\ c.service \in q.services
      /\ Meets(c, q, "family") <=> l \in TellingLevels.family /\ c.family \in q.families
  BY DEF Meets, Values
<1> HIDE DEF l
<1> QED BY <1>1, <1>2, <1>3, <1>4, <1>5, LevelsTell, CanonicalLabels

LEMMA TagChecks ==
  ASSUME NEW c \in Containers, NEW t, NEW q \in Queries, Shows(t, c, LevelFor(q))
  PROVE  /\ DOMAIN TagGroups(q.tags) = TagNames(q)
         /\ \A n \in TagNames(q) :
              Has(t, TagLabel(n), TagGroups(q.tags)[n]) <=> MeetsTag(c, q, n)
<1>1. q.tags \in Seq(Seq(STRING) \X STRING) /\ LevelFor(q) \in Levels
  BY ConstantsAssumption DEF LevelFor
<1>2. \A i \in DOMAIN q.tags : q.tags[i] = <<q.tags[i][1], q.tags[i][2]>>
  BY <1>1
<1>3. TagGroups(q.tags) = Grouped(q.tags, DOMAIN q.tags)
  BY <1>1, TagGroupsMeaning
<1>4. DOMAIN TagGroups(q.tags) = TagNames(q)
  BY <1>3 DEF Grouped, TagNames
<1>5. ASSUME NEW n \in TagNames(q)
      PROVE  Has(t, TagLabel(n), TagGroups(q.tags)[n]) <=> MeetsTag(c, q, n)
  <2> DEFINE k == TagLabel(n)
             values == TagGroups(q.tags)[n]
             l == LevelFor(q)
  <2>1. n \in Seq(STRING)
    <3>1. PICK i \in DOMAIN q.tags : n = q.tags[i][1]
      BY DEF TagNames
    <3>2. q.tags[i] \in Seq(STRING) \X STRING
      BY <1>1, <3>1
    <3> QED BY <3>1, <3>2
  <2>2. \A v : v \in values <=> AskedTag(q, n, v)
    <3>1. values = {q.tags[i][2] : i \in {j \in DOMAIN q.tags : q.tags[j][1] = n}}
      BY <1>3 DEF Grouped, TagNames
    <3> QED BY <1>2, <3>1 DEF AskedTag
  <2>3. /\ k \in DOMAIN AllLabels(c) <=> \E u \in c.tags : TagName(u) = n
        /\ \A u \in c.tags : TagName(u) = n => AllLabels(c)[k] = u[3]
    BY <2>1, TagValues
  <2>4. k[1] = "tag" /\ k \notin {<<"__scheme__">>, <<"__metrics_path__">>}
    BY <2>1, TagLabels
  <2>5. LevelOf(k) \in Included[l] <=> l \in TellingLevels.tag
    <3> HIDE DEF k
    <3> QED BY <1>1, <2>4, LevelsTell
  <2>6. /\ k \in DOMAIN t.labels <=>
              l \in TellingLevels.tag /\ \E u \in c.tags : TagName(u) = n
        /\ k \in DOMAIN t.labels => t.labels[k] = AllLabels(c)[k]
    <3> HIDE DEF k
    <3> QED BY <2>3, <2>4, <2>5 DEF Shows
  <2>7. MeetsTag(c, q, n) <=>
          /\ l \in TellingLevels.tag
          /\ \E u \in c.tags : TagName(u) = n /\ u[3] \in values
    BY <2>2, Zenon DEF MeetsTag, TagName
  <2>8. Has(t, k, values) <=> k \in DOMAIN t.labels /\ t.labels[k] \in values
    BY Zenon DEF Has
  <2> HIDE DEF k, values, l
  <2>9. Has(t, k, values) <=> MeetsTag(c, q, n)
    BY <2>3, <2>6, <2>7, <2>8
  <2> QED BY <2>9 DEF k, values
<1> QED BY <1>4, <1>5

LEMMA ChecksMeaning ==
  ASSUME NEW c \in Containers, NEW t, NEW q \in Queries, Shows(t, c, LevelFor(q))
  PROVE  Checks(t, q) = {Meets(c, q, f) : f \in Present(q)}
                          \cup {MeetsTag(c, q, n) : n \in TagNames(q)}
<1>1. /\ "cluster" \in Present(q) <=> q.clusters # {}
      /\ "service" \in Present(q) <=> q.services # {}
      /\ "family" \in Present(q) <=> q.families # {}
      /\ Present(q) \subseteq {"cluster", "service", "family"}
  BY DEF Present, Values
<1> DEFINE k == HasEither(t, <<"cluster", "name">>, <<"cluster">>, q.clusters)
           s == HasEither(t, <<"service", "name">>, <<"service">>, q.services)
           f == Has(t, <<"task", "family">>, q.families)
           groups == TagGroups(q.tags)
           tag(n) == Has(t, TagLabel(n), groups[n])
<1>2. Checks(t, q) = (IF q.clusters = {} THEN {} ELSE {k})
                       \cup (IF q.services = {} THEN {} ELSE {s})
                       \cup (IF q.families = {} THEN {} ELSE {f})
                       \cup {tag(n) : n \in DOMAIN groups}
  BY Zenon DEF Checks
<1>3. k = Meets(c, q, "cluster") /\ s = Meets(c, q, "service") /\ f = Meets(c, q, "family")
  BY FieldChecks, Zenon DEF HasEither, Has, Meets
<1>4. DOMAIN groups = TagNames(q) /\ \A n \in TagNames(q) : tag(n) = MeetsTag(c, q, n)
  BY TagChecks, Zenon DEF Has, MeetsTag
<1>5. {tag(n) : n \in DOMAIN groups} = {MeetsTag(c, q, n) : n \in TagNames(q)}
  BY <1>4, Zenon
<1>6. {Meets(c, q, g) : g \in Present(q)} =
        (IF q.clusters = {} THEN {} ELSE {Meets(c, q, "cluster")})
          \cup (IF q.services = {} THEN {} ELSE {Meets(c, q, "service")})
          \cup (IF q.families = {} THEN {} ELSE {Meets(c, q, "family")})
  BY <1>1, Zenon
<1> HIDE DEF k, s, f, groups, tag
<1> QED BY <1>2, <1>3, <1>5, <1>6, Zenon

LEMMA PassesWhatIsWanted ==
  ASSUME NEW c \in Containers, NEW t, NEW q \in Queries, Shows(t, c, LevelFor(q))
  PROVE  Passes(t, q) <=> Wanted(c, q)
<1> DEFINE A == {Meets(c, q, f) : f \in Present(q)}
           B == {MeetsTag(c, q, n) : n \in TagNames(q)}
<1>1. Checks(t, q) = A \cup B
  BY ChecksMeaning
<1>2. q.mode = "and" \/ q.mode = "or"
  BY ConstantsAssumption
<1>3. TagNames(q) = {} <=> q.tags = << >>
  <2>1. q.tags \in Seq(Seq(STRING) \X STRING)
    BY ConstantsAssumption
  <2>2. DOMAIN q.tags = {} <=> q.tags = << >>
    <3>1. DOMAIN q.tags = 1..Len(q.tags) /\ Len(q.tags) \in Nat
      BY <2>1
    <3>2. Len(q.tags) = 0 <=> q.tags = << >>
      BY <2>1, EmptySeq
    <3>3. \A n \in Nat : 1..n = {} <=> n = 0
      OBVIOUS
    <3> QED BY <3>1, <3>2, <3>3
  <2> QED BY <2>2 DEF TagNames
<1>4. /\ FALSE \notin A <=> \A f \in Present(q) : Meets(c, q, f)
      /\ TRUE \in A <=> \E f \in Present(q) : Meets(c, q, f)
  <2>1. \A f \in Present(q) : Meets(c, q, f) \in BOOLEAN
    BY Zenon DEF Meets, Present
  <2>2. \A x : x \in A <=> \E f \in Present(q) : x = Meets(c, q, f)
    BY Zenon
  <2> HIDE DEF A
  <2> QED BY <2>1, <2>2, Zenon
<1>6. /\ FALSE \notin B <=> \A n \in TagNames(q) : MeetsTag(c, q, n)
      /\ TRUE \in B <=> \E n \in TagNames(q) : MeetsTag(c, q, n)
  <2>1. \A n \in TagNames(q) : MeetsTag(c, q, n) \in BOOLEAN
    BY Zenon DEF MeetsTag
  <2>2. \A x : x \in B <=> \E n \in TagNames(q) : x = MeetsTag(c, q, n)
    BY Zenon
  <2> HIDE DEF B
  <2> QED BY <2>1, <2>2, Zenon
<1>5. A \cup B = {} <=> Present(q) = {} /\ TagNames(q) = {}
  BY Zenon
<1> HIDE DEF A, B
<1>7. /\ FALSE \notin A \cup B <=> FALSE \notin A /\ FALSE \notin B
      /\ TRUE \in A \cup B <=> TRUE \in A \/ TRUE \in B
  OBVIOUS
<1> DEFINE F == {f \in Present(q) : Meets(c, q, f)}
           N == {n \in TagNames(q) : MeetsTag(c, q, n)}
<1>8. /\ F = Present(q) <=> \A f \in Present(q) : Meets(c, q, f)
      /\ F # {} <=> \E f \in Present(q) : Meets(c, q, f)
      /\ N = TagNames(q) <=> \A n \in TagNames(q) : MeetsTag(c, q, n)
      /\ N # {} <=> \E n \in TagNames(q) : MeetsTag(c, q, n)
  OBVIOUS
<1>9. Wanted(c, q) <=>
        IF q.mode = "and" \/ (Present(q) = {} /\ q.tags = << >>)
          THEN F = Present(q) /\ N = TagNames(q)
          ELSE F # {} \/ N # {}
  BY Zenon DEF Wanted, Satisfied
<1> HIDE DEF F, N
<1>10. Passes(t, q) <=> \/ A \cup B = {}
                        \/ q.mode = "and" /\ FALSE \notin A \cup B
                        \/ q.mode = "or" /\ TRUE \in A \cup B
  BY <1>1, Zenon DEF Passes
<1> QED BY <1>2, <1>3, <1>4, <1>5, <1>6, <1>7, <1>8, <1>9, <1>10

-----------------------------------------------------------------------------
(* The snapshot, as a function of what the last refresh found *)

FoundInv == discovered \subseteq Containers
CacheInv ==
  FoundInv /\ snapshot.cache = [l \in Levels |-> {Shown(c, l) : c \in discovered}]

LEMMA ShownLabels ==
  ASSUME NEW c, NEW l
  PROVE  /\ Shown(c, l).addr = c.addr
         /\ DOMAIN Shown(c, l).labels =
              {k \in DOMAIN AllLabels(c) : LevelOf(k) \in Included[l]}
         /\ \A k \in DOMAIN Shown(c, l).labels : Shown(c, l).labels[k] = AllLabels(c)[k]
BY DEF Shown, AtLevel, Target

LEMMA BuiltCache ==
  ASSUME NEW S
  PROVE  BuildSnapshot({Target(c) : c \in S}).cache =
           [l \in Levels |-> {Shown(c, l) : c \in S}]
<1>1. \A l : {AtLevel(t, l) : t \in {Target(c) : c \in S}} = {Shown(c, l) : c \in S}
  BY Zenon DEF Shown
<1> QED BY <1>1 DEF BuildSnapshot

LEMMA CacheStep == CacheInv /\ [Next]_vars => CacheInv'
<1> SUFFICES ASSUME CacheInv, [Next]_vars PROVE CacheInv'
  OBVIOUS
<1>1. ASSUME NEW S \in SUBSET Containers, Refresh(S) PROVE CacheInv'
  BY <1>1, BuiltCache DEF Refresh, CacheInv, FoundInv
<1>2. ASSUME UNCHANGED <<discovered, snapshot>> PROVE CacheInv'
  BY <1>2 DEF CacheInv, FoundInv
<1>3. (\E S \in SUBSET Containers : Refresh(S)) \/ UNCHANGED <<discovered, snapshot>>
  BY DEF Next, ClockMoves, Delivered, Serve, vars
<1> QED BY <1>1, <1>2, <1>3

LEMMA CacheInit == Init => CacheInv
<1> SUFFICES ASSUME Init PROVE CacheInv
  OBVIOUS
<1>1. snapshot.cache = [l \in Levels |-> {}] /\ discovered = {}
  BY DEF Init
<1>2. \A l : {Shown(c, l) : c \in {}} = {}
  OBVIOUS
<1> QED BY <1>1, <1>2 DEF CacheInv, FoundInv

LEMMA CacheFollows == Spec => []CacheInv
<1> QED BY CacheInit, CacheStep, PTL DEF Spec

(* Higher levels show all labels of the lower ones, with the same values,  *)
(* of the same targets, whatever was discovered and however often          *)
(* (MetadataLevel::includes, filter_labels_by_level).                      *)
THEOREM LevelsAgree == Spec => []LevelsNested
<1>1. \A i, j \in DOMAIN LevelOrder : i < j =>
        /\ Included[LevelOrder[i]] \subseteq Included[LevelOrder[j]]
        /\ LevelOrder[i] \in Levels /\ LevelOrder[j] \in Levels
  BY DEF LevelOrder, Included, Levels
<1>2. CacheInv => LevelsNested
  <2> SUFFICES ASSUME CacheInv, NEW i \in DOMAIN LevelOrder, NEW j \in DOMAIN LevelOrder, i < j
               PROVE  LET lower == snapshot.cache[LevelOrder[i]]
                          higher == snapshot.cache[LevelOrder[j]]
                      IN /\ \A t \in lower : \E u \in higher : Extends(t, u)
                         /\ \A u \in higher : \E t \in lower : Extends(t, u)
    BY DEF LevelsNested
  <2> DEFINE a == LevelOrder[i]
             b == LevelOrder[j]
  <2>1. a \in Levels /\ b \in Levels /\ Included[a] \subseteq Included[b]
    BY <1>1
  <2>2. /\ snapshot.cache[a] = {Shown(c, a) : c \in discovered}
        /\ snapshot.cache[b] = {Shown(c, b) : c \in discovered}
    BY <2>1 DEF CacheInv
  <2> HIDE DEF a, b
  <2>3. ASSUME NEW c PROVE Extends(Shown(c, a), Shown(c, b))
    BY <2>1, ShownLabels DEF Extends
  <2> QED BY <2>2, <2>3 DEF a, b
<1> QED BY <1>2, CacheFollows, PTL

-----------------------------------------------------------------------------
(* The answer *)

LEMMA AnswerStep ==
  CacheInv /\ AnswerMeetsRequest /\ [Next]_vars => AnswerMeetsRequest'
<1> SUFFICES ASSUME CacheInv, AnswerMeetsRequest, [Next]_vars PROVE AnswerMeetsRequest'
  OBVIOUS
<1>1. CASE ClockMoves \/ Delivered \/ \E S \in SUBSET Containers : Refresh(S)
  BY <1>1 DEF ClockMoves, Delivered, Refresh, AnswerMeetsRequest, Answered
<1>2. ASSUME NEW q \in Queries, Serve(q), ~proxyMode PROVE AnswerMeetsRequest'
  <2> DEFINE l == LevelFor(q)
  <2>1. answer'.query = q /\ answer'.targets = DirectTargets(q)
    BY <1>2 DEF Serve
  <2>2. l \in Levels
    BY ConstantsAssumption DEF LevelFor
  <2>3. DirectTargets(q) = {t \in {Shown(c, l) : c \in discovered} : Passes(t, q)}
    BY <2>2, Zenon DEF DirectTargets, CacheInv
  <2>4. ASSUME NEW c \in discovered
        PROVE  Passes(Shown(c, l), q) <=> Wanted(c, q)
    <3>1. Shows(Shown(c, l), c, l) /\ c \in Containers
      BY ShownLabels DEF Shows, CacheInv, FoundInv
    <3> QED BY <3>1, PassesWhatIsWanted
  <2>5. DirectTargets(q) = {Shown(c, l) : c \in {d \in discovered : Wanted(d, q)}}
    <3> HIDE DEF l
    <3> QED BY <2>3, <2>4
  <2>6. UNCHANGED <<discovered, proxyMode>>
    BY <1>2 DEF Serve
  <2>7. AnswerMeetsRequest' <=>
          (Answered' /\ ~proxyMode' =>
             answer'.targets =
               {Shown(c, LevelFor(answer'.query)) :
                  c \in {d \in discovered' : Wanted(d, answer'.query)}})
    BY DEF AnswerMeetsRequest, Query
  <2> QED BY <2>1, <2>5, <2>6, <2>7
<1>3. ASSUME NEW q \in Queries, Serve(q), proxyMode PROVE AnswerMeetsRequest'
  BY <1>3 DEF Serve, AnswerMeetsRequest
<1>4. CASE UNCHANGED vars
  BY <1>4 DEF vars, AnswerMeetsRequest, Answered, Query
<1> QED BY <1>1, <1>2, <1>3, <1>4 DEF Next

(* In discovery mode the answer to every request holds exactly the         *)
(* containers of the last refresh whose cluster, service, family and tags  *)
(* the request asks for, at the levels of TellingLevels, with the labels   *)
(* that they have there (filter_targets, sd_handler).                      *)
THEOREM AnswersMeetRequests == Spec => []AnswerMeetsRequest
<1>1. Init => AnswerMeetsRequest
  BY DEF Init, AnswerMeetsRequest, Answered
<1> QED BY <1>1, AnswerStep, CacheFollows, PTL DEF Spec

(* The types hold in every reachable state; an age is never negative, also *)
(* when the clock went back behind the last refresh (SdQuery).             *)
THEOREM TypeCorrect == Spec => []TypeOK
<1> USE ConstantsAssumption
<1>1. Init => TypeOK
  BY DEF Init, TypeOK, Answered
<1>2. TypeOK /\ [Next]_vars => TypeOK'
  <2> SUFFICES ASSUME TypeOK, [Next]_vars PROVE TypeOK'
    OBVIOUS
  <2>1. CASE ClockMoves \/ Delivered
    BY <2>1 DEF ClockMoves, Delivered, TypeOK, Answered
  <2>2. ASSUME NEW S \in SUBSET Containers, Refresh(S) PROVE TypeOK'
    <3>1. /\ DOMAIN snapshot'.cache = Levels
          /\ snapshot'.lastRefresh = now /\ answer' = NoAnswer
      BY <2>2, Zenon DEF Refresh, BuildSnapshot
    <3> QED BY <2>2, <3>1 DEF Refresh, TypeOK, Answered
  <2>3. ASSUME NEW q \in Queries, Serve(q) PROVE TypeOK'
    <3>1. CacheAge(snapshot.lastRefresh) \in Nat
      BY DEF CacheAge, TypeOK
    <3>2. answer'.age = CacheAge(snapshot.lastRefresh) /\ answer'.state \in {"fresh", "stale"}
      BY <2>3 DEF Serve
    <3> QED BY <2>3, <3>1, <3>2 DEF Serve, TypeOK
  <2>4. CASE UNCHANGED vars
    BY <2>4 DEF vars, TypeOK, Answered
  <2> QED BY <2>1, <2>2, <2>3, <2>4 DEF Next
<1> QED BY <1>1, <1>2, PTL DEF Spec
=============================================================================
